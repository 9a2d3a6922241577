SPECIFICATION Spec
CONSTANTS
    People = {p1, p2}
    Rows = {i1, i2}
    Requests = {r1, r2}
    TTL = 1
    MaxClock = 2
    MaxLinks = 2
    None = None
SYMMETRY Symmetry
INVARIANTS TypeOK PendingHasLetter OnePending
PROPERTIES
    ClosedIsFinal
    JoinsHimself
    LinksDieForGood
