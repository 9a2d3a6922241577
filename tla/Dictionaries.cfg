CONSTANTS
    Cards = {c1, c2}
    Positions = {p1}
    Tags = {g1}
    Titles = {x, y}
    OwnTitles = {}
    MaxTags = 1
    Requests = {r1, r2}
    None = None
SPECIFICATION FairSpec
INVARIANTS TypeOK RefsLive DeadlocksOverTags
PROPERTIES ShownKept RequestsEnd
