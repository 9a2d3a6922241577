SPECIFICATION Spec
CONSTANTS
    Users = {u1, u2}
    Founder = u1
    Requests = {r1, r2}
    None = None
INVARIANT AdminWhateverOverlaps
