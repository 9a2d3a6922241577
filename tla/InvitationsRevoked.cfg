SPECIFICATION Spec
CONSTANTS
    People = {p1}
    Rows = {i1}
    Requests = {r1, r2}
    TTL = 1
    MaxClock = 0
    MaxLinks = 1
    None = None
PROPERTY JoinsByOpenInvitation
