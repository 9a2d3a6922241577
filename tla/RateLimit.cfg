SPECIFICATION Spec
CONSTANTS
    Clients = {c1}
    Ops = {login, invite, page, files}
    Strict = {login, invite}
    Files = files
    Shared = shared
    PerMinute = 2
    StrictPerMinute = 1
    Second = 2
    Minute = 4
    MaxNow = 8
    None = None
SYMMETRY Symmetry
CONSTRAINT FewBuckets
INVARIANTS TypeOK WindowBound RetryAfterKept IdleForgotten
PROPERTY ImplementsBuckets
CHECK_DEADLOCK FALSE
