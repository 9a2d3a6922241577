SPECIFICATION FairSpec
CONSTANTS
    Users = {u1}
    Tokens = {t1, t2, t3}
    Requests = {r1, r2}
    TTL = 1
    MaxClock = 1
    None = None
INVARIANTS
    TypeOK
    OneLiveToken
    UsedHasOneSuccessor
    RevokedPrefix
PROPERTIES
    ImplementsChain
    RequestsEnd
    ExpiredStaysUnspent
