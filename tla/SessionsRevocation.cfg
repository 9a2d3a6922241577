SPECIFICATION Spec
CONSTANTS
    Users = {u1}
    Tokens = {t1, t2}
    Requests = {r1, r2}
    TTL = 1
    MaxClock = 0
    None = None
PROPERTY RevocationClosesFamily
