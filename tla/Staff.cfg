SPECIFICATION Spec
CONSTANTS
    Users = {u1, u2}
    Founder = u1
    Requests = {r1, r2}
    None = None
SYMMETRY Symmetry
INVARIANTS TypeOK GoneIsArchived
PROPERTIES
    AdminLostOnlyInWindow
    ArchivedIsFinal
    BlockStands
    ImplementsMembership
    OnlyInvitedJoin
