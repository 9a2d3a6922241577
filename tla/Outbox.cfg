SPECIFICATION FairSpec
CONSTANTS
    Mails = {m1, m2, m3}
    Renderable = {m1}
    Workers = {w1, w2}
    MaxAttempts = 2
    BatchSize = 2
    MaxFaults = 1
    None = None
CHECK_DEADLOCK FALSE
INVARIANTS TypeOK CopiesArePaidFor AttemptsArePaidFor ClosedForAReason
PROPERTIES ImplementsMail SettlesForGood
