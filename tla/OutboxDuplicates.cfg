SPECIFICATION Spec
CONSTANTS
    Mails = {m1}
    Renderable = {m1}
    Workers = {w1, w2}
    MaxAttempts = 2
    BatchSize = 1
    MaxFaults = 0
    None = None
CHECK_DEADLOCK FALSE
INVARIANT NotSentTwice
