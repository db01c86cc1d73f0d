SPECIFICATION Spec
CONSTANTS
    w1 = w1
    w2 = w2
    NoWorker = NoWorker
    OperatorSession = OperatorSession
    StarterSession = StarterSession
    Workers = {w1, w2}
    MaxAttempts = 2
    Packets = 2
    LeaseTicks = 1
    Ending = TRUE
INVARIANT ReadableRow
