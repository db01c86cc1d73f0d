SPECIFICATION BoundedSpec
CONSTANTS
    w1 = w1
    w2 = w2
    NoWorker = NoWorker
    Workers = {w1, w2}
    JobCount = 2
    MaxAttempts = 2
    Packets = 1
    HeartbeatTicks = 1
    LeaseTicks = 2
    StaleTicks = 3
    MaxFaults = 2
SYMMETRY Symmetry
INVARIANTS
    TypeOK
    RowsValid
    HistoryValid
    QueueNeverJams
    Fenced
    OwnerInStep
    FailedHoldsNothing
PROPERTIES
    LeaseNotStolen
    LifecycleSpec
    OrphanLeaseRunsOut
