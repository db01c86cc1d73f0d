SPECIFICATION RestartSpec
CONSTANTS
    w1 = w1
    NoWorker = NoWorker
    Workers = {w1}
    JobCount = 1
    MaxAttempts = 1
    Packets = 1
    HeartbeatTicks = 1
    LeaseTicks = 2
    StaleTicks = 3
    MaxFaults = 1
PROPERTY ExpiredLeaseReconciled
