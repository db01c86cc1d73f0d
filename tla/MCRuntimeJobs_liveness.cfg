SPECIFICATION FairSpec
CONSTANTS
    w1 = w1
    w2 = w2
    NoWorker = NoWorker
    Workers = {w1, w2}
    JobCount = 1
    MaxAttempts = 1
    Packets = 1
    HeartbeatTicks = 1
    LeaseTicks = 2
    StaleTicks = 3
    MaxFaults = 1
PROPERTIES
    StopDrains
    ReplaySettles
    PauseAnswered
