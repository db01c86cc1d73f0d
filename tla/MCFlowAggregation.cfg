SPECIFICATION Spec
CONSTANTS
    a = a
    b = b
    c = c
    Keys = {a, b, c}
    Times <- MCTimes
    ActiveTimeout = 3
    IdleTimeout = 2
    ActiveDeadline = 3
    IdleDeadline = 2
    MaxPacketsPerFlow = 3
    MaxActiveFlows = 2
    CompactAt = 3
    CaptureLength = 5
SYMMETRY Conversations
CHECK_DEADLOCK FALSE
INVARIANT
    HeapBounded
    NoPacketLost
    SegmentsRespectTimeouts
    SplitsAreDue
PROPERTY
    TableSpec
