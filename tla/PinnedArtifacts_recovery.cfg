SPECIFICATION Spec
CONSTANTS
    Jobs = {j, k}
    Processes = {p, q}
    DemoVersions = {1, 2}
    Edits = 1
INVARIANT RecoveryFindsPinned
CHECK_DEADLOCK FALSE
