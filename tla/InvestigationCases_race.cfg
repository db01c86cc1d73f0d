SPECIFICATION Spec
CONSTANTS
    Analysts = {a, b}
    SourceObjects = {h}
    OtherObjects = {x, y}
    Assignees = {z}
    Priorities = {"medium", "high"}
    MaxReferences = 2
    MaxNotes = 2
    Calls = 4
PROPERTY ClosedIsTerminal
CHECK_DEADLOCK FALSE
