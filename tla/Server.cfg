SPECIFICATION Spec
CONSTANTS
    Clients = 2
    BufferSize = 4
    Debug = FALSE
    Scripts <- MCScripts
INVARIANTS
    InOrder
    BreaksOnlyAtLater
PROPERTIES
    AllApplied
CHECK_DEADLOCK FALSE
