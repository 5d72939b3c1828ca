\* A capture may end the program, and may be the last one.
SPECIFICATION FairSpec
CONSTANTS
    Registered = {worker}
    Late = {late}
    Foreign = {idle}
    Cpus = {1}
    Settings = {"AUTOSAMPLING", "SWITCH_CONTEXT", "SYS_CALLS", "OTHER_PROCESSES"}
    Callstacks <- MCCallstacks
    ChunkSize = 6
    MaxEvents = 4
    MaxStarts = 2
    MaxOthers = 1
INVARIANTS
    DumpIsQuiet
    SysCallOwner
    CallstacksComplete
PROPERTIES
    StopReturns
CHECK_DEADLOCK FALSE
