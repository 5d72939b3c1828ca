SPECIFICATION Spec
CONSTANTS
    UIntMax = 11
    HardwareValues <- SmallHardware
    Arguments <- SmallArguments
INVARIANTS
    ThreadCountFits
    IndexInRange
    LoneWorkerReadsSafely
CHECK_DEADLOCK FALSE
