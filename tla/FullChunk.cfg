\* A capture whose frames fill a chunk is saved.
SPECIFICATION Spec
CONSTANTS
    ChunkSize = 2
    FrameChunk = 2
    StackDepth = 1
    BatchLimit = 0
    StringLengths = {}
    Attachments = {}
    Garbage = {2}
    MaxItems = 2
    MaxNesting = 1
    MaxTime = 1
    MaxCaptures = 1
INVARIANT
    FramesWalkEnds
CHECK_DEADLOCK FALSE
