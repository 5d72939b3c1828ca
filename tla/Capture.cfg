\* Chunks of two, so that every pool grows while it is used; three frames fill
\* theirs, which ends the program.  A capture that was sent may be the last thing
\* that happens.
SPECIFICATION Spec
CONSTANTS
    ChunkSize = 2
    FrameChunk = 3
    StackDepth = 1
    BatchLimit = 0
    StringLengths = {40}
    Attachments <- MCAttachments
    Garbage = {2}
    MaxItems = 3
    MaxNesting = 2
    MaxTime = 1
    MaxCaptures = 2
INVARIANTS
    EventsRecorded
    EventsSent
    ScopeShape
    DescriptionsKnown
    RestSent
CHECK_DEADLOCK FALSE
