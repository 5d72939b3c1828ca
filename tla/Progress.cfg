SPECIFICATION FairFrameSpec
CONSTANTS
    Script <- SmallFrame
    Jobs <- SmallJobs
    MayDepend <- SmallDependencies
    NullJob = NullJob
    ThreadCount = 2
    MaxDependents = 13
PROPERTIES
    FrameEndsUnlessStale
    QuitEndsUnlessStale
    ImplementsTaskGraph
    StopIsPrompt
