SPECIFICATION FrameSpec
CONSTANTS
    Script <- DefaultFrame
    Jobs <- DefaultJobs
    MayDepend <- DefaultDependencies
    NullJob = NullJob
    ThreadCount = 2
    MaxDependents = 13
CONSTRAINTS
    BeforeQuit
INVARIANTS
    DocumentedOrder
