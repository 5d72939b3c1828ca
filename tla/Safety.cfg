SPECIFICATION Spec
CONSTANTS
    a = a
    b = b
    c = c
    Jobs <- AllJobs
    NullJob = NullJob
    ThreadCount = 2
    MaxDependents = 2
    MayDepend <- Acyclic
INVARIANTS
    TypeOK
    DependencyOrder
    DependencyCountExact
    JobsToDoExact
    InOnePlace
    QueuePointerExact
    FrameBarrier
    HangMeansStranded
