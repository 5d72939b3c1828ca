SPECIFICATION FairSpec
CONSTANTS
    a = a
    b = b
    c = c
    Jobs <- TwoJobs
    NullJob = NullJob
    ThreadCount = 1
    MaxDependents = 1
    MayDepend <- OnePair
PROPERTIES
    AddedJobsAreWorked
