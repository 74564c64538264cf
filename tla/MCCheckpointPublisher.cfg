SPECIFICATION FairSpec
CONSTANTS
    MaxPending = 2
    MaxJobs = 4
    Faults <- AllFaults
INVARIANTS
    TypeOK
    PublishedInOrder
    NoOrphanDirectory
    RetainedBounded
    CloseMeansSettled
PROPERTIES
    FailureIsFinal
    WaitMeansPublished
    RefinesOrdered
    CallsReturn
