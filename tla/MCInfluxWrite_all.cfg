SPECIFICATION FairSpec
CONSTANTS
    Points = 4
    MaxBatchSize = 4
    Steps <- MCSteps
    MaxRetries = 1
INVARIANTS
    ReturnedMeansStored
    PoisonIsolated
    DuplicatesBounded
PROPERTY
    Ends
CHECK_DEADLOCK FALSE
