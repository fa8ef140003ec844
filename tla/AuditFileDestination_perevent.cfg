SPECIFICATION FairSpec
CONSTANTS
    MaxBatchSize = 2
    WriteFrequency = 0
    MaxArrivals = 3
    MaxFailures = 0
    MaxDay = 0
    MaxCrashes = 0
PROPERTIES WrittenPerEvent
CHECK_DEADLOCK FALSE
