SPECIFICATION FairSpec
CONSTANTS
    MaxBatchSize = 2
    WriteFrequency = 1
    MaxArrivals = 5
    MaxFailures = 2
    MaxDay = 1
    MaxCrashes = 1
INVARIANTS Lossless FilesHoldTheLog
PROPERTIES FilesAreFinal EverythingStored ImplementsLog
CHECK_DEADLOCK FALSE
