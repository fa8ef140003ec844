SPECIFICATION Spec
CONSTANTS
    Requests = {1, 2, 3, 4}
    Flushes = {11, 12}
    MaxBatchSize = 2
    MaxFailures = 2
    SettingsSet <- MCSettings
    MaxAttempts = 2
    MaxRedirects = 1
    MaxMessagesPerMinute = 1
    Window = 3
    StateTTL = 4
    CleanupInterval = 3
    Sizes <- MCSizes
    HeaderLines <- MCHeaders
INVARIANTS SessionsKept AnswersHold WarnedOncePerWindow AnySpanBounded AtLeastOnce PicturesSound RecordsAgree
PROPERTIES JobsEnd AcceptedIsStored
CHECK_DEADLOCK FALSE
