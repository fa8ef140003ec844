SPECIFICATION FairSpec
CONSTANTS
    Messages = {m1, m2, m3, m4}
    MaxSize = 2
    MaxConcurrent = 1
    BackpressureThreshold = 50
    RateLimitEnabled = TRUE
    MaxMessagesPerMinute = 3
    Window = 1
    BufferSize = 1
    MaxInFlight = 1
    MaxClock = 2
INVARIANT
    DropsAnnounced
PROPERTIES
    WarnedBeforeRefusing
    ImplementsIntake
CHECK_DEADLOCK FALSE
