SPECIFICATION FairSpec
CONSTANTS
    Messages = {m1, m2, m3}
    MaxSize = 2
    MaxConcurrent = 1
    BackpressureThreshold = 50
    RateLimitEnabled = FALSE
    MaxMessagesPerMinute = 1
    Window = 1
    BufferSize = 1
    MaxInFlight = 1
    MaxClock = 0
PROPERTY
    BackpressureClears
CHECK_DEADLOCK FALSE
