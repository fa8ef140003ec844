SPECIFICATION MSpec
CONSTANTS
    Messages = {m1, m2, m3, m4}
    MaxSize = 1
    MaxConcurrent = 1
    BackpressureThreshold = 80
    RateLimitEnabled = FALSE
    MaxMessagesPerMinute = 3
    Window = 1
    BufferSize = 1
    MaxInFlight = 2
    MaxClock = 0
    Firings = {f1, f2}
    MaxOverlap = 1
SYMMETRY Symmetry
INVARIANTS
    CountsExact
    CapacityRespected
    PointsAddUp
PROPERTY
    RefusedOnlyWhenBusy
CHECK_DEADLOCK FALSE
