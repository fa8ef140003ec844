SPECIFICATION Spec
CONSTANTS
    LogEvents = {l1}
    UserEvents = {}
    RejectedEvents = {}
    Firings = {f1}
    Configs <- OnlyV3
INVARIANT
    FailedWriteKeepsCounts
CHECK_DEADLOCK FALSE
