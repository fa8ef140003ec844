SPECIFICATION FairSpec
CONSTANTS
    LogEvents = {l1}
    UserEvents = {u1}
    RejectedEvents = {r1}
    Firings = {f1, f2}
    Configs <- Settings
INVARIANTS
    IdleCountsSurvive
    WrittenOnce
PROPERTIES
    IdleCountsReported
    RejectedLeaves
CHECK_DEADLOCK FALSE
