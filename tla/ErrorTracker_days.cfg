SPECIFICATION Spec
CONSTANTS
    Types = {health, write}
    WriteType = write
    Sizes = 2
    MaxDay = 2
    MaxErrors = 2
INVARIANTS
    CountsAreOfOneDay
    DaysSummarised
PROPERTIES
    ErrorsQuiesce
CHECK_DEADLOCK FALSE
