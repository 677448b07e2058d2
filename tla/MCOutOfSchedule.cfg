\* A scheduled rule before a catch-all, at every moment.
CONSTANTS
    Layers <- AllLayers
    Cases <- ScheduledCases
    Week = 3
    DayLength = 4
    Block = 2
    MaxDepth = 2
    MaxConditions = 3
    Refused <- Malformed
SPECIFICATION Spec
INVARIANT OutOfScheduleWaits
CHECK_DEADLOCK FALSE
