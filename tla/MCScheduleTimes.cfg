\* Schedules written with and without a leading zero.
CONSTANTS
    Layers <- AllLayers
    Cases <- WrittenSchedules
    Week = 3
    DayLength = 4
    Block = 2
    MaxDepth = 2
    MaxConditions = 3
    Refused <- Malformed
SPECIFICATION Spec
INVARIANT ScheduleCovers
CHECK_DEADLOCK FALSE
