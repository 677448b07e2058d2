\* Rules as the form stores them, through a backup and back.
CONSTANTS
    Layers <- AllLayers
    Cases <- FormCases
    Week = 3
    DayLength = 4
    Block = 2
    MaxDepth = 2
    MaxConditions = 3
    Refused <- Malformed
SPECIFICATION Spec
INVARIANT BackupRestores
CHECK_DEADLOCK FALSE
