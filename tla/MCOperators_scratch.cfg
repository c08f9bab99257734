SPECIFICATION OperatorsSpec
CONSTANTS
    Remote <- MCRemote
    MaxPushed = 2
    NothingIri <- MCNothing
    RowBudget = 6
    MayCancel = TRUE
    Cases <- MCCases
    Keys <- MCKeys
    Descending <- MCDescending
    Values = {1, 2}
    Budget = 2
    DiskLimits = {0, 3}
    Slices <- MCSlices
    MaxRows = 4
INVARIANT ScratchRemoved
CHECK_DEADLOCK FALSE
