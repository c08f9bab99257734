SPECIFICATION JoinSpec
CONSTANTS
    Remote <- MCRemote
    MaxPushed = 2
    NothingIri <- MCNothing
    RowBudget = 6
    MayCancel = TRUE
    Cases <- MCMinusCases
INVARIANTS AnswerExact
CHECK_DEADLOCK FALSE
