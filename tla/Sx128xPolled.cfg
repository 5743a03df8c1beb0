\* Every order of polled operations and chip events.
CONSTANTS
    Width = 4
    Data <- MCData
    Heard <- MCHeard
    Header <- MCHeader
    Setups <- MCSetups
    Starts = {0, 1}
    Sizes = {1}
    ResetTxBase = 1
    Unset = Unset
CHECK_DEADLOCK FALSE
SPECIFICATION Spec
INVARIANTS TypeOK SentAsGiven AnswerTellsOutcome ReceivedAsHeard SavedIsInChip LongerTakesLonger
PROPERTY WaitsEnd
