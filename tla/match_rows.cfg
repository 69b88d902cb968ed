SPECIFICATION MatchSpec
CONSTANTS
    DayTicks = 2
    Threshold = 70
    NoRef = NoRef
    Grids <- PairsAndScores
CHECK_DEADLOCK FALSE
INVARIANTS
    AgreesWithReference
    ExactIsSpent
    DecidedOnAmounts
