SPECIFICATION WebSpec
CONSTANTS
    Users = {u1, u2}
    NoUser = NoUser
    NoData = NoData
    Cases <- MCCases
CHECK_DEADLOCK FALSE
INVARIANTS
    WebSafe
PROPERTIES
    DataMovesForward
    PollSeesTheEnd
