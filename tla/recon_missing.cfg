SPECIFICATION ReconSpec
CONSTANTS
    j1 = j1
    j2 = j2
    Jobs = {j1}
    Workers = {w1}
    MaxTries = 2
    MaxCopies = 1
    DayTicks = 2
    Threshold = 70
    NoRef = NoRef
    File <- CoffeeFile
    UserItems <- OwnCoffee
CHECK_DEADLOCK FALSE
INVARIANTS
    OnlyMissingCreated
