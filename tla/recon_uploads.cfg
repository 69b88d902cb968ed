SPECIFICATION ReconSpec
CONSTANTS
    j1 = j1
    j2 = j2
    Jobs = {j1, j2}
    Workers = {w1, w2}
    MaxTries = 1
    MaxCopies = 1
    DayTicks = 2
    Threshold = 70
    NoRef = NoRef
    File <- SameFile
    UserItems <- NoItems
SYMMETRY UploadSymmetry
CHECK_DEADLOCK FALSE
PROPERTIES
    RecreatedOnlyVerified
