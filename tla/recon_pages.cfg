SPECIFICATION ReconPagesSpec
CONSTANTS
    row1 = row1
    row2 = row2
    Rows <- MCRows
    PageOf <- MCPageOf
    AutoAccepted <- MCAutoAccepted
    Statuses <- MCStatuses
    NoRow = NoRow
    NoPage = NoPage
    MaxDecisions = 2
    MaxLost = 1
    UploadFields = {"account", "file"}
    NoList = NoList
    NoUpload = NoUpload
    MaxForms = 2
    MaxUploads = 2
    MaxDeleting = 1
    MaxMissedCalls = 1
CHECK_DEADLOCK FALSE
INVARIANTS
    ReviewSafe
    UploadsSafe
PROPERTIES
    FormIsKept
