SPECIFICATION PSpec
CONSTANTS
    Emails = {e1, e2, e3}
    Existing = {e1, e2, e3}
    QueryPage = 2
    ServerPage = 1
    ChangesPage = 1
    GetChunk = 2
    Totals = {TRUE}
    Garbles = {}
    QuietQuery = TRUE
    MaxChanges = 0
    MaxTroubles = 0
INVARIANTS
    NothingSkipped
CHECK_DEADLOCK FALSE
