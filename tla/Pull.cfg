SPECIFICATION PSpec
CONSTANTS
    Emails = {e1, e2, e3}
    Existing = {e1, e2}
    QueryPage = 1
    ServerPage = 2
    ChangesPage = 1
    GetChunk = 2
    Totals = {TRUE, FALSE}
    Garbles = {e1}
    QuietQuery = TRUE
    MaxChanges = 2
    MaxTroubles = 1
INVARIANTS
    PTypeOK
    NothingSkipped
PROPERTIES
    DestructionsApplied
    EventuallyPulled
CHECK_DEADLOCK FALSE
