SPECIFICATION JSpec
CONSTANTS
    Box = {1, 2, 3, 4}
    Mid = {1, 2, 3}
    Flag = {}
    MaxFile = 4
    MaxEmail = 4
    Policy = "ServerWins"
    Folder <- FoldersReached
    Layout = "fs"
    Selection <- Everything
    Names = {"i", "a", "b", "c"}
    Reuse = FALSE
    SampleSizes = {1, 4}
    Setups <- Accounts
INVARIANTS
    FTypeOK
    NothingLost
    ReuseSound
PROPERTIES
    OnlyRemovedFolders
    OnlyGoneMailboxes
