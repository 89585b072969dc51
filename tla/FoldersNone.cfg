SPECIFICATION JSpec
CONSTANTS
    Box = {1, 2, 3}
    Mid = {1, 2, 3}
    Flag = {}
    MaxFile = 4
    MaxEmail = 4
    Policy = "ServerWins"
    Folder <- FoldersFlat
    Layout = "flat"
    Selection <- Everything
    Names = {"i", "a", "b", "c"}
    Reuse = FALSE
    SampleSizes = {1, 4}
    Setups <- NonePolicy
INVARIANT
    NothingLost
