SPECIFICATION FairSpec
CONSTANTS
    Box = {1, 2}
    Mid = {m1, m2}
    Flag = {"S"}
    Directions = {"Both"}
    Seeded = TRUE
    UserOps = {"new", "flag", "move", "delete", "dbloss"}
    ServerOps = {"create", "flag", "unflag", "move", "destroy"}
    UserPhases <- OutsideScan
    QuietQuery = TRUE
    Environments <- Recovering
    MaxFile = 6
    MaxEmail = 5
    MaxVer = 9
INVARIANTS
    TypeOK
    TablesAgree
    PullConverges
    PushConverges
    NoRedownload
PROPERTIES
    CursorSkipsOnlyOwn
    DestroysOnlyDeleted
    NoReupload
    EventuallyInSync
