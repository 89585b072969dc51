SPECIFICATION Spec
CONSTANTS
    Box = {1, 2}
    Mid = {m1, m2}
    Flag = {"S"}
    Directions = {"Both", "PullOnly", "PushOnly"}
    Seeded = TRUE
    UserOps = {"new", "copy", "flag", "unflag", "move", "moverename", "delete", "dbloss"}
    ServerOps = {"create", "flag", "unflag", "move", "moveout", "destroy", "forget", "nodup", "duplicate"}
    UserPhases <- AnyPhase
    QuietQuery = FALSE
    Environments <- Hostile
    MaxFile = 6
    MaxEmail = 5
    MaxVer = 9
INVARIANTS
    NothingLost
PROPERTIES
    CursorSkipsOnlyOwn
    UserMoveSticks
    LiveRowsKept
CHECK_DEADLOCK FALSE
