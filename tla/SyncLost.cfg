SPECIFICATION Spec
CONSTANTS
    Box = {1, 2}
    Mid = {m1, m2}
    Flag = {"S"}
    Directions = {"Both"}
    Seeded = TRUE
    UserOps = {"rename"}
    ServerOps = {}
    UserPhases <- AnyPhase
    QuietQuery = FALSE
    Environments <- Crashing
    MaxFile = 6
    MaxEmail = 5
    MaxVer = 9
INVARIANTS
    NothingLost
