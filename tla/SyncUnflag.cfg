SPECIFICATION Spec
CONSTANTS
    Box = {1, 2}
    Mid = {m1, m2}
    Flag = {"S"}
    Directions = {"Both"}
    Seeded = TRUE
    UserOps = {"unflag"}
    ServerOps = {}
    UserPhases <- AnyPhase
    QuietQuery = FALSE
    Environments <- Alone
    MaxFile = 6
    MaxEmail = 5
    MaxVer = 9
INVARIANTS
    PushConverges
