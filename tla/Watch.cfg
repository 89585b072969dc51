SPECIFICATION Spec
CONSTANTS
    Files = {f1}
    Folders = {d1, d2}
    NotifyCap = 1
    ChanCap = 1
    MaxBackoff = 2
    Links = {"up", "unreachable", "unauthorized"}
    Urls = {"cached"}
    SplitsEchoes = FALSE
    Overlaps = FALSE
    Budget = 2
INVARIANTS
    TypeOK
    NothingForgotten
PROPERTIES
    DestroysOnlyGone
    OnlyHardErrorsDeafen
    EventuallySeen
    StreamRecovers
CHECK_DEADLOCK FALSE
