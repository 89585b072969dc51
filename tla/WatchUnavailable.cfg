SPECIFICATION Spec
CONSTANTS
    Files = {f1}
    Folders = {d1, d2}
    NotifyCap = 1
    ChanCap = 1
    MaxBackoff = 2
    Links = {"up", "unreachable", "unavailable", "unauthorized"}
    Urls = {"cached"}
    SplitsEchoes = FALSE
    Overlaps = FALSE
    Budget = 2
PROPERTIES
    DiesOnlyOfHardErrors
CHECK_DEADLOCK FALSE
