SPECIFICATION Spec
CONSTANTS
    Callers = {c1, c2, c3}
    HasCommand = TRUE
    Requested = 11
INVARIANTS
    TypeOK
    SingleRun
    NoLostTrigger
    BoundedFollowUps
PROPERTIES
    EveryTriggerServed
