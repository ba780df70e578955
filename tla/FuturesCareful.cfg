SPECIFICATION FairSpec
CONSTANTS
    f = f
    inner = inner
    Objects = {f, g, inner}
    Workers = {w1, w2}
    None = none
    Nested <- OneInner
    MaxRounds = 2
    MaxDeinits = 2
    DeinitEarly = FALSE
INVARIANTS
    ResultOfThisUse
    OwnedAfterTouch
    DeinitWaits
PROPERTIES
    ServiceSpec
    TouchEnds
    DeinitEnds
CHECK_DEADLOCK FALSE
