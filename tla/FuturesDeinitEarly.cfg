SPECIFICATION FairSpec
CONSTANTS
    f = f
    inner = inner
    Objects = {f, inner}
    Workers = {w1, w2}
    None = none
    Nested <- OneInner
    MaxRounds = 1
    MaxDeinits = 1
    DeinitEarly = TRUE
PROPERTIES
    DeinitEnds
CHECK_DEADLOCK FALSE
