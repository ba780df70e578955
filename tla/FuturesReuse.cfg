SPECIFICATION Spec
CONSTANTS
    f = f
    inner = none
    Objects = {f, g}
    Workers = {w1, w2}
    None = none
    Nested <- OneInner
    MaxRounds = 2
    MaxDeinits = 1
    DeinitEarly = FALSE
PROPERTIES
    ReuseSpec
CHECK_DEADLOCK FALSE
