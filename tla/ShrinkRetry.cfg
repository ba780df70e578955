SPECIFICATION Spec
CONSTANTS
    Threads = {th1, th2, th3}
    Tasks = {a}
    Pills = {p1, p2, p3}
    Producers = {prod}
    Ctl = ctl
    None = none
    ThreadLimit = 3
    NewSizes = {3}
    Calls <- ShrinkRetryCalls
    MaxCalls = 3
    CreateMayFail = FALSE
    MallocMayFail = TRUE
INVARIANT
    Drained
CHECK_DEADLOCK FALSE
