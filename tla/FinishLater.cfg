SPECIFICATION Spec
CONSTANTS
    Threads = {th1}
    Tasks = {a}
    Pills = {}
    Producers = {prod}
    Ctl = ctl
    None = none
    ThreadLimit = 1
    NewSizes = {1}
    Calls <- FinishLaterCalls
    MaxCalls = 2
    CreateMayFail = FALSE
    MallocMayFail = FALSE
INVARIANT
    NoUseAfterDestroy
CHECK_DEADLOCK FALSE
