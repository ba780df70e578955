SPECIFICATION Spec
CONSTANTS
    Threads = {th1, th2, th3}
    Tasks = {a, b}
    Pills = {p1, p2}
    Producers = {prod1, prod2}
    Ctl = ctl
    None = none
    ThreadLimit = 2
    NewSizes = {0, 1, 2}
    Calls <- AllCalls
    MaxCalls = 3
    CreateMayFail = TRUE
    MallocMayFail = TRUE
SYMMETRY Symmetry
INVARIANTS
    TypeOK
    OnePlace
    NoLostWakeup
    ShutdownWakes
PROPERTY
    ServiceSpec
CHECK_DEADLOCK FALSE
