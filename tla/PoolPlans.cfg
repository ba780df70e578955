SPECIFICATION PlanSpec
CONSTANTS
    Threads = {th1, th2, th3}
    Tasks = {a}
    Pills = {p1, p2}
    Producers = {prod}
    Ctl = ctl
    None = none
    ThreadLimit = 3
    NewSizes = {1, 2, 3}
    Calls <- PlannedCalls
    MaxCalls = 2
    CreateMayFail = FALSE
    MallocMayFail = FALSE
INVARIANTS
    NoUseAfterDestroy
    NoUndefinedJoin
    Drained
    Headcount
PROPERTIES
    AcceptedRuns
    CallReturns
    ShrinkTakesEffect
CHECK_DEADLOCK FALSE
