SPECIFICATION FairSpec
CONSTANTS
    Keys = {k1, k2, k3}
    Values = {v}
    None = none
    Size = 2
    RemoveWhenFull = TRUE
PROPERTY
    RemoveEnds
CHECK_DEADLOCK FALSE
