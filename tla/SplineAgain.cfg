SPECIFICATION SplineSpec
CONSTANTS
    MaxX = 2
    Horizon = 3
    SizeMax = 100
    Users = {u1}
    Shapes <- AllShapes
    Discipline = "any"
INVARIANT
    GetComplete
CHECK_DEADLOCK FALSE
