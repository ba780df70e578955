SPECIFICATION MCSpec
CONSTANTS
    Keys = {k1, k2, k3, k4, k5}
    Values = {u, v}
    None = none
    Null = null
    Unit = u
    Size = 4
    RemoveWhenFull = FALSE
    Node = {n1, n2, n3}
    NullNode = nullNode
    SizeMod = 8
SYMMETRY Symmetry
VIEW View
INVARIANTS
    GetFinds
    RemoveBounded
    Linked
PROPERTIES
    DictionarySpec
    FifoSpec
CHECK_DEADLOCK FALSE
