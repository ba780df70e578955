SPECIFICATION MCSpec
CONSTANTS
    Values = {v, w}
    Zero = zero
    Junk = junk
    MaxSize = 6
    ResizeToZero = FALSE
    SwapAny = FALSE
    Addresses = {a1, a2, a3}
    Capacity = 2
    Nodes = {n1, n2, n3}
    Null = null
    Heads = {list, other}
    AppendAnywhere = FALSE
    UnlinkTwice = FALSE
    Processes = {p1, p2, p3}
    Paths <- SharedPaths
    MkdirMayFail = TRUE
    Inputs <- ShortInputs
    Delimiter = delimiter
    FirstSize = 2
    Lines <- ShortLines
    Supported = {"-f", "-v"}
    RequiresValue = {"-v"}
    Dashes = "--"
    None = none
    WordSize = 64
    Arrays <- ShortArrays
    Bits = 8
    Shifts <- ByteShifts
    SizeFactor = 3
    Resolution = 2
    Curves <- ShortCurves
    Unset = unset
    Words <- ShortWords
    MaxOthers = 2
    MaxLength = 5
    LengthMod = 7
    SlashAny = FALSE
    JoinNone = FALSE
    MaxX = 4
    Horizon = 5
    SizeMax = 100
    Users = {u1, u2}
    Shapes <- AllShapes
    Discipline = "all"
INVARIANTS
    RoomPromised
    ItemsKept
    ZeroedStaysClean
    HandledOnce
    OwnedOnce
    Mirrored
    ValidateExact
    OneMeansThere
    ExactUnlessOvertaken
    PathsComplete
    Sorts
    Uniform
    TablesReady
    Strung
    OptionsParsed
    Filled
    GetComplete
CHECK_DEADLOCK FALSE
