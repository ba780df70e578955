SPECIFICATION FilesSpec
CONSTANTS
    Processes = {p1, p2}
    Paths <- SharedPaths
    MkdirMayFail = FALSE
PROPERTY
    ExistsIsOne
CHECK_DEADLOCK FALSE
