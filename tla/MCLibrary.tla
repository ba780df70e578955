----------------------------- MODULE MCLibrary -----------------------------
(* Small instances of the parts of the library that have no threads: a state *)
(* is one of an array, of a register of memory, of singly linked lists, of a *)
(* doubly linked list, of processes that make directories, of read_paths, of *)
(* the option parser, of a bounded random number, of an array being sorted,  *)
(* of a curve being sampled, of a new table, of a program that makes strings *)
(* or of a path that is sampled.                                             *)
EXTENDS Array, Memory, List, MCFilesystem, CommandLine, Quicksort, Random, TableSize,
        Bezier, Strings, MCSplinePath

VARIABLE kind

dataVars == <<arrayVars, memoryVars, slistVars, dlistVars, splineVars>>
systemVars == <<filesVars, pathsVars, optionsVars, stringsVars>>
numberVars == <<randomVars, quicksortVars, curveVars, tableSizeVars>>
vars == <<kind, dataVars, systemVars, numberVars>>

\* values for Inputs: names and delimiters, also at the start and twice
ShortInputs == UNION {[1..n -> {"x", Delimiter}] : n \in 0..6}
\* values for Lines: the end of the options, one without and one with a value,
\* and what is not supported
ShortLines == UNION {[1..n -> {"--", "-f", "-v", "-u"}] : n \in 0..5}
\* values for Arrays
ShortArrays == UNION {[1..n -> 1..3] : n \in 0..6}
\* values for Curves: the points from the x position 0 to width
ShortCurves ==
    UNION {{<<0, x, width>> : x \in 0..width} \cup {<<0, x, y, width>> : x, y \in 0..width} :
             width \in 1..7}
\* values for Shifts: of a byte
ByteShifts == <<1, 2, 4>>
\* values for Words: empty ones, delimiters, slashes and digits
ShortWords == {<<>>, <<Slash>>, <<Slash, Slash>>, <<48>>, <<57>>, <<57, 48>>}

NoArray ==
    /\ zeroed = FALSE /\ block = "null" /\ cells = <<>> /\ size = 0 /\ used = 0
    /\ ret = "ok" /\ room = 0 /\ items = <<>>
NoMemory ==
    /\ register = "memreg" /\ data = TRUE /\ capacity = 0 /\ entries = <<>>
    /\ owner = [a \in Addresses |-> "allocator"] /\ misuse = FALSE
NoNext == next = [n \in Nodes |-> Null]
NoSlist == heads = [h \in Heads |-> Null] /\ allocated = {}
NoDlist ==
    /\ previous = [n \in Nodes |-> Null] /\ head = Null
    /\ order = <<>> /\ report = "none"
NoFiles ==
    /\ exists = {} /\ maker = [d \in AllDirectories |-> "none"]
    /\ LET each(x) == [p \in Processes |-> x] IN
       /\ pc = each("idle") /\ path = each(<<>>) /\ depth = each(0)
       /\ errno = each("none") /\ status = each(0) /\ missed = each({})
NoPaths ==
    /\ input = <<>> /\ dataSize = 0 /\ dataUsed = 0 /\ phase = "null"
    /\ paths = <<>> /\ readFailed = FALSE
NoOptions ==
    /\ arguments = <<>> /\ index = 0 /\ present = {}
    /\ valueOf = [o \in RequiresValue |-> None] /\ returned = -1
NoRandom == bound = 0 /\ draws = "first" /\ number = 0
NoQuicksort ==
    /\ given = <<>> /\ from = 1 /\ to = 0
    /\ array = <<>> /\ calls = <<>> /\ part = <<>> /\ l = 0 /\ r = 0 /\ pivot = 0
NoCurve ==
    /\ curve = <<0, 0, 0>> /\ start = 0 /\ end = 0 /\ step = 0 /\ reached = 0
    /\ samples = {} /\ fills = {} /\ reads = {}
NoTable ==
    /\ layout = "table" /\ asked = 0 /\ outcome = "none"
    /\ slots = 0 /\ mask = 0 /\ held = {}
NoStrings ==
    result = <<0>> /\ resultLen = -1 /\ slashStatus = 0 /\ text = <<>> /\ slashDue = FALSE
NoSpline ==
    /\ segments = <<>> /\ nested = <<>> /\ got = NoRange
    /\ cursor = [u \in Users |-> AtStart] /\ last = [u \in Users |-> 0]

\* One part is as it starts; the others are empty and stay so.
MCInit ==
    /\ kind \in {"array", "memory", "slist", "dlist", "files", "paths", "options", "random",
                "sort", "curve", "size", "strings", "spline"}
    /\ IF kind = "array" THEN ArrayInit ELSE NoArray
    /\ IF kind = "memory" THEN MemoryInit ELSE NoMemory
    /\ IF kind = "slist" THEN SlistInit ELSE NoSlist
    /\ IF kind = "dlist" THEN DlistInit ELSE NoDlist
    /\ kind \in {"slist", "dlist"} \/ NoNext
    /\ IF kind = "files" THEN FilesInit ELSE NoFiles
    /\ IF kind = "paths" THEN PathsInit ELSE NoPaths
    /\ IF kind = "options" THEN OptionsInit ELSE NoOptions
    /\ IF kind = "random" THEN RandomInit ELSE NoRandom
    /\ IF kind = "sort" THEN QuicksortInit ELSE NoQuicksort
    /\ IF kind = "curve" THEN CurveInit ELSE NoCurve
    /\ IF kind = "size" THEN TableSizeInit ELSE NoTable
    /\ IF kind = "strings" THEN StringsInit ELSE NoStrings
    /\ IF kind = "spline" THEN SplineInit ELSE NoSpline

MCNext ==
    /\ UNCHANGED kind
    /\ \/ /\ kind = "array" /\ ArrayNext
          /\ UNCHANGED <<memoryVars, slistVars, dlistVars, splineVars, systemVars, numberVars>>
       \/ /\ kind = "memory" /\ MemoryNext
          /\ UNCHANGED <<arrayVars, slistVars, dlistVars, splineVars, systemVars, numberVars>>
       \/ /\ kind = "slist" /\ SlistNext
          /\ UNCHANGED <<arrayVars, memoryVars, previous, head, order, report>>
          /\ UNCHANGED <<splineVars, systemVars, numberVars>>
       \/ /\ kind = "dlist" /\ DlistNext
          /\ UNCHANGED <<arrayVars, memoryVars, heads, allocated, splineVars>>
          /\ UNCHANGED <<systemVars, numberVars>>
       \/ /\ kind = "spline" /\ SplineNext
          /\ UNCHANGED <<arrayVars, memoryVars, slistVars, dlistVars, systemVars, numberVars>>
       \/ /\ kind = "files" /\ FilesNext
          /\ UNCHANGED <<dataVars, pathsVars, optionsVars, stringsVars, numberVars>>
       \/ /\ kind = "paths" /\ PathsNext
          /\ UNCHANGED <<dataVars, filesVars, optionsVars, stringsVars, numberVars>>
       \/ /\ kind = "options" /\ OptionsNext
          /\ UNCHANGED <<dataVars, filesVars, pathsVars, stringsVars, numberVars>>
       \/ /\ kind = "strings" /\ StringsNext
          /\ UNCHANGED <<dataVars, filesVars, pathsVars, optionsVars, numberVars>>
       \/ /\ kind = "random" /\ RandomNext
          /\ UNCHANGED <<dataVars, systemVars, quicksortVars, curveVars, tableSizeVars>>
       \/ /\ kind = "sort" /\ QuicksortNext
          /\ UNCHANGED <<dataVars, systemVars, randomVars, curveVars, tableSizeVars>>
       \/ /\ kind = "curve" /\ Evaluate
          /\ UNCHANGED <<dataVars, systemVars, randomVars, quicksortVars, tableSizeVars>>
       \/ /\ kind = "size" /\ TableSizeNext
          /\ UNCHANGED <<dataVars, systemVars, randomVars, quicksortVars, curveVars>>

MCSpec == MCInit /\ [][MCNext]_vars
=============================================================================
