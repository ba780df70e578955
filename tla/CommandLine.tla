----------------------------- MODULE CommandLine ---------------------------
(* other.c, helpers of command line programs: read_paths, which reads a list *)
(* of paths from standard input, and simple_option_parser.  read_paths uses  *)
(* paths_capacity for the paths_cap it declares.                             *)
EXTENDS Integers, Sequences, FiniteSets

CONSTANTS
    Inputs,         \* what can be on standard input, sequences of characters
    Delimiter,      \* the character that ends a path
    FirstSize,      \* paths_data_size_min
    Lines,          \* what a program can be called with, sequences of arguments
    Supported,      \* the options that were set up
    RequiresValue,  \* and those of them that take a value
    Dashes,         \* the argument "--"
    None            \* no value

ASSUME CommandLineAssumption ==
    /\ FirstSize \in Nat \ {0}
    /\ \A s \in Inputs \cup Lines : s \in Seq({s[i] : i \in DOMAIN s})
    /\ RequiresValue \subseteq Supported /\ Dashes \notin Supported

VARIABLES
    input,      \* the whole of it
    dataSize,   \* size of the block
    dataUsed,   \* how many characters were read
    phase,      \* "read", "null" or "data", what was returned
    paths,      \* <<from, to>> for each path, without its delimiter
    readFailed

VARIABLES
    arguments,
    index,      \* how many of them were looked at
    present,    \* the options that were found
    valueOf,    \* and the values of those that require one
    returned    \* 1 or 0 as the parser returns, -1 before that

pathsVars == <<input, dataSize, dataUsed, phase, paths, readFailed>>
optionsVars == <<arguments, index, present, valueOf, returned>>

PathsInit ==
    /\ input \in Inputs
    /\ dataSize = FirstSize /\ dataUsed = 0
    /\ phase \in {"read", "null"}     \* null where malloc fails
    /\ paths = <<>> /\ readFailed = FALSE

ReturnNull == phase' = "null" /\ UNCHANGED <<dataSize, dataUsed, paths>>

\* Mutant of SizeForRead: the block is never made larger.
SizeFixed == dataSize
\* the size of the block that the next read may fill
SizeForRead == IF dataUsed = dataSize THEN dataSize * 2 ELSE dataSize

\* realloc fails
GrowFails ==
    /\ phase = "read" /\ dataUsed = dataSize
    /\ ReturnNull /\ UNCHANGED <<input, readFailed>>

\* read returns some of what is left, as much as there is room for or less
ReadSome ==
    /\ phase = "read"
    /\ \E n \in 1..(Len(input) - dataUsed) :
         /\ dataUsed + n <= SizeForRead
         /\ dataUsed' = dataUsed + n
    /\ dataSize' = SizeForRead
    /\ UNCHANGED <<input, phase, paths, readFailed>>

\* the paths in the first n characters: where a delimiter ends one that is
\* not empty, it is stored
Scan(n) ==
    LET scanned[i \in 0..n] ==
          IF i = 0 THEN [start |-> 1, paths |-> <<>>]
          ELSE IF input[i] # Delimiter THEN scanned[i - 1]
          ELSE [start |-> i + 1,
                paths |-> IF i > scanned[i - 1].start
                          THEN Append(scanned[i - 1].paths, <<scanned[i - 1].start, i - 1>>)
                          ELSE scanned[i - 1].paths]
    IN scanned[n].paths

\* read returns 0 at the end, or where there is no room, or fails; the paths
\* are counted, and stored in a block of that many, whose malloc may fail
ReadEnds ==
    /\ phase = "read"
    /\ readFailed' \in {FALSE, TRUE}
    /\ readFailed' \/ dataUsed = Len(input) \/ dataUsed = SizeForRead
    /\ \/ ReturnNull
       \/ /\ dataUsed > 0
          /\ phase' = "data" /\ paths' = Scan(dataUsed) /\ dataSize' = SizeForRead
          /\ UNCHANGED dataUsed
    /\ UNCHANGED input

PathsNext == GrowFails \/ ReadSome \/ ReadEnds

PathsSpec == PathsInit /\ [][PathsNext]_pathsVars

-----------------------------------------------------------------------------
(* simple_option_parser.  An argument is told by what the parser tests: "--",*)
(* an option that was set up with simple_option_parser_set_option, or another*)
(* one, like "-", a name, an option that is not supported or two in one.     *)

OptionsInit ==
    /\ arguments \in Lines
    /\ index = 0
    /\ present = {} /\ valueOf = [o \in RequiresValue |-> None]
    /\ returned = -1

\* Mutant of Width: the value of an option is looked at as an argument.
WidthOne(a) == 1
\* how far an option moves the index
Width(a) == IF a \in RequiresValue THEN 2 ELSE 1

\* the argument the loop is at
Current == arguments[index + 1]
Looks == returned = -1 /\ index < Len(arguments) /\ UNCHANGED arguments

\* the loop ends at "--", which is skipped, or at what is no option
OptionsEnd ==
    /\ Looks /\ Current \notin Supported
    /\ index' = IF Current = Dashes THEN index + 1 ELSE index
    /\ returned' = 1
    /\ UNCHANGED <<present, valueOf>>

PlainOption ==
    /\ Looks /\ Current \in Supported \ RequiresValue
    /\ present' = present \cup {Current}
    /\ index' = index + Width(Current)
    /\ UNCHANGED <<valueOf, returned>>

OptionWithValue ==
    /\ Looks /\ Current \in RequiresValue
    /\ present' = present \cup {Current}
    /\ IF index + 1 >= Len(arguments)
       THEN returned' = 0 /\ UNCHANGED <<index, valueOf>>
       ELSE /\ valueOf' = [valueOf EXCEPT ![Current] = arguments[index + 2]]
            /\ index' = index + Width(Current)
            /\ UNCHANGED returned

AllArguments ==
    /\ returned = -1 /\ index >= Len(arguments)
    /\ returned' = 1
    /\ UNCHANGED <<arguments, index, present, valueOf>>

OptionsNext == OptionsEnd \/ PlainOption \/ OptionWithValue \/ AllArguments

OptionsSpec == OptionsInit /\ [][OptionsNext]_optionsVars

-----------------------------------------------------------------------------
\* the maximal parts without a delimiter that a delimiter ends
Pieces(n) ==
    {p \in (1..n) \X (1..n) :
       /\ p[1] <= p[2] /\ \A k \in p[1]..p[2] : input[k] # Delimiter
       /\ p[1] = 1 \/ input[p[1] - 1] = Delimiter
       /\ p[2] < n /\ input[p[2] + 1] = Delimiter}

\* However read cuts the input into chunks and however often the block grows,
\* read_paths returns each path that a delimiter ends, in order; only a read
\* that fails cuts the list short (other.c:19-71).
PathsComplete ==
    phase = "data" =>
      /\ dataUsed <= dataSize /\ (~readFailed => dataUsed = Len(input))
      /\ {paths[i] : i \in DOMAIN paths} = Pieces(dataUsed)
      /\ \A i, j \in DOMAIN paths : i < j => paths[i][2] < paths[j][1]

\* how many options with a value stand directly before argument i
RunBefore(i) ==
    Cardinality({k \in 1..(i - 1) : \A l \in k..(i - 1) : arguments[l] \in RequiresValue})
\* the argument, or the place after the last one, is the value of an option
IsValue(i) == RunBefore(i) % 2 = 1

\* The options end at the first argument that is none and is not the value of
\* one; an option counts if and only if it is before that, its value is what
\* follows where it stands last, whatever that looks like, and the parser fails
\* exactly if the last argument lacks its value (other.c:105-128).
OptionsParsed ==
    LET ends == {i \in DOMAIN arguments : ~IsValue(i) /\ arguments[i] \notin Supported}
        stop == IF ends = {} THEN Len(arguments) + 1
                ELSE CHOOSE i \in ends : \A j \in ends : i <= j
        options == {i \in 1..(stop - 1) : ~IsValue(i)}
        valued(o) == {i \in options : arguments[i] = o /\ i < Len(arguments)}
    IN returned # -1 =>
         /\ present = {arguments[i] : i \in options}
         /\ returned = 0 <=> ends = {} /\ IsValue(Len(arguments) + 1)
         /\ returned = 1 =>
              index = IF ends # {} /\ arguments[stop] = Dashes THEN stop ELSE stop - 1
         /\ \A o \in RequiresValue :
              valueOf[o] = IF valued(o) = {} THEN None
                           ELSE arguments[1 + CHOOSE i \in valued(o) : \A j \in valued(o) : j <= i]
=============================================================================
