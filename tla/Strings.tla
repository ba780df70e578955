------------------------------- MODULE Strings -----------------------------
(* string.h: the blocks that strings are put together in.  A string that is  *)
(* given is the sequence of its characters; one in memory ends with a 0.     *)
(* Lengths are numbers of a size_t, which no memory exceeds, but where the   *)
(* code keeps them in 32 bits, and where the number of strings underflows.   *)
EXTENDS Integers, Sequences

CONSTANTS
    Unset,      \* content of a block that nothing was written to
    Words,      \* the strings that are joined, and the delimiters
    MaxOthers,  \* bound of the strings that are joined to one
    MaxLength,  \* bound of the texts
    LengthMod,  \* 2^32: ensure_trailing_slash keeps the length in a uint32_t
    SlashAny,   \* ensure_trailing_slash may be given the empty string, or one
                \* whose length with a slash and a terminator 32 bits do not hold
    JoinNone    \* string_join may be given no strings with a delimiter of at
                \* most one character

ASSUME StringsAssumption ==
    /\ Unset \notin Nat /\ Words \subseteq Seq(Nat \ {0})
    /\ MaxOthers \in Nat /\ MaxLength \in Nat
    /\ LengthMod \in Nat \ {0}
    /\ SlashAny \in BOOLEAN /\ JoinNone \in BOOLEAN

VARIABLES
    result,       \* the block that the last call returned
    resultLen,    \* the length it reported, -1 after calls that report none
    slashStatus,  \* what ensure_trailing_slash returned
    text,         \* history: the characters that are to be in the block
    slashDue      \* history: the last call was to add a slash

stringsVars == <<result, resultLen, slashStatus, text, slashDue>>

Alloc(n) == [i \in 1..n |-> Unset]
Slash == 47
Digit(n) == 48 + (n % 10)

\* memcpy behind the first "at" bytes; a write outside makes the block longer
Memcpy(to, at, from) ==
    [i \in 1..(IF Len(to) < at + Len(from) THEN at + Len(from) ELSE Len(to)) |->
       IF i - at \in DOMAIN from THEN from[i - at] ELSE to[i]]

Strlen(b) == CHOOSE n \in 0..(Len(b) - 1) : b[n + 1] = 0 /\ \A i \in 1..n : b[i] # 0
Characters(b) == SubSeq(b, 1, Strlen(b))

TotalLength(strings) ==
    LET total[k \in 0..Len(strings)] ==
          IF k = 0 THEN 0 ELSE total[k - 1] + Len(strings[k])
    IN total[Len(strings)]

\* Mutant of JoinSize: a delimiter is counted for each string after the second.
JoinSizeShort(strings, delimiter) ==
    1 + Len(delimiter) * (Len(strings) - 2) + TotalLength(strings)
JoinSize(strings, delimiter) ==
    1 + Len(delimiter) * (Len(strings) - 1) + TotalLength(strings)

\* string_join of at least one string
Join(strings, delimiter) ==
    LET size == JoinSize(strings, delimiter)
        filled[k \in 0..(Len(strings) - 1)] ==
          IF k = 0
          THEN [block |-> Memcpy(Alloc(size), 0, strings[1]), cursor |-> Len(strings[1])]
          ELSE LET done == filled[k - 1]
                   behind == done.cursor + Len(delimiter)
               IN [block |-> Memcpy(Memcpy(done.block, done.cursor, delimiter),
                                    behind, strings[k + 1]),
                   cursor |-> behind + Len(strings[k + 1])]
    IN [block |-> Memcpy(filled[Len(strings) - 1].block, size - 1, <<0>>),
        length |-> size - 1]

StringAppend(a, b) ==
    LET copied == Memcpy(Alloc(1 + Len(a) + Len(b)), 0, a)
    IN Memcpy(Memcpy(copied, Len(a), Append(b, 0)), Len(a) + Len(b), <<0>>)

Clone(a) == Memcpy(Alloc(1 + Len(a)), 0, Append(a, 0))

\* uint32_t
Narrow(n) == n % LengthMod
EndsWithSlash(a) ==
    LET length == Narrow(Len(a)) IN length = 0 \/ a[length] = Slash
Slashed(a) ==
    LET length == Narrow(Len(a))
        copied == Memcpy(Alloc(Narrow(2 + length)), 0, SubSeq(a, 1, length))
    IN Memcpy(Memcpy(copied, length, <<Slash>>), Narrow(length + 1), <<0>>)

\* sph_helper_uint_to_string: the number is divided until it has one digit, to
\* count them, then until it is 0, and the digits are written from behind
UintToString(a) ==
    LET t[k \in 0..(a + 1)] == IF k = 0 THEN a ELSE t[k - 1] \div 10
        digits == 1 + CHOOSE k \in 0..a : t[k] < 10 /\ \A j \in 0..(k - 1) : t[j] >= 10
        rounds == CHOOSE k \in 1..(a + 1) : t[k] = 0 /\ \A j \in 1..(k - 1) : t[j] > 0
        written[k \in 0..rounds] ==
          IF k = 0 THEN Memcpy(Alloc(digits + 1), digits, <<0>>)
          ELSE Memcpy(written[k - 1], digits - k, <<Digit(t[k - 1])>>)
    IN [block |-> written[rounds], length |-> digits]

-----------------------------------------------------------------------------
(* What is to be made                                                        *)

Joined(strings, delimiter) ==
    LET joined[k \in 0..(Len(strings) - 1)] ==
          IF k = 0 THEN strings[1] ELSE joined[k - 1] \o delimiter \o strings[k + 1]
    IN joined[Len(strings) - 1]

\* the number that is written in decimal digits
Number(s) ==
    LET value[k \in 0..Len(s)] == IF k = 0 THEN 0 ELSE 10 * value[k - 1] + (s[k] - Digit(0))
    IN value[Len(s)]

\* s is how a number is written
Decimal(s) ==
    /\ s # <<>> /\ \A i \in DOMAIN s : s[i] \in Digit(0)..Digit(9)
    /\ s[1] = Digit(0) => Len(s) = 1

-----------------------------------------------------------------------------
(* A program that makes a string from the last one, again and again          *)

StringsInit ==
    result = <<0>> /\ resultLen = -1 /\ slashStatus = 0 /\ text = <<>> /\ slashDue = FALSE

\* a new block for the new text, or malloc returns null and nothing is changed
Makes(newText, newBlock, newLength) ==
    /\ Len(newText) <= MaxLength
    /\ \/ result' = newBlock /\ resultLen' = newLength /\ text' = newText
       \/ resultLen' = -1 /\ UNCHANGED <<result, text>>
    /\ slashStatus' = 0 /\ slashDue' = FALSE

JoinStrings ==
    \E n \in 0..MaxOthers : \E others \in [1..n -> Words], delimiter \in Words :
      LET joined == Join(<<Characters(result)>> \o others, delimiter)
      IN Makes(Joined(<<text>> \o others, delimiter), joined.block, joined.length)

\* string_join of no strings: the size of a delimiter is taken away.  With a
\* shorter delimiter the size is 1 or 0, and strings[0] is undefined.
JoinNothing ==
    /\ \E delimiter \in Words :
         LET size == JoinSize(<<>>, delimiter) IN
         IF size < 0   \* as a size_t more than malloc ever gives
         THEN resultLen' = -1 /\ UNCHANGED result
         ELSE /\ JoinNone
              /\ \E first \in Words :
                   result' = Memcpy(Memcpy(Alloc(size), 0, first), size - 1, <<0>>)
              /\ resultLen' = size - 1
    /\ slashStatus' = 0 /\ slashDue' = FALSE
    /\ UNCHANGED text

AppendString ==
    \E word \in Words :
      \/ Makes(text \o word, StringAppend(Characters(result), word), -1)
      \/ Makes(word \o text, StringAppend(word, Characters(result)), -1)

CloneString == Makes(text, Clone(Characters(result)), -1)

\* status 0: the string that was given; 1: malloc returns null; 2: a new string
EnsureTrailingSlash ==
    /\ SlashAny \/ (text # <<>> /\ Len(text) + 2 < LengthMod)
    /\ LET a == Characters(result) IN
       IF EndsWithSlash(a) THEN slashStatus' = 0 /\ UNCHANGED result
       ELSE \/ slashStatus' = 1 /\ UNCHANGED result
            \/ slashStatus' = 2 /\ result' = Slashed(a)
    /\ slashDue' = ~(text # <<>> /\ text[Len(text)] = Slash)
    /\ slashDue' => Len(text) < MaxLength
    /\ text' = IF slashDue' /\ slashStatus' # 1 THEN Append(text, Slash) ELSE text
    /\ resultLen' = -1

\* the number that the string is the digits of
PrintNumber ==
    /\ Decimal(text)
    /\ LET printed == UintToString(Number(Characters(result)))
       IN Makes(text, printed.block, printed.length)

StringsNext ==
    \/ JoinStrings \/ JoinNothing \/ AppendString \/ CloneString
    \/ EnsureTrailingSlash \/ PrintNumber

StringsSpec == StringsInit /\ [][StringsNext]_stringsVars

-----------------------------------------------------------------------------
\* After any calls the block holds the text it is to hold and one terminator:
\* the size that was counted is the one that is filled, no byte is left unset
\* and none is written behind the block; a reported length is that of the text,
\* and ensure_trailing_slash makes a new string where a slash is missing, and
\* only there (string.h:6, 26, 40, 50).  Of calls that the constants leave out
\* it says nothing: slashes for the empty string and for those of 2^32 - 2
\* characters or more, and no strings joined with a short delimiter.
Strung ==
    /\ result = Append(text, 0)
    /\ resultLen # -1 => resultLen = Len(text)
    /\ slashStatus \in IF slashDue THEN {1, 2} ELSE {0}
=============================================================================
