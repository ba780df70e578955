----------------------------- MODULE Quicksort -----------------------------
(* quicksort.h: Hoare partition in place.  The pivot is an index, which is   *)
(* corrected when the pivot element is swapped away, and the loops that look *)
(* for the next pair rely on the elements to stop them.                      *)
EXTENDS Integers, Sequences, FiniteSetsExt

CONSTANT Arrays     \* what can be sorted, sequences of numbers

ASSUME QuicksortAssumption == Arrays \subseteq Seq(Int)

VARIABLES
    given,      \* the array before, and the part of it that is to be sorted
    from,
    to,
    array,      \* the array now
    calls,      \* the calls to be made, the next one first, as <<left, right>>
    part,       \* the call in progress, or <<>>
    l,
    r,
    pivot

quicksortVars == <<given, from, to, array, calls, part, l, r, pivot>>

QuicksortInit ==
    /\ given \in Arrays
    /\ from \in 1..(Len(given) + 1) /\ to \in 0..Len(given)
    /\ array = given
    /\ calls = <<<<from, to>>>> /\ part = <<>>
    /\ l = 0 /\ r = 0 /\ pivot = 0

\* the test at the start of the function
Enter ==
    /\ part = <<>> /\ calls # <<>>
    /\ calls' = Tail(calls)
    /\ LET left == Head(calls)[1]
           right == Head(calls)[2]
       IN IF right <= left
          THEN UNCHANGED <<part, l, r, pivot>>
          ELSE /\ part' = <<left, right>> /\ l' = left /\ r' = right
               /\ pivot' = left + ((right - left) \div 2)
    /\ UNCHANGED <<given, from, to, array>>

\* less_p compares the numbers; where an index has left the array the loop
\* reads what is not there, told as index 0 or Len(array) + 1
UpTo == Min({i \in l..(Len(array) + 1) : i > Len(array) \/ ~(array[i] < array[pivot])})
DownTo == Max({i \in 0..r : i < 1 \/ ~(array[pivot] < array[i])})

\* Mutant of Followed: the pivot stays where it was.
FollowedNever(i, j) == pivot
\* where the pivot element is after the elements at i and j are swapped
Followed(i, j) ==
    CASE pivot = i -> j
      [] pivot = j /\ pivot # i -> i
      [] OTHER -> pivot

Swap(a, i, j) == [a EXCEPT ![i] = a[j], ![j] = a[i]]

\* a round of the outer loop
Round ==
    /\ part # <<>> /\ l <= r
    /\ IF UpTo <= DownTo
       THEN /\ array' = Swap(array, UpTo, DownTo)
            /\ pivot' = Followed(UpTo, DownTo)
            /\ l' = UpTo + 1 /\ r' = DownTo - 1
       ELSE l' = UpTo /\ r' = DownTo /\ UNCHANGED <<array, pivot>>
    /\ UNCHANGED <<given, from, to, calls, part>>

\* a call that is only made for more than one element
Push(p, s) == IF p[1] < p[2] THEN <<p>> \o s ELSE s

\* the loop ends; the lower part is sorted first
Recurse ==
    /\ part # <<>> /\ l > r
    /\ calls' = Push(<<part[1], r>>, Push(<<l, part[2]>>, calls))
    /\ part' = <<>>
    /\ UNCHANGED <<given, from, to, array, l, r, pivot>>

QuicksortNext == Enter \/ Round \/ Recurse

QuicksortSpec == QuicksortInit /\ [][QuicksortNext]_quicksortVars

-----------------------------------------------------------------------------
\* how often x is in a
Occurrences(a, x) == Cardinality({i \in DOMAIN a : a[i] = x})

\* No element is lost on the way and no loop looks outside of its part.  When
\* all calls returned, the part that was to be sorted is in order and the rest
\* is as it was (quicksort.h:12-43).
Sorts ==
    /\ \A i \in DOMAIN given : Occurrences(array, given[i]) = Occurrences(given, given[i])
    /\ \A i \in DOMAIN given : i \notin from..to => array[i] = given[i]
    /\ part # <<>> /\ l <= r => UpTo <= part[2] /\ DownTo >= part[1]
    /\ part = <<>> /\ calls = <<>> =>
         \A i, j \in from..to : i < j => array[i] <= array[j]
=============================================================================
