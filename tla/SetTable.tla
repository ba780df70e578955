------------------------------ MODULE SetTable -----------------------------
(* set.h: the table of hashtable.h without values and with a bitmap for the  *)
(* flags; one value, null, is not stored in a slot but noted in "nullable".  *)
(* Its loops are those of hashtable.h.                                       *)
EXTENDS HashTable

CONSTANTS Null,   \* the null value
          Unit    \* the only value: an element is there

ASSUME SetAssumption == Null \notin Keys /\ Unit \in Values

VARIABLE nullable

setVars == <<vars, nullable>>

SetInit == Init /\ nullable = FALSE

Add(e) ==
    IF e = Null
    THEN /\ pc = "idle" /\ nullable' = TRUE /\ ret' = "stored"
         /\ UNCHANGED <<home, slotVars, removeVars>>
    ELSE Set(e, Unit) /\ UNCHANGED nullable

RemoveElement(e) ==
    IF e = Null
    THEN /\ pc = "idle" /\ nullable' = FALSE
         /\ ret' = IF nullable THEN "removed" ELSE "missing"
         /\ UNCHANGED <<home, slotVars, removeVars>>
    ELSE RemoveBegin(e) /\ UNCHANGED nullable

ClearSet == Clear /\ nullable' = FALSE

SetNext ==
    \/ \E e \in Keys \cup {Null} : Add(e) \/ RemoveElement(e)
    \/ RemoveStep /\ UNCHANGED nullable
    \/ ClearSet

SetSpec == SetInit /\ [][SetNext]_setVars

\* Tables and sets are dictionaries: no call loses, duplicates or changes
\* another key, and what set, add and remove return is right.  In a set, null
\* needs no room and no other element is touched by adding or removing it.
Dict == INSTANCE Dictionary
        WITH Keys <- Keys \cup {Null}, Capacity <- Size, Apart <- {Null},
             dict <- [k \in Keys \cup {Null} |->
                        IF k = Null THEN IF nullable THEN Unit ELSE None
                        ELSE Content(k)],
             ret <- IF pc = "shift" THEN "removed" ELSE ret
DictionarySpec == Dict!Spec
=============================================================================
