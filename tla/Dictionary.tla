----------------------------- MODULE Dictionary ----------------------------
(* What hashtable.h and set.h promise: a dictionary of bounded capacity in   *)
(* which storing never changes a key that is there already.                  *)
EXTENDS Naturals, FiniteSets

CONSTANTS
    Keys, Values,
    None,       \* no value: the key is absent
    Capacity,   \* how many keys find room
    Apart       \* keys that need no room (the null value of a set)

VARIABLES dict, \* the value of each key, or None
          ret   \* what the last operation returned

dictVars == <<dict, ret>>

Init == dict = [k \in Keys |-> None] /\ ret = "none"

Stored == {k \in Keys : dict[k] # None}
HasRoom(k) == k \in Apart \/ Cardinality(Stored \ Apart) < Capacity

Insert(k, v) ==
    /\ dict[k] = None /\ HasRoom(k)
    /\ dict' = [dict EXCEPT ![k] = v] /\ ret' = "stored"

Keep(k) == dict[k] # None /\ ret' = "stored" /\ UNCHANGED dict

Refuse(k) == dict[k] = None /\ ~HasRoom(k) /\ ret' = "full" /\ UNCHANGED dict

Delete(k) ==
    IF dict[k] = None THEN ret' = "missing" /\ UNCHANGED dict
    ELSE ret' = "removed" /\ dict' = [dict EXCEPT ![k] = None]

\* through the address that a lookup returned
Write(k, v) ==
    dict[k] # None /\ dict' = [dict EXCEPT ![k] = v] /\ UNCHANGED ret

Clear == dict' = [k \in Keys |-> None] /\ UNCHANGED ret

Next ==
    \/ \E k \in Keys : Keep(k) \/ Refuse(k) \/ Delete(k)
    \/ \E k \in Keys, v \in Values : Insert(k, v) \/ Write(k, v)
    \/ Clear

Spec == Init /\ [][Next]_dictVars
=============================================================================
