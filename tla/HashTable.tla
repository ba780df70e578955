----------------------------- MODULE HashTable -----------------------------
(* hashtable.h: open addressing with linear probing in tables of fixed size, *)
(* and removal that moves later entries back into the hole.  get and set are *)
(* one step each; the two loops of remove are modelled round by round.       *)
EXTENDS Naturals, FiniteSets, FiniteSetsExt

CONSTANTS
    Keys, Values,
    None,            \* no slot, no key
    Size,            \* the size of the table, what calculate_size returned
    RemoveWhenFull   \* remove may be called on a table without a free slot

ASSUME TableAssumption ==
    /\ IsFiniteSet(Keys) /\ None \notin Keys /\ None \notin Values
    /\ Size \in Nat /\ Size >= 2 /\ None \notin 0..(Size - 1)
    /\ RemoveWhenFull \in BOOLEAN

VARIABLES
    home,     \* hashtable_hash(key, size), the same throughout
    flags,    \* a.flags: whether a slot is full
    keys,     \* a.keys
    values,   \* a.values
    ret,      \* what the last set or remove returned
    pc,       \* "idle", or in the first or second loop of remove
    key,      \* the key to remove
    index,    \* the local variable index of remove
    hole,     \* hole_index
    rounds    \* rounds of the loops so far

slotVars == <<flags, keys, values>>
removeVars == <<pc, key, index, hole, rounds>>
vars == <<home, slotVars, ret, removeVars>>

Slots == 0..(Size - 1)

Init ==
    /\ home \in [Keys -> Slots]
    /\ flags = [s \in Slots |-> FALSE]
    /\ keys = [s \in Slots |-> None]
    /\ values = [s \in Slots |-> None]
    /\ ret = "none"
    /\ pc = "idle" /\ key = None /\ index = 0 /\ hole = 0 /\ rounds = 0

\* (s + 1) & mask; the size is a power of two
Successor(s) == (s + 1) % Size

\* (b - a) & mask: how far b is behind a on the circle of slots
Distance(a, b) == (b + Size - a) % Size

-----------------------------------------------------------------------------
(* set, get, clear, and writing through the address that set and get return. *)

\* Mutant of Stops: the search begins after the home slot.
StopsLate(k) ==
    {n \in 1..(Size - 1) : LET s == (home[k] + n) % Size IN ~flags[s] \/ keys[s] = k}

\* after how many steps the loops of get and set may end at a slot: it is
\* empty, or holds the key
Stops(k) ==
    {n \in 0..(Size - 1) : LET s == (home[k] + n) % Size IN ~flags[s] \/ keys[s] = k}

\* the slot where they end, or None after visiting every slot
Probe(k) == IF Stops(k) = {} THEN None ELSE (home[k] + Min(Stops(k))) % Size

\* get: the slot of the key, or None
Get(k) == IF Probe(k) # None /\ flags[Probe(k)] THEN Probe(k) ELSE None

\* a key that is present keeps its value
Set(k, v) ==
    /\ pc = "idle"
    /\ LET s == Probe(k) IN
       IF s = None THEN ret' = "full" /\ UNCHANGED slotVars
       ELSE /\ ret' = "stored"
            /\ flags' = [flags EXCEPT ![s] = TRUE]
            /\ keys' = [keys EXCEPT ![s] = k]
            /\ values' = [values EXCEPT ![s] = IF flags[s] THEN @ ELSE v]
    /\ UNCHANGED <<home, removeVars>>

Write(k, v) ==
    /\ pc = "idle" /\ Get(k) # None
    /\ values' = [values EXCEPT ![Get(k)] = v]
    /\ UNCHANGED <<home, flags, keys, ret, removeVars>>

Clear ==
    /\ pc = "idle"
    /\ flags' = [s \in Slots |-> FALSE]
    /\ UNCHANGED <<home, keys, values, ret, removeVars>>

-----------------------------------------------------------------------------
(* remove                                                                    *)

Full == \A s \in Slots : flags[s]

RemoveBegin(k) ==
    /\ pc = "idle"
    /\ Full => RemoveWhenFull
    /\ pc' = "find" /\ key' = k /\ index' = home[k]
    /\ UNCHANGED <<home, slotVars, ret, hole, rounds>>

RemoveReturns(r) ==
    /\ ret' = r
    /\ pc' = "idle" /\ key' = None /\ index' = 0 /\ hole' = 0 /\ rounds' = 0

\* bound: rounds are counted up to one more than there are slots
CountRound == rounds' = IF rounds <= Size THEN rounds + 1 ELSE rounds

\* Mutant of Find: empty slots are passed over.
FindPastEmpty ==
    /\ pc = "find"
    /\ IF keys[index] = key
       THEN pc' = "shift" /\ hole' = index /\ UNCHANGED index
       ELSE index' = Successor(index) /\ UNCHANGED <<pc, hole>>
    /\ CountRound
    /\ UNCHANGED <<home, slotVars, ret, key>>

Find ==
    /\ pc = "find"
    /\ IF ~flags[index] THEN RemoveReturns("missing")
       ELSE /\ IF keys[index] = key
               THEN pc' = "shift" /\ hole' = index /\ UNCHANGED index
               ELSE index' = Successor(index) /\ UNCHANGED <<pc, hole>>
            /\ CountRound /\ UNCHANGED <<ret, key>>
    /\ UNCHANGED <<home, slotVars>>

\* Mutant of Moves: removal only empties the slot.
MovesNever(s) == FALSE

\* whether the entry of slot s may fill the hole: that is not before its home
Moves(s) == Distance(home[keys[s]], hole) <= Distance(home[keys[s]], s)

Shift ==
    /\ pc = "shift"
    /\ LET s == Successor(index) IN
       IF ~flags[s]
       THEN /\ flags' = [flags EXCEPT ![hole] = FALSE]
            /\ RemoveReturns("removed")
            /\ UNCHANGED <<keys, values>>
       ELSE /\ index' = s
            /\ IF Moves(s)
               THEN /\ keys' = [keys EXCEPT ![hole] = keys[s]]
                    /\ values' = [values EXCEPT ![hole] = values[s]]
                    /\ hole' = s
               ELSE UNCHANGED <<keys, values, hole>>
            /\ CountRound /\ UNCHANGED <<flags, ret, pc, key>>
    /\ UNCHANGED home

RemoveStep == Find \/ Shift

Next ==
    \/ \E k \in Keys, v \in Values : Set(k, v) \/ Write(k, v)
    \/ \E k \in Keys : RemoveBegin(k)
    \/ RemoveStep
    \/ Clear

Spec == Init /\ [][Next]_vars

\* a call that began goes on
FairSpec == Spec /\ WF_vars(RemoveStep)

-----------------------------------------------------------------------------
TypeOK ==
    /\ home \in [Keys -> Slots]
    /\ flags \in [Slots -> BOOLEAN]
    /\ keys \in [Slots -> Keys \cup {None}]
    /\ values \in [Slots -> Values \cup {None}]
    /\ ret \in {"none", "stored", "full", "removed", "missing"}
    /\ pc \in {"idle", "find", "shift"} /\ key \in Keys \cup {None}
    /\ index \in Slots /\ hole \in Slots
    /\ rounds \in 0..(Size + 1)

\* the slots that count: the hole is still flagged while later entries move
Entries == {s \in Slots : flags[s] /\ ~(pc = "shift" /\ s = hole)}

\* No entry is cut off from its home: between the calls, get finds each one,
\* however keys collided and whatever was removed in between.
GetFinds == pc = "idle" => \A s \in Entries : Get(keys[s]) = s

\* the value of a key, wherever its entry is
Content(k) == IF \E s \in Entries : keys[s] = k
              THEN values[CHOOSE s \in Entries : keys[s] = k] ELSE None

\* remove ends: it visits no slot twice while any slot is free.
RemoveBounded == ~Full => rounds <= Size

\* remove returns: "0 if removed, 1 if not found" (readme.md:181).
RemoveEnds == pc # "idle" ~> pc = "idle"
=============================================================================
