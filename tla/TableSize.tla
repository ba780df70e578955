------------------------------ MODULE TableSize ----------------------------
(* hashtable.h and set.h: how large a table is made for a number of entries, *)
(* what new does where an allocation fails, and the bitmap of a set.  What   *)
(* bitwise operators work on is the set of the bits of a number.             *)
EXTENDS Integers, Sequences

CONSTANTS
    Bits,        \* the width of size_t
    Shifts,      \* 1, 2, 4 and so on, of calculate_size
    SizeFactor   \* size_factor of the declaration

ASSUME TableSizeAssumption ==
    /\ Bits \in Nat /\ SizeFactor \in Nat \ {0}
    /\ Shifts \in Seq(Nat) /\ Len(Shifts) > 0
    /\ Shifts[1] = 1 /\ 2 * Shifts[Len(Shifts)] = Bits
    /\ \A k \in 1..(Len(Shifts) - 1) : Shifts[k + 1] = 2 * Shifts[k]

VARIABLES
    layout,        \* "table", or "set" with its bitmap
    asked,         \* the number of entries new was called with
    outcome,       \* "none", "made" or "failed" by new, "freed"
    slots, mask,   \* of the table
    held           \* the blocks that are allocated

tableSizeVars == <<layout, asked, outcome, slots, mask, held>>

PowerOfTwo[k \in 0..Bits] == IF k = 0 THEN 1 ELSE 2 * PowerOfTwo[k - 1]
Wrapped(n) == n % PowerOfTwo[Bits]

BitsOf(n) == {b \in 0..(Bits - 1) : (n \div PowerOfTwo[b]) % 2 = 1}
NumberOf(bits) ==
    LET below[k \in 0..Bits] ==
          IF k = 0 THEN 0
          ELSE below[k - 1] + IF k - 1 \in bits THEN PowerOfTwo[k - 1] ELSE 0
    IN below[Bits]

\* n | (n >> s) for each s of Shifts
ShiftedRight(bits, s) == {b - s : b \in {c \in bits : c >= s}}
Smeared(bits) ==
    LET after[k \in 0..Len(Shifts)] ==
          IF k = 0 THEN bits
          ELSE after[k - 1] \cup ShiftedRight(after[k - 1], Shifts[k])
    IN after[Len(Shifts)]

\* Mutant of CalculateSize: the number is not decremented first.
CalculateSizeAbove(n) == Wrapped(1 + NumberOf(Smeared(BitsOf(Wrapped(SizeFactor * n)))))
CalculateSize(n) ==
    LET wanted == Wrapped(SizeFactor * n)
    IN Wrapped(1 + NumberOf(Smeared(BitsOf((IF wanted < 2 THEN 2 ELSE wanted) - 1))))

-----------------------------------------------------------------------------
(* name##_new and name##_free                                                *)

\* the allocations in order, and for each one what is freed where it fails
Blocks(l) == IF l = "table" THEN <<"flags", "keys", "values">> ELSE <<"values", "occupied">>
Releases(l) ==
    IF l = "table" THEN <<{}, {"flags"}, {"flags", "keys"}>> ELSE <<{}, {"values"}>>

TableSizeInit ==
    /\ layout \in {"table", "set"} /\ asked = 0 /\ outcome = "none"
    /\ slots = 0 /\ mask = 0 /\ held = {}

NewTable ==
    /\ outcome = "none"
    /\ \E n \in 0..(PowerOfTwo[Bits] - 1) :
         /\ asked' = n /\ slots' = CalculateSize(n) /\ mask' = Wrapped(CalculateSize(n) - 1)
    /\ outcome' = "made" /\ held' = {Blocks(layout)[i] : i \in DOMAIN Blocks(layout)}
    /\ UNCHANGED layout

\* the allocation with number i returns null
NewTableFails ==
    /\ outcome = "none"
    /\ \E n \in 0..(PowerOfTwo[Bits] - 1) : asked' = n
    /\ \E i \in DOMAIN Blocks(layout) :
         held' = {Blocks(layout)[j] : j \in 1..(i - 1)} \ Releases(layout)[i]
    /\ outcome' = "failed"
    /\ UNCHANGED <<layout, slots, mask>>

FreeTable ==
    /\ outcome = "made"
    /\ held' = held \ (IF layout = "table" THEN {"values", "keys", "flags"}
                       ELSE {"occupied", "values"})
    /\ outcome' = "freed"
    /\ UNCHANGED <<layout, asked, slots, mask>>

TableSizeNext == NewTable \/ NewTableFails \/ FreeTable

TableSizeSpec == TableSizeInit /\ [][TableSizeNext]_tableSizeVars

-----------------------------------------------------------------------------
(* The bitmap of a set, bytes with the numbers from 0 on                     *)

Bytes(n) == 0..(((n + 7) \div 8) - 1)
OccupiedGet(bitmap, i) == i % 8 \in bitmap[i \div 8]
OccupiedSet(bitmap, i) == [bitmap EXCEPT ![i \div 8] = @ \cup {i % 8}]
OccupiedClear(bitmap, i) == [bitmap EXCEPT ![i \div 8] = @ \ {i % 8}]

-----------------------------------------------------------------------------
\* A new table has as many slots as were asked for and fewer than twice as many
\* (readme.md:416), and the mask of its loops keeps the numbers of all slots and
\* turns the one behind the last into the first.  Only requests whose rounded
\* size a word can hold: others wrap, to the size 0 or to too few slots
\* (hashtable.h:26-39, set.h:58-71).
SizeFits ==
    LET wanted == IF SizeFactor * asked < 2 THEN 2 ELSE SizeFactor * asked IN
    wanted <= PowerOfTwo[Bits - 1] =>
      /\ wanted <= slots /\ slots < 2 * wanted
      /\ \A i \in 0..(slots - 1) : BitsOf(i) \subseteq BitsOf(mask)
      /\ BitsOf(slots) \cap BitsOf(mask) = {}

\* each slot has a bit of its own, inside of what was allocated and cleared
SlotsHaveBits ==
    \A i \in 0..(slots - 1) :
      LET none == OccupiedSet([b \in Bytes(slots) |-> {}], i)
          all == OccupiedClear([b \in Bytes(slots) |-> 0..7], i)
      IN /\ i \div 8 \in Bytes(slots)
         /\ \A j \in 0..(slots - 1) :
              (OccupiedGet(none, j) <=> i = j) /\ (OccupiedGet(all, j) <=> i # j)

\* new returns 1 and keeps no block, whichever allocation fails, or it returns
\* a table with every block and, in a set, a bit for every slot, which SizeFits
\* says the size of; free frees every block (hashtable.h:40-72, set.h:78-100).
TablesReady ==
    IF outcome # "made" THEN held = {}
    ELSE /\ held = {Blocks(layout)[i] : i \in DOMAIN Blocks(layout)}
         /\ SizeFits /\ (layout = "set" => SlotsHaveBits)
=============================================================================
