------------------------------- MODULE Array -------------------------------
(* array.h: a block of elements with its capacity and how many are in use.   *)
(* Nothing checks a capacity when an element is added: a program asks for    *)
(* room with new, resize or ensure, whose allocations may fail, and then     *)
(* adds as many elements as it asked for.                                    *)
EXTENDS Integers, FiniteSets

CONSTANTS
    Values,        \* elements
    Zero, Junk,    \* content of memory that is zeroed, and that is not
    MaxSize,       \* bound: no array is made larger
    ResizeToZero,  \* resize may be called with a size of zero
    SwapAny        \* remove_swap may be called for other elements than the last

ASSUME ArrayAssumption ==
    /\ Zero \notin Values /\ Junk \notin Values /\ Zero # Junk
    /\ MaxSize \in Nat
    /\ ResizeToZero \in BOOLEAN /\ SwapAny \in BOOLEAN

VARIABLES
    zeroed,   \* declared with sph_array_declare_type_zeroed
    block,    \* a.data: "null", "held" or "freed"
    cells,    \* the memory it points to
    size,     \* a.size
    used,     \* a.used
    ret,      \* what the last call of new, resize or ensure returned
    room,     \* how many elements the program may still add
    items     \* the elements the program counts on, in order

arrayVars == <<zeroed, block, cells, size, used, ret, room, items>>

Block(n) == 0..(n - 1)
Blank == IF zeroed THEN Zero ELSE Junk

ArrayInit ==
    /\ zeroed \in BOOLEAN
    /\ block = "null" /\ cells = [i \in Block(0) |-> Junk] /\ size = 0 /\ used = 0
    /\ ret = "ok" /\ room = 0 /\ items = [i \in Block(0) |-> Junk]

-----------------------------------------------------------------------------
(* Allocation                                                                *)

Fails == ret' = "error" /\ UNCHANGED <<block, cells, size, used, items>>

\* the memory of name##_new
Allocate(n) ==
    \/ Fails
    \/ /\ ret' = "ok"
       /\ block' = "held" /\ size' = n /\ used' = 0
       /\ cells' = [i \in Block(n) |-> Blank]
       /\ items' = [i \in Block(0) |-> Junk]

\* Mutant of Grown: what realloc adds is not zeroed.
GrownUnzeroed(n) == [i \in Block(n) |-> IF i < size THEN cells[i] ELSE Junk]
\* the memory after sph_array_default_realloc or _realloc_zero
Grown(n) == [i \in Block(n) |-> IF i < size THEN cells[i] ELSE Blank]

\* Mutant of Kept: resize does not cut used.
KeptAll(n) == used
Kept(n) == IF n < used THEN n ELSE used

\* name##_resize; realloc for no bytes frees the block and returns null, which
\* is taken for a failure
Reallocate(n) ==
    \/ n > 0 /\ Fails
    \/ /\ n > 0 /\ ret' = "ok"
       /\ cells' = Grown(n) /\ size' = n
       /\ used' = Kept(n)
       /\ items' = [i \in Block(IF n < used THEN n ELSE used) |-> items[i]]
       /\ UNCHANGED block
    \/ /\ n = 0 /\ ret' = "error" /\ block' = "freed"
       /\ UNCHANGED <<cells, size, used, items>>

New(n) ==
    /\ block = "null"
    /\ Allocate(n)
    /\ room' = IF ret' = "ok" THEN n ELSE room
    /\ UNCHANGED zeroed

Resize(n) ==
    /\ block = "held" /\ (n = 0 => ResizeToZero)
    /\ Reallocate(n)
    /\ room' = IF ret' = "ok" /\ n - used' < room THEN n - used' ELSE room
    /\ UNCHANGED zeroed

\* Mutant of Lacks: elements in use are not subtracted.
LacksSize(needed) == size < needed
Lacks(needed) == size - used < needed

Ensure(needed) ==
    /\ block # "freed"
    /\ IF block = "null" THEN Allocate(needed)
       ELSE IF Lacks(needed)
            THEN needed + 2 * size <= MaxSize /\ Reallocate(needed + 2 * size)
            ELSE ret' = "ok" /\ UNCHANGED <<block, cells, size, used, items>>
    /\ room' = IF ret' = "ok" /\ needed > room THEN needed ELSE room
    /\ UNCHANGED zeroed

-----------------------------------------------------------------------------
(* Elements.  A write outside of the block goes nowhere.                     *)

Add(v) ==
    /\ block = "held" /\ room > 0
    /\ cells' = [i \in DOMAIN cells |-> IF i = used THEN v ELSE cells[i]]
    /\ used' = used + 1 /\ room' = room - 1
    /\ items' = [i \in Block(used + 1) |-> IF i = used THEN v ELSE items[i]]
    /\ UNCHANGED <<zeroed, block, size, ret>>

Clear ==
    /\ used' = 0 /\ items' = [i \in Block(0) |-> Junk]
    /\ UNCHANGED <<zeroed, block, cells, size, ret, room>>

RemoveLast ==
    /\ used > 0 /\ block = "held"
    /\ used' = used - 1 /\ items' = [i \in Block(used - 1) |-> items[i]]
    /\ UNCHANGED <<zeroed, block, cells, size, ret, room>>

\* the element behind the last one is what is read, inside of the block or not
RemoveSwap(i) ==
    /\ i < used /\ block = "held" /\ (i + 1 = used \/ SwapAny)
    /\ cells' = IF i + 1 < used
                THEN [cells EXCEPT ![i] = IF used < size THEN cells[used] ELSE Junk]
                ELSE cells
    /\ used' = used - 1
    /\ items' = [j \in Block(used - 1) |-> IF j = i THEN items[used - 1] ELSE items[j]]
    /\ UNCHANGED <<zeroed, block, size, ret, room>>

\* the block is freed, or handed to another owner and back, which is what
\* sph_array_set_null and sph_array_take are for
Free ==
    /\ block = "held" /\ block' = "freed" /\ room' = 0
    /\ items' = [i \in Block(0) |-> Junk]
    /\ UNCHANGED <<zeroed, cells, size, used, ret>>

SetNull ==
    /\ block' = "null" /\ cells' = [i \in Block(0) |-> Junk]
    /\ size' = 0 /\ used' = 0 /\ room' = 0
    /\ items' = [i \in Block(0) |-> Junk]
    /\ UNCHANGED <<zeroed, ret>>

Take(n, m) ==
    /\ block = "null" /\ m <= n
    /\ \E content \in [Block(n) -> Values \cup {Blank}] :
         /\ cells' = content
         /\ \A i \in Block(m) : content[i] \in Values
         /\ items' = [i \in Block(m) |-> content[i]]
    /\ block' = "held" /\ size' = n /\ used' = m /\ room' = n - m
    /\ UNCHANGED <<zeroed, ret>>

ArrayNext ==
    \/ \E n \in 1..MaxSize : New(n)
    \/ \E n \in 0..MaxSize : Resize(n) \/ Ensure(n)
    \/ \E n \in 1..MaxSize, m \in 0..MaxSize : Take(n, m)
    \/ \E v \in Values : Add(v)
    \/ \E i \in Block(used) : RemoveSwap(i)
    \/ Clear \/ RemoveLast \/ Free \/ SetNull

ArraySpec == ArrayInit /\ [][ArrayNext]_arrayVars
-----------------------------------------------------------------------------
\* Types; the block has the size that the array says.
ArrayTypeOK ==
    /\ zeroed \in BOOLEAN
    /\ block \in {"null", "held", "freed"} /\ ret \in {"ok", "error"}
    /\ size \in Nat /\ used \in 0..size /\ room \in Nat
    /\ cells \in [Block(size) -> Values \cup {Zero, Junk}]

\* What new, resize and ensure returned success for is there: the additions
\* that follow, which check nothing (array.h:56), stay inside of the block,
\* whatever was added, removed, cleared, cut or refused before.
RoomPromised == block = "held" => used + room <= size

\* No element is lost or changed by growth, by growth that fails, by removal
\* or by a cut, and the array has them in the order they were added in.
ItemsKept ==
    /\ DOMAIN items # {} => block = "held"
    /\ block = "held" =>
         /\ DOMAIN items = Block(used)
         /\ \A i \in Block(used) : cells[i] = items[i]

\* The memory of a zeroed array never has other content than zeros and what
\* was stored, however often it was cut and grown (array.h:92).
ZeroedStaysClean ==
    block = "held" /\ zeroed => \A i \in DOMAIN cells : cells[i] # Junk
=============================================================================
