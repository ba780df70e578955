------------------------------- MODULE Memory ------------------------------
(* memory.c and memreg.h: a register of addresses, each with the handler     *)
(* that frees it.  The register of memory.c is an array that grows; the one  *)
(* of memreg.h is a local array of fixed size, released from the back.       *)
EXTENDS Integers, Sequences, SequencesExt

CONSTANTS
    Addresses,   \* what the allocator may return
    Capacity     \* of the registers of memreg.h

ASSUME MemoryAssumption == Capacity \in Nat

VARIABLES
    register,   \* "memory" or "memreg"
    data,       \* a.data of the growing register is set
    capacity,   \* a.size
    entries,    \* the addresses up to a.used or memreg_index
    owner,      \* of each address: "allocator", "program" or "register"
    misuse      \* a handler was called with an address that was not registered

memoryVars == <<register, data, capacity, entries, owner, misuse>>

\* sph_memory_init sets data only, the rest is what was on the stack;
\* memreg_init sets the index
MemoryInit ==
    /\ register \in {"memory", "memreg"}
    /\ IF register = "memory"
       THEN /\ data = FALSE /\ capacity \in {0, Capacity}
            /\ entries \in {<<>>} \cup {<<a>> : a \in Addresses}
       ELSE data = TRUE /\ capacity = Capacity /\ entries = <<>>
    /\ owner = [a \in Addresses |-> "allocator"]
    /\ misuse = FALSE

\* sph_memory_malloc, _calloc and _malloc_string; a failure changes nothing
Malloc(a) ==
    /\ owner[a] = "allocator"
    /\ owner' = [owner EXCEPT ![a] = "program"]
    /\ UNCHANGED <<register, data, capacity, entries, misuse>>

\* sph_memory_realloc, which may move the memory, of an address that is not
\* registered
Realloc(a, b) ==
    /\ owner[a] = "program" /\ owner[b] = "allocator"
    /\ owner' = [owner EXCEPT ![a] = "allocator", ![b] = "program"]
    /\ UNCHANGED <<register, data, capacity, entries, misuse>>

Register(a, held) ==
    /\ entries' = Append(held, a)
    /\ owner' = [owner EXCEPT ![a] = "register"]

\* ensure(4): new for a null register, growth where fewer than four are free
NeedsBlock == ~data \/ capacity - Len(entries) < 4
Grow == capacity' = CASE ~data -> 4
                      [] data /\ NeedsBlock -> 4 + 2 * capacity
                      [] OTHER -> capacity

\* sph_memory_add_with_handler; where the allocation fails the address stays
\* with the program
AddWithHandler(a) ==
    /\ register = "memory" /\ owner[a] = "program"
    /\ \/ /\ NeedsBlock
          /\ UNCHANGED <<data, capacity, entries, owner>>
       \/ /\ Register(a, IF data THEN entries ELSE <<>>) /\ data' = TRUE
          /\ Grow
    /\ UNCHANGED <<register, misuse>>

\* memreg_add and the variants with names and handlers: nothing is checked,
\* the program adds no more than it made room for
MemregAdd(a) ==
    /\ register = "memreg" /\ owner[a] = "program" /\ Len(entries) < capacity
    /\ Register(a, entries)
    /\ UNCHANGED <<register, data, capacity, misuse>>

\* Mutant of Forget: sph_memory_destroy keeps the pointer to the entries.
ForgetNothing == UNCHANGED <<data, entries>>
\* a.data = 0, a.used stays as it is; memreg_index is counted down to zero
Forget == IF register = "memory" THEN data' = FALSE /\ UNCHANGED entries
          ELSE entries' = <<>> /\ UNCHANGED data

\* sph_memory_destroy and memreg_free: each handler is called once
Destroy ==
    /\ data
    /\ owner' = [a \in Addresses |->
                   IF a \in ToSet(entries) THEN "allocator" ELSE owner[a]]
    /\ misuse' = (misuse \/ ~IsInjective(entries)
                    \/ \E a \in ToSet(entries) : owner[a] # "register")
    /\ Forget
    /\ UNCHANGED <<register, capacity>>

\* a program that frees what it did not register
FreeOwn(a) ==
    /\ owner[a] = "program"
    /\ owner' = [owner EXCEPT ![a] = "allocator"]
    /\ UNCHANGED <<register, data, capacity, entries, misuse>>

MemoryNext ==
    \/ \E a \in Addresses :
         Malloc(a) \/ AddWithHandler(a) \/ MemregAdd(a) \/ FreeOwn(a)
    \/ \E a, b \in Addresses : Realloc(a, b)
    \/ Destroy

MemorySpec == MemoryInit /\ [][MemoryNext]_memoryVars

-----------------------------------------------------------------------------
\* the addresses that the next destroy frees
Registered == IF data THEN ToSet(entries) ELSE {}

\* Every address that was registered is in the register, once, until its
\* handler is called: none is forgotten when the register grows or fails to,
\* none is freed twice, none that was left over from before is freed, and the
\* block of the register has room for all of them, however often the register
\* is used and destroyed (memory.c:70-90).
HandledOnce ==
    /\ ~misuse
    /\ \A a \in Addresses : owner[a] = "register" <=> a \in Registered
    /\ data => IsInjective(entries) /\ Len(entries) <= capacity
=============================================================================
