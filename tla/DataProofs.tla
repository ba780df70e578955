----------------------------- MODULE DataProofs -----------------------------
(* Theorems about Array, Memory, List and Quicksort: additions never leave *)
(* the block, zeroed memory stays clean and no element is lost; every      *)
(* registered address is handled once; no node is lost or in two lists, a  *)
(* doubly linked list reads the same both ways, and validate finds every   *)
(* broken link; quicksort sorts.                                           *)
EXTENDS Array, Memory, List, Quicksort, WellFoundedInduction, FiniteSetTheorems,
        SequenceTheorems, TLAPS

-----------------------------------------------------------------------------
(* Facts about numbers                                                     *)

\* A set of natural numbers has a least one.
LEMMA LeastNumber ==
    ASSUME NEW S, S \subseteq Nat, S # {}
    PROVE  \E m \in S : \A n \in S : m <= n
<1> DEFINE Less == {p \in Nat \X Nat : p[1] < p[2]}
<1>1. IsWellFoundedOn(Less, Nat)
  BY NatLessThanWellFounded DEF OpToRel
<1>2. PICK m \in S : \A n \in S : <<n, m>> \notin Less
  BY <1>1, WFMin
<1>3. ASSUME NEW n \in S PROVE m <= n
  <2>1. <<n, m>> \in Nat \X Nat /\ <<n, m>>[1] = n /\ <<n, m>>[2] = m
    OBVIOUS
  <2>2. ~(n < m)
    BY <1>2, <2>1
  <2> QED
    BY <2>2
<1> QED
  BY <1>3

-----------------------------------------------------------------------------
(* Array                                                                   *)

\* Room is only promised by calls that succeeded, and those leave a block.
RoomNeedsBlock == block = "null" => room = 0

\* What is inductive: the bound of used, which additions rely on, needs what
\* was promised.
RoomInv == ArrayTypeOK /\ RoomPromised /\ RoomNeedsBlock

LEMMA BlankContent == Blank \in Values \cup {Zero, Junk}
BY DEF Blank

\* An allocation that new or ensure makes for a null array.
LEMMA AllocateKeeps ==
    ASSUME NEW n \in Nat, RoomInv, block = "null", Allocate(n), UNCHANGED zeroed,
           room' = (IF ret' = "ok" /\ n > room THEN n ELSE room)
    PROVE  RoomInv'
<1>1. CASE Fails
  BY <1>1 DEF Fails, RoomInv, ArrayTypeOK, RoomPromised, RoomNeedsBlock, Block
<1>2. CASE /\ ret' = "ok" /\ block' = "held" /\ size' = n /\ used' = 0
           /\ cells' = [i \in Block(n) |-> Blank]
  <2>1. room = 0 /\ room' = n
    BY <1>2 DEF RoomInv, RoomNeedsBlock
  <2>2. cells' \in [Block(size') -> Values \cup {Zero, Junk}]
    BY <1>2, BlankContent
  <2> QED
    BY <1>2, <2>1, <2>2 DEF RoomInv, ArrayTypeOK, RoomPromised, RoomNeedsBlock
<1> QED
  BY <1>1, <1>2 DEF Allocate

LEMMA GrownContent ==
    ASSUME NEW n \in Nat, ArrayTypeOK
    PROVE  Grown(n) \in [Block(n) -> Values \cup {Zero, Junk}]
<1>1. \A i \in Block(n) : i < size => cells[i] \in Values \cup {Zero, Junk}
  BY DEF ArrayTypeOK, Block
<1> QED
  BY <1>1, BlankContent DEF Grown

\* Growth and cuts: if the new size leaves room for what is promised after the
\* call, whatever realloc does, the invariant holds.
LEMMA ReallocateKeeps ==
    ASSUME NEW n \in Nat, RoomInv, block = "held", Reallocate(n), UNCHANGED zeroed,
           room' \in Nat,
           ret' = "ok" => used' + room' <= n,
           ret' = "error" => room' = room
    PROVE  RoomInv'
<1>1. CASE Fails
  BY <1>1 DEF Fails, RoomInv, ArrayTypeOK, RoomPromised, RoomNeedsBlock, Block
<1>2. CASE /\ n > 0 /\ ret' = "ok" /\ cells' = Grown(n) /\ size' = n
           /\ used' = Kept(n) /\ UNCHANGED block
  <2>1. used' \in 0..n
    BY <1>2 DEF Kept, RoomInv, ArrayTypeOK
  <2>2. cells' \in [Block(size') -> Values \cup {Zero, Junk}]
    BY <1>2, GrownContent DEF RoomInv
  <2> QED
    BY <1>2, <2>1, <2>2 DEF RoomInv, ArrayTypeOK, RoomPromised, RoomNeedsBlock
<1>3. CASE /\ ret' = "error" /\ block' = "freed"
           /\ UNCHANGED <<cells, size, used>>
  BY <1>3 DEF RoomInv, ArrayTypeOK, RoomPromised, RoomNeedsBlock, Block
<1> QED
  BY <1>1, <1>2, <1>3 DEF Reallocate

LEMMA EnsureKeeps ==
    ASSUME RoomInv, NEW n \in Nat, Ensure(n)
    PROVE  RoomInv'
<1>0. size \in Nat /\ used \in 0..size /\ room \in Nat
  BY DEF RoomInv, ArrayTypeOK
<1>1. CASE block = "null"
  BY <1>1, AllocateKeeps DEF Ensure
<1>2. CASE block # "null" /\ Lacks(n)
  <2>1. block = "held" /\ Reallocate(n + 2 * size)
    BY <1>2 DEF Ensure, RoomInv, ArrayTypeOK
  <2>2. n + 2 * size \in Nat /\ room' \in Nat /\ used + room <= size
    BY <1>0, <2>1 DEF Ensure, RoomInv, RoomPromised
  <2>3. ret' = "ok" => used' = used
    BY <1>0, <2>1 DEF Reallocate, Fails, Kept
  <2>4. ret' = "ok" => used' + room' <= n + 2 * size
    BY <1>0, <2>2, <2>3 DEF Ensure
  <2>5. ret' = "error" => room' = room
    BY DEF Ensure
  <2> QED
    BY <2>1, <2>2, <2>4, <2>5, ReallocateKeeps DEF Ensure
<1>3. CASE block # "null" /\ ~Lacks(n)
  <2>1. /\ block = "held" /\ UNCHANGED <<zeroed, block, cells, size, used>>
        /\ ret' = "ok"
    BY <1>3 DEF Ensure, RoomInv, ArrayTypeOK
  <2>2. room' \in Nat /\ used + room' <= size
    BY <1>0, <1>3, <2>1 DEF Ensure, Lacks, RoomInv, RoomPromised
  <2> QED
    BY <2>1, <2>2 DEF RoomInv, ArrayTypeOK, RoomPromised, RoomNeedsBlock, Block
<1> QED
  BY <1>1, <1>2, <1>3

\* What is free in n elements of which u are in use, at most more.
LEMMA RestFits ==
    ASSUME NEW n \in Nat, NEW more \in Nat, NEW u \in Nat, u <= n
    PROVE  LET rest == IF n - u < more THEN n - u ELSE more
           IN rest \in Nat /\ u + rest <= n
OBVIOUS

LEMMA ResizeKeeps ==
    ASSUME RoomInv, NEW n \in Nat, Resize(n)
    PROVE  RoomInv'
<1>0. size \in Nat /\ used \in 0..size /\ room \in Nat
  BY DEF RoomInv, ArrayTypeOK
<1>1. block = "held" /\ Reallocate(n)
  BY DEF Resize
<1>2. used' \in Nat /\ (ret' = "ok" => used' <= n)
  BY <1>0, <1>1 DEF Reallocate, Fails, Kept
<1>3. room' \in Nat /\ (ret' = "ok" => used' + room' <= n)
  <2>1. CASE ret' # "ok"
    BY <1>0, <2>1 DEF Resize
  <2>2. CASE ret' = "ok"
    <3>1. used' \in Nat /\ used' <= n
      BY <1>2, <2>2
    <3>2. room' = IF n - used' < room THEN n - used' ELSE room
      BY <2>2 DEF Resize
    <3>3. room' \in Nat /\ used' + room' <= n
      BY <1>0, <3>1, <3>2, RestFits
    <3> QED
      BY <3>3
  <2> QED
    BY <2>1, <2>2
<1>4. ret' = "error" => room' = room
  BY DEF Resize
<1> QED
  BY <1>1, <1>3, <1>4, ReallocateKeeps DEF Resize

LEMMA ElementsKeep ==
    ASSUME RoomInv,
           \/ \E v \in Values : Add(v)
           \/ \E i \in Block(used) : RemoveSwap(i)
           \/ Clear \/ RemoveLast
    PROVE  RoomInv'
<1>0. size \in Nat /\ used \in 0..size /\ room \in Nat
  BY DEF RoomInv, ArrayTypeOK
<1>1. ASSUME NEW v \in Values, Add(v) PROVE RoomInv'
  <2>1. used + room <= size /\ room > 0
    BY <1>1 DEF Add, RoomInv, RoomPromised
  <2>2. cells' \in [Block(size) -> Values \cup {Zero, Junk}]
    BY <1>1 DEF Add, RoomInv, ArrayTypeOK
  <2> QED
    BY <1>0, <1>1, <2>1, <2>2
    DEF Add, RoomInv, ArrayTypeOK, RoomPromised, RoomNeedsBlock
<1>2. ASSUME NEW i \in Block(used), RemoveSwap(i) PROVE RoomInv'
  <2>1. used > 0 /\ used - 1 \in 0..size
    BY <1>0, <1>2 DEF RemoveSwap, Block
  <2>2. cells' \in [Block(size) -> Values \cup {Zero, Junk}]
    <3>1. used < size => cells[used] \in Values \cup {Zero, Junk}
      BY <1>0 DEF RoomInv, ArrayTypeOK, Block
    <3> QED
      BY <1>2, <3>1 DEF RemoveSwap, RoomInv, ArrayTypeOK
  <2> QED
    BY <1>0, <1>2, <2>1, <2>2
    DEF RemoveSwap, RoomInv, ArrayTypeOK, RoomPromised, RoomNeedsBlock
<1>3. CASE Clear
  BY <1>0, <1>3 DEF Clear, RoomInv, ArrayTypeOK, RoomPromised, RoomNeedsBlock, Block
<1>4. CASE RemoveLast
  BY <1>0, <1>4 DEF RemoveLast, RoomInv, ArrayTypeOK, RoomPromised, RoomNeedsBlock, Block
<1> QED
  BY <1>1, <1>2, <1>3, <1>4

LEMMA OwnersKeep ==
    ASSUME RoomInv,
           \/ Free \/ SetNull
           \/ \E n \in 1..MaxSize, m \in 0..MaxSize : Take(n, m)
    PROVE  RoomInv'
<1>1. CASE Free
  BY <1>1 DEF Free, RoomInv, ArrayTypeOK, RoomPromised, RoomNeedsBlock, Block
<1>2. CASE SetNull
  BY <1>2 DEF SetNull, RoomInv, ArrayTypeOK, RoomPromised, RoomNeedsBlock, Block
<1>3. ASSUME NEW n \in 1..MaxSize, NEW m \in 0..MaxSize, Take(n, m) PROVE RoomInv'
  <2>1. n \in Nat /\ m \in 0..n /\ n - m \in Nat
    BY <1>3, ArrayAssumption DEF Take
  <2>2. cells' \in [Block(n) -> Values \cup {Zero, Junk}]
    BY <1>3, BlankContent DEF Take
  <2> QED
    BY <1>3, <2>1, <2>2
    DEF Take, RoomInv, ArrayTypeOK, RoomPromised, RoomNeedsBlock
<1> QED
  BY <1>1, <1>2, <1>3

LEMMA RoomInvInitial == ArrayInit => RoomInv
BY DEF ArrayInit, RoomInv, ArrayTypeOK, RoomPromised, RoomNeedsBlock, Block

LEMMA RoomInvStep == RoomInv /\ [ArrayNext]_arrayVars => RoomInv'
<1> SUFFICES ASSUME RoomInv, [ArrayNext]_arrayVars PROVE RoomInv'
  OBVIOUS
<1>1. ASSUME NEW n \in 1..MaxSize, New(n) PROVE RoomInv'
  <2>1. n \in Nat /\ n > 0
    BY ArrayAssumption
  <2>2. room = 0
    BY <1>1 DEF New, RoomInv, RoomNeedsBlock
  <2>3. room' = IF ret' = "ok" /\ n > room THEN n ELSE room
    BY <1>1, <2>1, <2>2 DEF New
  <2> QED
    BY <1>1, <2>1, <2>3, AllocateKeeps DEF New
<1>2. ASSUME NEW n \in 0..MaxSize, Resize(n) PROVE RoomInv'
  BY <1>2, ResizeKeeps, ArrayAssumption
<1>3. ASSUME NEW n \in 0..MaxSize, Ensure(n) PROVE RoomInv'
  BY <1>3, EnsureKeeps, ArrayAssumption
<1>4. CASE UNCHANGED arrayVars
  BY <1>4 DEF arrayVars, RoomInv, ArrayTypeOK, RoomPromised, RoomNeedsBlock, Block
<1> QED
  BY <1>1, <1>2, <1>3, <1>4, ElementsKeep, OwnersKeep DEF ArrayNext

LEMMA RoomInvAlways == ArraySpec => []RoomInv
BY RoomInvInitial, RoomInvStep, PTL DEF ArraySpec

\* The types of an array, and that used never exceeds size (array.h:16-21).
THEOREM ArrayTyped == ArraySpec => []ArrayTypeOK
<1>1. RoomInv => ArrayTypeOK
  BY DEF RoomInv
<1> QED
  BY <1>1, RoomInvAlways, PTL

\* As many additions as new, resize or ensure promised room for stay inside of
\* the block, although none checks it (array.h:56), whatever is done in
\* between and whichever allocations fail, remove_swap and resize to zero
\* included.
THEOREM AdditionsStayInside == ArraySpec => []RoomPromised
<1>1. RoomInv => RoomPromised
  BY DEF RoomInv
<1> QED
  BY <1>1, RoomInvAlways, PTL

-----------------------------------------------------------------------------
(* What follows is about programs that remove with remove_swap only the last *)
(* element: it copies what is behind the last one otherwise.                 *)

CleanInv == RoomInv /\ ZeroedStaysClean

LEMMA CleanContent ==
    ASSUME zeroed
    PROVE  Blank # Junk
BY ArrayAssumption DEF Blank

LEMMA GrownClean ==
    ASSUME NEW n \in Nat, CleanInv, zeroed, block = "held"
    PROVE  \A i \in Block(n) : Grown(n)[i] # Junk
<1>1. \A i \in Block(n) : i < size => i \in DOMAIN cells
  BY DEF CleanInv, RoomInv, ArrayTypeOK, Block
<1> QED
  BY <1>1, CleanContent DEF CleanInv, ZeroedStaysClean, Grown

LEMMA ReallocateClean ==
    ASSUME NEW n \in Nat, CleanInv, block = "held", Reallocate(n), UNCHANGED zeroed
    PROVE  ZeroedStaysClean'
BY GrownClean DEF Reallocate, Fails, Grown, CleanInv, ZeroedStaysClean

LEMMA AllocateClean ==
    ASSUME NEW n \in Nat, CleanInv, Allocate(n), UNCHANGED zeroed
    PROVE  ZeroedStaysClean'
BY CleanContent DEF Allocate, Fails, CleanInv, ZeroedStaysClean, Blank

LEMMA CleanStep ==
    ASSUME ~SwapAny, CleanInv, [ArrayNext]_arrayVars
    PROVE  ZeroedStaysClean'
<1>0. size \in Nat /\ used \in 0..size
  BY DEF CleanInv, RoomInv, ArrayTypeOK
<1>1. ASSUME NEW n \in 1..MaxSize, New(n) PROVE ZeroedStaysClean'
  BY <1>1, AllocateClean, ArrayAssumption DEF New
<1>2. ASSUME NEW n \in 0..MaxSize, Resize(n) PROVE ZeroedStaysClean'
  BY <1>2, ReallocateClean, ArrayAssumption DEF Resize
<1>3. ASSUME NEW n \in 0..MaxSize, Ensure(n) PROVE ZeroedStaysClean'
  <2>1. n \in Nat /\ n + 2 * size \in Nat
    BY <1>0, ArrayAssumption
  <2>2. CASE block = "null"
    BY <1>3, <2>1, <2>2, AllocateClean DEF Ensure
  <2>3. CASE block # "null"
    <3>1. block = "held"
      BY <1>3, <2>3 DEF Ensure, CleanInv, RoomInv, ArrayTypeOK
    <3> QED
      BY <1>3, <2>1, <3>1, ReallocateClean DEF Ensure, CleanInv, ZeroedStaysClean
  <2> QED
    BY <2>2, <2>3
<1>4. ASSUME NEW n \in 1..MaxSize, NEW m \in 0..MaxSize, Take(n, m)
      PROVE  ZeroedStaysClean'
  BY <1>4, CleanContent, ArrayAssumption DEF Take, ZeroedStaysClean, Blank
<1>5. ASSUME NEW v \in Values, Add(v) PROVE ZeroedStaysClean'
  BY <1>5, ArrayAssumption DEF Add, CleanInv, ZeroedStaysClean
<1>6. ASSUME NEW i \in Block(used), RemoveSwap(i) PROVE ZeroedStaysClean'
  <2>1. UNCHANGED <<zeroed, block, cells>>
    BY <1>0, <1>6 DEF RemoveSwap, Block
  <2> QED
    BY <2>1 DEF CleanInv, ZeroedStaysClean
<1>7. CASE Clear \/ RemoveLast \/ Free \/ SetNull \/ UNCHANGED arrayVars
  BY <1>7 DEF Clear, RemoveLast, Free, SetNull, arrayVars, CleanInv, ZeroedStaysClean
<1> QED
  BY <1>1, <1>2, <1>3, <1>4, <1>5, <1>6, <1>7 DEF ArrayNext

\* The memory of a zeroed array holds zeros and what was stored, however often
\* it is cut and grown (array.h:87-96), if remove_swap is kept to the last
\* element.
THEOREM ZeroedMemoryClean ==
    ASSUME ~SwapAny
    PROVE  ArraySpec => []ZeroedStaysClean
<1>1. ArrayInit => CleanInv
  BY RoomInvInitial DEF ArrayInit, CleanInv, ZeroedStaysClean
<1>2. CleanInv /\ [ArrayNext]_arrayVars => CleanInv'
  BY CleanStep, RoomInvStep DEF CleanInv
<1>3. CleanInv => ZeroedStaysClean
  BY DEF CleanInv
<1> QED
  BY <1>1, <1>2, <1>3, PTL DEF ArraySpec

-----------------------------------------------------------------------------
KeptInv == RoomInv /\ ItemsKept

LEMMA ReallocateKeepsItems ==
    ASSUME NEW n \in Nat, n > 0, KeptInv, block = "held", Reallocate(n)
    PROVE  ItemsKept'
<1>0. size \in Nat /\ used \in 0..size /\ DOMAIN items = Block(used)
  BY DEF KeptInv, RoomInv, ArrayTypeOK, ItemsKept
<1>1. CASE Fails
  BY <1>1 DEF Fails, KeptInv, ItemsKept, Block
<1>2. CASE /\ cells' = Grown(n) /\ used' = Kept(n)
           /\ items' = [i \in Block(IF n < used THEN n ELSE used) |-> items[i]]
           /\ UNCHANGED block
  <2>1. DOMAIN items' = Block(used')
    BY <1>2 DEF Kept
  <2>2. ASSUME NEW i \in Block(used') PROVE cells'[i] = items'[i]
    <3>1. i \in Block(used) /\ i \in Block(n) /\ i < size
      BY <1>0, <1>2 DEF Kept, Block
    <3> QED
      BY <1>2, <2>1, <3>1 DEF Grown, KeptInv, ItemsKept
  <2> QED
    BY <1>2, <2>1, <2>2 DEF ItemsKept
<1> QED
  BY <1>1, <1>2 DEF Reallocate

LEMMA AllocateKeepsItems ==
    ASSUME NEW n \in Nat, KeptInv, block = "null", Allocate(n)
    PROVE  ItemsKept'
<1>1. Block(0) = {}
  BY DEF Block
<1> QED
  BY <1>1 DEF Allocate, Fails, KeptInv, ItemsKept, Block

LEMMA KeptStep ==
    ASSUME ~SwapAny, ~ResizeToZero, KeptInv, [ArrayNext]_arrayVars
    PROVE  ItemsKept'
<1>0. /\ size \in Nat /\ used \in 0..size
      /\ block = "held" => used + room <= size /\ DOMAIN items = Block(used)
      /\ room \in Nat /\ Block(0) = {}
  BY DEF KeptInv, RoomInv, ArrayTypeOK, RoomPromised, ItemsKept, Block
<1>1. ASSUME NEW n \in 1..MaxSize, New(n) PROVE ItemsKept'
  BY <1>1, AllocateKeepsItems, ArrayAssumption DEF New
<1>2. ASSUME NEW n \in 0..MaxSize, Resize(n) PROVE ItemsKept'
  <2>1. n \in Nat /\ n > 0
    BY <1>2, ArrayAssumption DEF Resize
  <2> QED
    BY <1>2, <2>1, ReallocateKeepsItems DEF Resize
<1>3. ASSUME NEW n \in 0..MaxSize, Ensure(n) PROVE ItemsKept'
  <2>1. CASE block = "null"
    BY <1>3, <2>1, AllocateKeepsItems, ArrayAssumption DEF Ensure
  <2>2. CASE block = "held" /\ Lacks(n)
    <3>1. n \in Nat /\ n + 2 * size \in Nat /\ n + 2 * size > 0
      BY <1>0, <2>2, ArrayAssumption DEF Lacks
    <3> QED
      BY <1>3, <2>2, <3>1, ReallocateKeepsItems DEF Ensure
  <2>3. CASE block = "held" /\ ~Lacks(n)
    BY <1>3, <2>3 DEF Ensure, KeptInv, ItemsKept, Block
  <2> QED
    BY <1>3, <2>1, <2>2, <2>3 DEF Ensure, KeptInv, RoomInv, ArrayTypeOK
<1>4. ASSUME NEW n \in 1..MaxSize, NEW m \in 0..MaxSize, Take(n, m)
      PROVE  ItemsKept'
  <2>1. \A i \in Block(m) : i \in Block(n)
    BY <1>4, ArrayAssumption DEF Take, Block
  <2> QED
    BY <1>4, <2>1 DEF Take, ItemsKept
<1>5. ASSUME NEW v \in Values, Add(v) PROVE ItemsKept'
  <2>1. used + 1 <= size
    BY <1>0, <1>5 DEF Add
  <2>2. \A i \in Block(used + 1) : i \in Block(size) /\ (i # used => i \in Block(used))
    BY <1>0, <2>1 DEF Block
  <2>3. DOMAIN cells = Block(size)
    BY DEF KeptInv, RoomInv, ArrayTypeOK
  <2> QED
    BY <1>0, <1>5, <2>2, <2>3 DEF Add, KeptInv, ItemsKept
<1>6. ASSUME NEW i \in Block(used), RemoveSwap(i) PROVE ItemsKept'
  <2>1. i + 1 = used /\ block = "held" /\ UNCHANGED <<block, cells>>
    BY <1>0, <1>6 DEF RemoveSwap, Block
  <2>2. \A j \in Block(used - 1) : j \in Block(used) /\ j # i
    BY <1>0, <2>1 DEF Block
  <2> QED
    BY <1>0, <1>6, <2>1, <2>2 DEF RemoveSwap, KeptInv, ItemsKept
<1>7. CASE RemoveLast
  <2>1. \A j \in Block(used - 1) : j \in Block(used)
    BY <1>0, <1>7 DEF RemoveLast, Block
  <2> QED
    BY <1>0, <1>7, <2>1 DEF RemoveLast, KeptInv, ItemsKept
<1>8. CASE Clear \/ Free \/ SetNull
  BY <1>0, <1>8 DEF Clear, Free, SetNull, KeptInv, ItemsKept
<1>9. CASE UNCHANGED arrayVars
  BY <1>9 DEF arrayVars, KeptInv, ItemsKept, Block
<1> QED
  BY <1>1, <1>2, <1>3, <1>4, <1>5, <1>6, <1>7, <1>8, <1>9 DEF ArrayNext

\* No element is lost, changed or moved by growth, by growth that fails, by
\* cuts and by removal of the last element (array.h:36-71), if resize is not
\* called with zero.
THEOREM NoElementLost ==
    ASSUME ~SwapAny, ~ResizeToZero
    PROVE  ArraySpec => []ItemsKept
<1>1. ArrayInit => KeptInv
  BY RoomInvInitial DEF ArrayInit, KeptInv, ItemsKept, Block
<1>2. KeptInv /\ [ArrayNext]_arrayVars => KeptInv'
  BY KeptStep, RoomInvStep DEF KeptInv
<1>3. KeptInv => ItemsKept
  BY DEF KeptInv
<1> QED
  BY <1>1, <1>2, <1>3, PTL DEF ArraySpec

-----------------------------------------------------------------------------
(* Memory                                                                  *)

MemoryTypeOK ==
    /\ register \in {"memory", "memreg"}
    /\ data \in BOOLEAN
    /\ capacity \in Nat
    /\ entries \in Seq(Addresses)
    /\ owner \in [Addresses -> {"allocator", "program", "register"}]

\* What is inductive: the register of memreg.h is there from the start.
MemoryInv ==
    /\ MemoryTypeOK
    /\ register = "memreg" => data
    /\ HandledOnce

LEMMA AppendAddress ==
    ASSUME NEW s \in Seq(Addresses), NEW a \in Addresses, a \notin ToSet(s),
           IsInjective(s)
    PROVE  /\ Append(s, a) \in Seq(Addresses)
           /\ Len(Append(s, a)) = Len(s) + 1
           /\ ToSet(Append(s, a)) = ToSet(s) \cup {a}
           /\ IsInjective(Append(s, a))
<1> DEFINE t == Append(s, a)
<1>1. t \in Seq(Addresses) /\ Len(t) = Len(s) + 1 /\ Len(s) \in Nat
  OBVIOUS
<1>2. t[Len(s) + 1] = a /\ \A i \in 1..Len(s) : t[i] = s[i]
  OBVIOUS
<1>3. DOMAIN t = 1..(Len(s) + 1) /\ DOMAIN s = 1..Len(s)
  BY <1>1
<1>4. ToSet(t) = ToSet(s) \cup {a}
  <2>1. ASSUME NEW x \in ToSet(t) PROVE x \in ToSet(s) \cup {a}
    <3>1. PICK i \in 1..(Len(s) + 1) : x = t[i]
      BY <1>3 DEF ToSet
    <3>2. CASE i = Len(s) + 1
      BY <1>2, <3>1, <3>2
    <3>3. CASE i \in 1..Len(s)
      BY <1>2, <1>3, <3>1, <3>3 DEF ToSet
    <3> QED
      BY <1>1, <3>2, <3>3
  <2>2. ASSUME NEW x \in ToSet(s) PROVE x \in ToSet(t)
    <3>1. PICK i \in 1..Len(s) : x = s[i]
      BY <1>3 DEF ToSet
    <3>2. i \in DOMAIN t /\ t[i] = x
      BY <1>1, <1>2, <1>3, <3>1
    <3> QED
      BY <3>2 DEF ToSet
  <2>3. a \in ToSet(t)
    <3>1. Len(s) + 1 \in DOMAIN t
      BY <1>1, <1>3
    <3> QED
      BY <1>2, <3>1 DEF ToSet
  <2> QED
    BY <2>1, <2>2, <2>3
<1>5. IsInjective(t)
  <2>1. \A i \in 1..Len(s) : s[i] # a
    BY <1>3 DEF ToSet
  <2>2. ASSUME NEW i \in 1..(Len(s) + 1), NEW j \in 1..(Len(s) + 1), t[i] = t[j]
        PROVE  i = j
    <3>1. CASE i \in 1..Len(s) /\ j \in 1..Len(s)
      BY <1>2, <1>3, <2>2, <3>1 DEF IsInjective
    <3>2. CASE i = Len(s) + 1 \/ j = Len(s) + 1
      BY <1>1, <1>2, <2>1, <2>2, <3>2
    <3> QED
      BY <1>1, <3>1, <3>2
  <2> QED
    BY <1>3, <2>2 DEF IsInjective
<1> QED
  BY <1>1, <1>4, <1>5

LEMMA NoAddress ==
    /\ <<>> \in Seq(Addresses) /\ Len(<<>>) = 0
    /\ ToSet(<<>>) = {} /\ IsInjective(<<>>)
BY DEF ToSet, IsInjective

LEMMA MemoryInitial == MemoryInit => MemoryInv
<1> SUFFICES ASSUME MemoryInit PROVE MemoryInv
  OBVIOUS
<1>1. entries \in Seq(Addresses)
  <2>1. \A a \in Addresses : <<a>> \in Seq(Addresses)
    OBVIOUS
  <2>2. \/ entries = <<>>
        \/ \E a \in Addresses : entries = <<a>>
    BY DEF MemoryInit
  <2> QED
    BY <2>1, <2>2, NoAddress
<1>2. MemoryTypeOK
  <2>1. /\ register \in {"memory", "memreg"} /\ data \in BOOLEAN
        /\ owner = [a \in Addresses |-> "allocator"]
    BY DEF MemoryInit
  <2>2. capacity \in Nat
    BY MemoryAssumption DEF MemoryInit
  <2> QED
    BY <1>1, <2>1, <2>2 DEF MemoryTypeOK
<1>3. CASE register = "memory"
  BY <1>2, <1>3 DEF MemoryInit, MemoryInv, HandledOnce, Registered
<1>4. CASE register = "memreg"
  <2>1. entries = <<>> /\ data /\ capacity \in Nat
    BY <1>4, MemoryAssumption DEF MemoryInit
  <2>2. Len(entries) <= capacity
    BY <2>1, NoAddress
  <2> QED
    BY <1>2, <2>1, <2>2, NoAddress DEF MemoryInit, MemoryInv, HandledOnce, Registered
<1> QED
  BY <1>3, <1>4 DEF MemoryInit

\* Steps that leave the register alone and give it no address.
LEMMA OwnersMove ==
    ASSUME MemoryInv, UNCHANGED <<register, data, capacity, entries, misuse>>,
           owner' \in [Addresses -> {"allocator", "program", "register"}],
           \A a \in Addresses : owner'[a] = "register" <=> owner[a] = "register"
    PROVE  MemoryInv'
BY DEF MemoryInv, MemoryTypeOK, HandledOnce, Registered

\* Steps that put an address of the program behind what the register holds.
LEMMA Registers ==
    ASSUME MemoryInv, NEW a \in Addresses, owner[a] = "program",
           Register(a, IF data THEN entries ELSE <<>>), data',
           UNCHANGED <<register, misuse>>,
           capacity' \in Nat,
           (IF data THEN Len(entries) ELSE 0) + 1 <= capacity'
    PROVE  MemoryInv'
<1> DEFINE held == IF data THEN entries ELSE <<>>
<1>1. held \in Seq(Addresses) /\ IsInjective(held) /\ ToSet(held) = Registered
  BY NoAddress DEF MemoryInv, MemoryTypeOK, HandledOnce, Registered
<1>2. a \notin ToSet(held)
  BY <1>1 DEF MemoryInv, HandledOnce
<1>3. entries' = Append(held, a) /\ owner' = [owner EXCEPT ![a] = "register"]
  BY DEF Register
<1>4. /\ entries' \in Seq(Addresses) /\ ToSet(entries') = ToSet(held) \cup {a}
      /\ IsInjective(entries') /\ Len(entries') = Len(held) + 1
  BY <1>1, <1>2, <1>3, AppendAddress
<1>5. Len(entries') <= capacity'
  BY <1>4, NoAddress
<1>6. \A b \in Addresses : owner'[b] = "register" <=> b \in ToSet(entries')
  BY <1>1, <1>3, <1>4 DEF MemoryInv, MemoryTypeOK, HandledOnce
<1>7. MemoryTypeOK'
  BY <1>3, <1>4 DEF MemoryInv, MemoryTypeOK
<1>8. Registered' = ToSet(entries')
  BY DEF Registered
<1> QED
  BY <1>4, <1>5, <1>6, <1>7, <1>8 DEF MemoryInv, HandledOnce

LEMMA Destroys ==
    ASSUME MemoryInv, Destroy
    PROVE  MemoryInv'
<1>1. \A a \in Addresses : owner[a] = "register" <=> a \in ToSet(entries)
  BY DEF MemoryInv, HandledOnce, Registered, Destroy
<1>2. ToSet(entries) \subseteq Addresses
  BY DEF MemoryInv, MemoryTypeOK, ToSet
<1>3. ~misuse'
  BY <1>1, <1>2 DEF Destroy, MemoryInv, HandledOnce
<1>4. /\ owner' \in [Addresses -> {"allocator", "program", "register"}]
      /\ \A a \in Addresses : owner'[a] # "register"
  BY <1>1 DEF Destroy, MemoryInv, MemoryTypeOK
<1>5. /\ entries' \in Seq(Addresses) /\ data' \in BOOLEAN
      /\ register' = register /\ capacity' = capacity
      /\ register = "memory" => ~data'
      /\ register = "memreg" => data' /\ entries' = <<>>
  BY NoAddress DEF Destroy, Forget, MemoryInv, MemoryTypeOK
<1>6. MemoryTypeOK'
  BY <1>4, <1>5 DEF MemoryInv, MemoryTypeOK
<1>7. CASE register = "memory"
  BY <1>3, <1>4, <1>5, <1>6, <1>7 DEF MemoryInv, HandledOnce, Registered
<1>8. CASE register = "memreg"
  <2>1. Len(entries') <= capacity'
    BY <1>5, <1>8, NoAddress DEF MemoryInv, MemoryTypeOK
  <2> QED
    BY <1>3, <1>4, <1>5, <1>6, <1>8, <2>1, NoAddress
    DEF MemoryInv, HandledOnce, Registered
<1> QED
  BY <1>7, <1>8 DEF MemoryInv, MemoryTypeOK

LEMMA MemoryStep == MemoryInv /\ [MemoryNext]_memoryVars => MemoryInv'
<1> SUFFICES ASSUME MemoryInv, [MemoryNext]_memoryVars PROVE MemoryInv'
  OBVIOUS
<1>1. ASSUME NEW a \in Addresses, Malloc(a) \/ FreeOwn(a) PROVE MemoryInv'
  BY <1>1, OwnersMove DEF Malloc, FreeOwn, MemoryInv, MemoryTypeOK
<1>2. ASSUME NEW a \in Addresses, NEW b \in Addresses, Realloc(a, b) PROVE MemoryInv'
  BY <1>2, OwnersMove DEF Realloc, MemoryInv, MemoryTypeOK
<1>3. ASSUME NEW a \in Addresses, AddWithHandler(a) PROVE MemoryInv'
  <2>1. CASE UNCHANGED <<data, capacity, entries, owner>>
    BY <1>3, <2>1, OwnersMove DEF AddWithHandler, MemoryInv, MemoryTypeOK
  <2>2. CASE /\ Register(a, IF data THEN entries ELSE <<>>) /\ data' = TRUE
             /\ Grow
    <3>1. capacity \in Nat /\ Len(entries) \in Nat
      BY DEF MemoryInv, MemoryTypeOK
    <3>2. capacity' \in Nat /\ (IF data THEN Len(entries) ELSE 0) + 1 <= capacity'
      <4>1. CASE ~data
        BY <2>2, <4>1 DEF Grow
      <4>2. CASE data /\ NeedsBlock
        <5>1. capacity' = 4 + 2 * capacity /\ Len(entries) <= capacity
          BY <2>2, <4>2 DEF Grow, MemoryInv, HandledOnce
        <5> QED
          BY <3>1, <4>2, <5>1
      <4>3. CASE data /\ ~NeedsBlock
        <5>1. capacity' = capacity /\ ~(capacity - Len(entries) < 4)
          BY <2>2, <4>3 DEF Grow, NeedsBlock
        <5> QED
          BY <3>1, <4>3, <5>1
      <4> QED
        BY <4>1, <4>2, <4>3
    <3> QED
      BY <1>3, <2>2, <3>2, Registers DEF AddWithHandler
  <2> QED
    BY <1>3, <2>1, <2>2 DEF AddWithHandler
<1>4. ASSUME NEW a \in Addresses, MemregAdd(a) PROVE MemoryInv'
  <2>1. capacity \in Nat /\ Len(entries) \in Nat /\ data
    BY <1>4 DEF MemregAdd, MemoryInv, MemoryTypeOK
  <2>2. Len(entries) + 1 <= capacity
    BY <1>4, <2>1 DEF MemregAdd
  <2> QED
    BY <1>4, <2>1, <2>2, Registers DEF MemregAdd
<1>5. CASE UNCHANGED memoryVars
  BY <1>5 DEF memoryVars, MemoryInv, MemoryTypeOK, HandledOnce, Registered
<1> QED
  BY <1>1, <1>2, <1>3, <1>4, <1>5, Destroys DEF MemoryNext

\* Whatever is registered, and however often the growing register or the one
\* of fixed size is destroyed and used again, a handler is called once for
\* each registered address and for nothing else (memory.c:70-90, memreg.h).
THEOREM RegisteredHandledOnce == MemorySpec => []HandledOnce
<1>1. MemoryInv => HandledOnce
  BY DEF MemoryInv
<1> QED
  BY <1>1, MemoryInitial, MemoryStep, PTL DEF MemorySpec

-----------------------------------------------------------------------------
(* Walking along a list                                                      *)

Follow(x) == IF x = Null THEN Null ELSE next[x]

\* f are the nodes up to n steps behind h
Walk(h, n, f) == f = [i \in 0..n |-> IF i = 0 THEN h ELSE Follow(f[i - 1])]

LEMMA WalkAt ==
    ASSUME NEW h, NEW n \in Nat, NEW f, Walk(h, n, f)
    PROVE  f[0] = h /\ \A i \in 1..n : f[i] = Follow(f[i - 1])
<1>1. \A i \in 0..n : f[i] = IF i = 0 THEN h ELSE Follow(f[i - 1])
  BY DEF Walk
<1> QED BY <1>1

LEMMA WalkExists == ASSUME NEW h, NEW n \in Nat PROVE \E f : Walk(h, n, f)
<1> DEFINE Wrong == {m \in Nat : ~\E f : Walk(h, m, f)}
<1> SUFFICES ASSUME Wrong # {} PROVE FALSE
  OBVIOUS
<1>1. PICK m \in Wrong : \A k \in Wrong : m <= k
  <2>1. Wrong \subseteq Nat
    OBVIOUS
  <2> HIDE DEF Wrong
  <2> QED BY <2>1, LeastNumber
<1>2. CASE m = 0
  <2>1. Walk(h, 0, [i \in 0..0 |-> h])
    BY DEF Walk
  <2> QED BY <1>1, <1>2, <2>1
<1>3. CASE m # 0
  <2>1. m - 1 \in Nat /\ ~(m <= m - 1)
    BY <1>1, <1>3
  <2>2. PICK f : Walk(h, m - 1, f)
    BY <1>1, <2>1
  <2> DEFINE g == [i \in 0..m |-> IF i = m THEN Follow(f[m - 1]) ELSE f[i]]
  <2>3. ASSUME NEW i \in 0..m PROVE g[i] = IF i = 0 THEN h ELSE Follow(g[i - 1])
    <3>1. CASE i = m
      <4>1. m - 1 \in 0..m /\ m - 1 # m
        BY <2>1
      <4>2. g[m - 1] = f[m - 1]
        BY <4>1
      <4> QED BY <1>3, <3>1, <4>2
    <3>2. CASE i # m
      <4>1. i \in 0..(m - 1) /\ g[i] = f[i]
        BY <2>1, <3>2
      <4>2. i # 0 => i - 1 \in 0..m /\ i - 1 # m /\ g[i - 1] = f[i - 1] /\ i \in 1..(m - 1)
        BY <2>1, <4>1
      <4>3. f[0] = h /\ \A j \in 1..(m - 1) : f[j] = Follow(f[j - 1])
        BY <2>1, <2>2, WalkAt
      <4> HIDE DEF g
      <4> QED BY <4>1, <4>2, <4>3
    <3> QED BY <3>1, <3>2
  <2>4. Walk(h, m, g)
    <3>1. g = [i \in 0..m |-> g[i]]
      OBVIOUS
    <3>2. [i \in 0..m |-> g[i]] = [i \in 0..m |-> IF i = 0 THEN h ELSE Follow(g[i - 1])]
      <4> HIDE DEF g
      <4> QED BY <2>3
    <3> HIDE DEF g
    <3> QED BY <3>1, <3>2 DEF Walk
  <2> QED BY <1>1, <2>4
<1> QED BY <1>2, <1>3

LEMMA WalksAgree ==
    ASSUME NEW h, NEW n \in Nat, NEW m \in Nat, n <= m, NEW f, NEW g,
           Walk(h, n, f), Walk(h, m, g)
    PROVE  f[n] = g[n]
<1> DEFINE Wrong == {i \in 0..n : f[i] # g[i]}
<1> SUFFICES ASSUME Wrong # {} PROVE FALSE
  OBVIOUS
<1>1. PICK i \in Wrong : \A k \in Wrong : i <= k
  <2>1. Wrong \subseteq Nat
    OBVIOUS
  <2> HIDE DEF Wrong
  <2> QED BY <2>1, LeastNumber
<1>a. f[0] = h /\ \A j \in 1..n : f[j] = Follow(f[j - 1])
  BY WalkAt
<1>b. g[0] = h /\ \A j \in 1..m : g[j] = Follow(g[j - 1])
  BY WalkAt
<1>2. f[0] = h /\ g[0] = h /\ \A j \in 1..n : f[j] = Follow(f[j - 1]) /\ g[j] = Follow(g[j - 1])
  BY <1>a, <1>b
<1>3. i \in 1..n /\ i - 1 \in 0..n /\ ~(i <= i - 1)
  BY <1>1, <1>2
<1>4. f[i - 1] = g[i - 1]
  BY <1>1, <1>3
<1> QED BY <1>1, <1>2, <1>3, <1>4

\* The recursion of After, one step at a time.
LEMMA AfterWalk ==
    ASSUME NEW h, NEW n \in Nat, NEW f, Walk(h, n, f)
    PROVE  After(h, n) = f[n]
<1> DEFINE at[i \in 0..n] == IF i = 0 THEN h ELSE IF at[i - 1] = Null THEN Null ELSE next[at[i - 1]]
           Is(g) == g = [i \in 0..n |-> IF i = 0 THEN h ELSE IF g[i - 1] = Null THEN Null ELSE next[g[i - 1]]]
<1>1. at = CHOOSE g : Is(g)
  OBVIOUS
<1>2. After(h, n) = at[n]
  BY DEF After
<1>3. Is(f)
  BY DEF Walk, Follow
<1>4. Is(at)
  <2> HIDE DEF at, Is
  <2> QED BY <1>1, <1>3
<1> HIDE DEF at
<1>5. Walk(h, n, at)
  BY <1>4 DEF Walk, Follow
<1> QED BY <1>2, <1>5, WalksAgree

LEMMA AfterStep ==
    ASSUME NEW h
    PROVE  After(h, 0) = h /\ \A n \in Nat : After(h, n + 1) = Follow(After(h, n))
<1>1. PICK e : Walk(h, 0, e)
  BY WalkExists
<1>2. After(h, 0) = h
  BY <1>1, AfterWalk, WalkAt
<1>3. ASSUME NEW n \in Nat PROVE After(h, n + 1) = Follow(After(h, n))
  <2>0. PICK k \in Nat : k = n + 1
    OBVIOUS
  <2>1. PICK f : Walk(h, n, f)
    BY WalkExists
  <2>2. PICK g : Walk(h, k, g)
    BY WalkExists
  <2>3. After(h, n) = f[n] /\ After(h, k) = g[k]
    BY <2>1, <2>2, AfterWalk
  <2>4. f[n] = g[n]
    BY <2>0, <2>1, <2>2, WalksAgree
  <2>5. \A i \in 1..k : g[i] = Follow(g[i - 1])
    BY <2>2, WalkAt
  <2>6. k \in 1..k /\ k - 1 = n
    BY <2>0
  <2>7. g[k] = Follow(g[n])
    BY <2>5, <2>6
  <2> QED BY <2>0, <2>3, <2>4, <2>7
<1> QED BY <1>2, <1>3

-----------------------------------------------------------------------------
(* What the helpers return for a list whose nodes are known                  *)

Distinct(s) == \A i, j \in 1..Len(s) : s[i] = s[j] => i = j

\* the nodes of s follow each other from h, and nothing follows the last
Linked(s, h) ==
    /\ h = IF s = <<>> THEN Null ELSE s[1]
    /\ \A i \in 1..Len(s) : next[s[i]] = IF i = Len(s) THEN Null ELSE s[i + 1]

LEMMA NullNoNode == Null \notin Nodes
BY ListAssumption

LEMMA NodesCount ==
    ASSUME NEW s \in Seq(Nodes), Distinct(s)
    PROVE  Cardinality(Nodes) \in Nat /\ Len(s) <= Cardinality(Nodes)
<1>1. IsFiniteSet(Nodes)
  BY ListAssumption
<1>2. Len(s) \in Nat /\ s \in [1..Len(s) -> Nodes]
  OBVIOUS
<1>3. s \in Injection(1..Len(s), Nodes)
  BY <1>2 DEF Distinct, Injection, IsInjective
<1>4. Cardinality(1..Len(s)) <= Cardinality(Nodes)
  BY <1>1, <1>3, FS_Injection
<1>5. Cardinality(1..Len(s)) = Len(s)
  BY <1>2, FS_Interval
<1> QED BY <1>1, <1>4, <1>5, FS_CardinalityType

LEMMA AfterLinked ==
    ASSUME NEW s \in Seq(Nodes), NEW h, Linked(s, h)
    PROVE  \A i \in Nat : After(h, i) = IF i < Len(s) THEN s[i + 1] ELSE Null
<1> DEFINE Wrong == {i \in Nat : After(h, i) # IF i < Len(s) THEN s[i + 1] ELSE Null}
<1> SUFFICES ASSUME Wrong # {} PROVE FALSE
  OBVIOUS
<1>1. PICK i \in Wrong : \A k \in Wrong : i <= k
  <2>1. Wrong \subseteq Nat
    OBVIOUS
  <2> HIDE DEF Wrong
  <2> QED BY <2>1, LeastNumber
<1>2. i # 0
  <2>1. After(h, 0) = h
    BY AfterStep
  <2>2. Len(s) \in Nat /\ (s = <<>> <=> Len(s) = 0)
    OBVIOUS
  <2> QED BY <1>1, <2>1, <2>2 DEF Linked
<1>3. PICK k \in Nat : i = k + 1
  BY <1>1, <1>2
<1>4. After(h, k) = IF k < Len(s) THEN s[k + 1] ELSE Null
  BY <1>1, <1>3
<1>5. After(h, i) = Follow(After(h, k))
  BY <1>3, AfterStep
<1>6. CASE k < Len(s)
  <2>1. k + 1 \in 1..Len(s) /\ s[k + 1] \in Nodes
    BY <1>6
  <2>2. After(h, i) = next[s[k + 1]]
    BY <1>4, <1>5, <1>6, <2>1, NullNoNode DEF Follow
  <2> QED BY <1>1, <1>3, <2>1, <2>2 DEF Linked
<1>7. CASE ~(k < Len(s))
  <2>1. After(h, i) = Null
    BY <1>4, <1>5, <1>7 DEF Follow
  <2>2. ~(i < Len(s))
    BY <1>3, <1>7
  <2> QED BY <1>1, <2>1, <2>2
<1> QED BY <1>6, <1>7

LEMMA ReachableLinked ==
    ASSUME NEW s \in Seq(Nodes), NEW h, Linked(s, h), Distinct(s)
    PROVE  /\ Ends(h)
           /\ Reachable(h) = {s[i] : i \in 1..Len(s)}
<1>1. Cardinality(Nodes) \in Nat /\ Len(s) <= Cardinality(Nodes) /\ Len(s) \in Nat
  BY NodesCount
<1>2. \A i \in Nat : After(h, i) = IF i < Len(s) THEN s[i + 1] ELSE Null
  BY AfterLinked
<1>3. Ends(h)
  BY <1>1, <1>2 DEF Ends
<1>4. ASSUME NEW n \in Reachable(h) PROVE n \in {s[i] : i \in 1..Len(s)}
  <2>1. PICK i \in 0..Cardinality(Nodes) : n = After(h, i) /\ n # Null
    BY DEF Reachable
  <2>2. i \in Nat /\ i < Len(s) /\ n = s[i + 1]
    BY <1>1, <1>2, <2>1
  <2>3. i + 1 \in 1..Len(s)
    BY <1>1, <2>2
  <2> QED BY <2>2, <2>3
<1>5. ASSUME NEW i \in 1..Len(s) PROVE s[i] \in Reachable(h)
  <2>1. PICK k \in Nat : i = k + 1 /\ k < Len(s)
    <3>1. i - 1 \in Nat /\ i = (i - 1) + 1 /\ i - 1 < Len(s)
      BY <1>1
    <3> QED BY <3>1
  <2>2. After(h, k) = s[i]
    BY <1>2, <2>1
  <2>3. k \in 0..Cardinality(Nodes) /\ s[i] # Null
    BY <1>1, <2>1, NullNoNode
  <2> QED BY <2>2, <2>3 DEF Reachable
<1> QED BY <1>3, <1>4, <1>5

-----------------------------------------------------------------------------
(* Singly linked lists: no node is lost, freed too early or in two lists     *)

SlistTypeOK ==
    /\ next \in [Nodes -> Nodes \cup {Null}]
    /\ heads \in [Heads -> Nodes \cup {Null}]
    /\ allocated \subseteq Nodes

\* the nodes of the lists are those of L
Lists(L) ==
    /\ \A h \in Heads : Linked(L[h], heads[h]) /\ Distinct(L[h])
    /\ \A g, h \in Heads : g # h =>
         \A i \in 1..Len(L[g]), j \in 1..Len(L[h]) : L[g][i] # L[h][j]
    /\ allocated = {n \in Nodes : \E h \in Heads : \E i \in 1..Len(L[h]) : n = L[h][i]}

\* What is inductive: there are sequences that the lists are.
SlistInv == SlistTypeOK /\ \E L \in [Heads -> Seq(Nodes)] : Lists(L)

LEMMA NoNodes == ASSUME NEW s \in Seq(Nodes) PROVE s = <<>> <=> Len(s) = 0
OBVIOUS

LEMMA SlistInitial == SlistInit => SlistInv
<1> SUFFICES ASSUME SlistInit PROVE SlistInv
  OBVIOUS
<1> DEFINE L == [h \in Heads |-> <<>>]
<1>1. L \in [Heads -> Seq(Nodes)]
  OBVIOUS
<1>2. \A h \in Heads : L[h] = <<>> /\ Len(L[h]) = 0
  OBVIOUS
<1>3. Lists(L)
  <2> HIDE DEF L
  <2> QED BY <1>1, <1>2 DEF Lists, Linked, Distinct, SlistInit
<1>4. SlistTypeOK
  BY DEF SlistInit, SlistTypeOK
<1> HIDE DEF L
<1> QED BY <1>1, <1>3, <1>4 DEF SlistInv

LEMMA NextIndex ==
    ASSUME NEW n \in Nat, NEW i \in 1..n, NEW k \in Nat
    PROVE  i # n => i + 1 \in 1..n /\ (i + 1) + k = (i + k) + 1
OBVIOUS

LEMMA Prepended ==
    ASSUME NEW s \in Seq(Nodes), NEW n \in Nodes
    PROVE  /\ <<n>> \o s \in Seq(Nodes) /\ Len(<<n>> \o s) = Len(s) + 1 /\ Len(s) \in Nat
           /\ <<n>> \o s # <<>>
           /\ (<<n>> \o s)[1] = n
           /\ \A i \in 2..(Len(s) + 1) : (<<n>> \o s)[i] = s[i - 1]
OBVIOUS

LEMMA FrontAdded ==
    ASSUME SlistTypeOK, NEW L \in [Heads -> Seq(Nodes)], Lists(L),
           NEW h \in Heads, NEW n \in Nodes, AddFront(h, n)
    PROVE  SlistInv'
<1> DEFINE K == [L EXCEPT ![h] = <<n>> \o L[h]]
<1>1. K \in [Heads -> Seq(Nodes)] /\ K[h] = <<n>> \o L[h] /\ \A g \in Heads : g # h => K[g] = L[g]
  OBVIOUS
<1>2. SlistTypeOK'
  BY DEF SlistTypeOK, AddFront
<1>3. \A g \in Heads : \A i \in 1..Len(L[g]) : L[g][i] \in Nodes /\ L[g][i] # n
  BY DEF Lists, AddFront
<1>4. /\ Len(K[h]) = Len(L[h]) + 1 /\ Len(L[h]) \in Nat /\ K[h] # <<>> /\ K[h][1] = n
      /\ \A i \in 2..Len(K[h]) : K[h][i] = L[h][i - 1] /\ i - 1 \in 1..Len(L[h])
  BY <1>1, Prepended
<1>5. next' = [next EXCEPT ![n] = heads[h]] /\ heads' = [heads EXCEPT ![h] = n]
  BY DEF AddFront
<1>6. next'[n] = heads[h] /\ heads'[h] = n /\ \A g \in Heads : g # h => heads'[g] = heads[g]
  BY <1>5 DEF SlistTypeOK
<1>7. \A m \in Nodes : m # n => next'[m] = next[m]
  BY <1>5 DEF SlistTypeOK
<1> HIDE DEF K
<1>8. ASSUME NEW g \in Heads PROVE Linked(K[g], heads[g])' /\ Distinct(K[g])
  <2>1. CASE g # h
    <3>1. Linked(L[g], heads[g]) /\ Distinct(L[g])
      BY DEF Lists
    <3>2. K[g] = L[g] /\ heads'[g] = heads[g]
      BY <1>1, <1>6, <2>1
    <3>3. \A i \in 1..Len(L[g]) : next'[L[g][i]] = next[L[g][i]]
      BY <1>3, <1>7
    <3>4. \A i \in 1..Len(L[g]) : next'[L[g][i]] = IF i = Len(L[g]) THEN Null ELSE L[g][i + 1]
      BY <3>1, <3>3 DEF Linked
    <3> QED BY <3>1, <3>2, <3>4 DEF Linked
  <2>2. CASE g = h
    <3>1. Linked(L[h], heads[h]) /\ Distinct(L[h])
      BY DEF Lists
    <3>2. ASSUME NEW i \in 1..Len(K[h])
          PROVE  next'[K[h][i]] = IF i = Len(K[h]) THEN Null ELSE K[h][i + 1]
      <4>1. CASE i = 1
        <5>1. CASE L[h] = <<>>
          BY <1>4, <1>6, <3>1, <4>1, <5>1 DEF Linked
        <5>2. CASE L[h] # <<>>
          <6>1. Len(L[h]) # 0
            BY <1>1, <5>2
          <6>2. 2 \in 2..Len(K[h])
            BY <1>4, <6>1
          <6> QED BY <1>4, <1>6, <3>1, <4>1, <5>2, <6>1, <6>2 DEF Linked
        <5> QED BY <5>1, <5>2
      <4>2. CASE i # 1
        <5>1. i \in 2..Len(K[h]) /\ i - 1 \in 1..Len(L[h])
          BY <1>4, <4>2
        <5>2. K[h][i] = L[h][i - 1] /\ next'[K[h][i]] = next[L[h][i - 1]]
          BY <1>3, <1>4, <1>7, <5>1
        <5>3. i # Len(K[h]) => i + 1 \in 2..Len(K[h]) /\ K[h][i + 1] = L[h][(i - 1) + 1]
          BY <1>4, <5>1
        <5> QED BY <1>4, <3>1, <5>1, <5>2, <5>3 DEF Linked
      <4> QED BY <4>1, <4>2
    <3>3. heads'[h] = IF K[h] = <<>> THEN Null ELSE K[h][1]
      BY <1>4, <1>6
    <3>4. Distinct(K[h])
      <4> SUFFICES ASSUME NEW i \in 1..Len(K[h]), NEW j \in 1..Len(K[h]), K[h][i] = K[h][j]
                   PROVE  i = j
        BY DEF Distinct
      <4>1. CASE i = 1 \/ j = 1
        <5>1. \A k \in 1..Len(K[h]) : k # 1 => k \in 2..Len(K[h])
          BY <1>4
        <5>2. \A k \in 1..Len(K[h]) : k # 1 => K[h][k] # n
          BY <1>3, <1>4, <5>1
        <5> QED BY <1>4, <4>1, <5>2
      <4>2. CASE i # 1 /\ j # 1
        <5>1. /\ i \in 2..Len(K[h]) /\ i - 1 \in 1..Len(L[h]) /\ K[h][i] = L[h][i - 1]
              /\ j \in 2..Len(K[h]) /\ j - 1 \in 1..Len(L[h]) /\ K[h][j] = L[h][j - 1]
          BY <4>2, <1>4
        <5>2. i - 1 = j - 1
          BY <3>1, <5>1 DEF Distinct
        <5> QED BY <5>2
      <4> QED BY <4>1, <4>2
    <3> QED BY <2>2, <3>2, <3>3, <3>4 DEF Linked
  <2> QED BY <2>1, <2>2
<1>9. ASSUME NEW f \in Heads, NEW g \in Heads, f # g, NEW i \in 1..Len(K[f]), NEW j \in 1..Len(K[g])
      PROVE  K[f][i] # K[g][j]
  <2>1. \A k \in 1..Len(L[f]), e \in 1..Len(L[g]) : L[f][k] # L[g][e]
    BY <1>9 DEF Lists
  <2>a. \A k \in 1..Len(K[h]) : k = 1 \/ k \in 2..Len(K[h])
    BY <1>4
  <2>b. \A k \in 1..Len(K[h]) : K[h][k] = n \/ \E e \in 1..Len(L[h]) : K[h][k] = L[h][e]
    BY <1>4, <2>a
  <2>2. CASE f = h
    <3>1. K[g][j] = L[g][j] /\ j \in 1..Len(L[g])
      BY <1>1, <1>9, <2>2
    <3> QED BY <1>3, <2>1, <2>2, <2>b, <3>1
  <2>3. CASE g = h
    <3>1. K[f][i] = L[f][i] /\ i \in 1..Len(L[f])
      BY <1>1, <1>9, <2>3
    <3> QED BY <1>3, <2>1, <2>3, <2>b, <3>1
  <2>4. CASE f # h /\ g # h
    BY <1>1, <2>1, <2>4
  <2> QED BY <2>2, <2>3, <2>4
<1>10. allocated' = {m \in Nodes : \E g \in Heads : \E i \in 1..Len(K[g]) : m = K[g][i]}
  <2>1. allocated' = allocated \cup {n}
    BY DEF AddFront
  <2>2. ASSUME NEW m \in Nodes
        PROVE  m \in allocated' <=> \E g \in Heads : \E i \in 1..Len(K[g]) : m = K[g][i]
    <3>1. m \in allocated <=> \E g \in Heads : \E i \in 1..Len(L[g]) : m = L[g][i]
      BY DEF Lists
    <3>2. ASSUME m \in allocated' PROVE \E g \in Heads : \E i \in 1..Len(K[g]) : m = K[g][i]
      <4>1. CASE m = n
        <5>1. 1 \in 1..Len(K[h]) /\ K[h][1] = n
          BY <1>4
        <5> QED BY <4>1, <5>1
      <4>2. CASE m # n
        <5>1. PICK g \in Heads : \E i \in 1..Len(L[g]) : m = L[g][i]
          BY <2>1, <3>1, <3>2, <4>2
        <5>2. PICK i \in 1..Len(L[g]) : m = L[g][i]
          BY <5>1
        <5>3. CASE g = h
          <6>1. i + 1 \in 2..Len(K[h]) /\ (i + 1) - 1 = i
            BY <1>4, <5>3
          <6>2. i + 1 \in 1..Len(K[h]) /\ K[h][i + 1] = m
            BY <1>4, <5>2, <5>3, <6>1
          <6> QED BY <6>2
        <5>4. CASE g # h
          BY <1>1, <5>2, <5>4
        <5> QED BY <5>3, <5>4
      <4> QED BY <4>1, <4>2
    <3>3. ASSUME NEW g \in Heads, NEW i \in 1..Len(K[g]), m = K[g][i] PROVE m \in allocated'
      <4>1. CASE g = h /\ i = 1
        BY <1>4, <2>1, <3>3, <4>1
      <4>2. CASE g = h /\ i # 1
        <5>1. i \in 2..Len(K[h]) /\ i - 1 \in 1..Len(L[h]) /\ K[h][i] = L[h][i - 1]
          BY <1>4, <4>2
        <5>2. m = L[h][i - 1]
          BY <3>3, <4>2, <5>1
        <5> QED BY <2>1, <3>1, <5>1, <5>2
      <4>3. CASE g # h
        BY <1>1, <2>1, <3>1, <3>3, <4>3
      <4> QED BY <4>1, <4>2, <4>3
    <3> QED BY <3>2, <3>3
  <2>3. allocated' \subseteq Nodes
    BY <1>2 DEF SlistTypeOK
  <2> QED BY <2>2, <2>3
<1>11. Lists(K)'
  BY <1>8, <1>9, <1>10 DEF Lists
<1> QED BY <1>1, <1>2, <1>11 DEF SlistInv

\* The first k nodes of a list are taken out and freed.
LEMMA FrontTaken ==
    ASSUME SlistTypeOK, NEW L \in [Heads -> Seq(Nodes)], Lists(L),
           NEW h \in Heads, NEW k \in 0..Len(L[h]), NEW t \in Seq(Nodes),
           Len(t) = Len(L[h]) - k, \A i \in 1..Len(t) : t[i] = L[h][i + k],
           next' = next,
           heads' = [heads EXCEPT ![h] = IF t = <<>> THEN Null ELSE t[1]],
           allocated' = allocated \ {L[h][i] : i \in 1..k}
    PROVE  SlistInv'
<1> DEFINE K == [L EXCEPT ![h] = t]
<1>1. K \in [Heads -> Seq(Nodes)] /\ K[h] = t /\ \A g \in Heads : g # h => K[g] = L[g]
  OBVIOUS
<1>2. Len(L[h]) \in Nat /\ Len(t) \in Nat /\ (t # <<>> => 1 \in 1..Len(t) /\ t[1] \in Nodes)
  OBVIOUS
<1>3. SlistTypeOK'
  BY <1>2 DEF SlistTypeOK
<1>4. heads'[h] = (IF t = <<>> THEN Null ELSE t[1]) /\ \A g \in Heads : g # h => heads'[g] = heads[g]
  BY DEF SlistTypeOK
<1>5. \A g \in Heads : Linked(L[g], heads[g]) /\ Distinct(L[g])
  BY DEF Lists
<1>6. \A i \in 1..Len(t) : i + k \in 1..Len(L[h]) /\ t[i] = L[h][i + k]
  BY <1>2
<1> HIDE DEF K
<1>7. ASSUME NEW g \in Heads PROVE Linked(K[g], heads[g])' /\ Distinct(K[g])
  <2>1. CASE g # h
    BY <1>1, <1>4, <1>5, <2>1 DEF Linked
  <2>2. CASE g = h
    <3>1. \A i \in 1..Len(t) : next'[t[i]] = IF i = Len(t) THEN Null ELSE t[i + 1]
      <4> SUFFICES ASSUME NEW i \in 1..Len(t)
                   PROVE  next[t[i]] = IF i = Len(t) THEN Null ELSE t[i + 1]
        OBVIOUS
      <4>a. \A j \in 1..Len(L[h]) : next[L[h][j]] = IF j = Len(L[h]) THEN Null ELSE L[h][j + 1]
        BY <1>5 DEF Linked
      <4>1. next[t[i]] = IF i + k = Len(L[h]) THEN Null ELSE L[h][(i + k) + 1]
        BY <4>a, <1>6
      <4>2. i # Len(t) => i + 1 \in 1..Len(t) /\ (i + 1) + k = (i + k) + 1
        <5>1. Len(t) \in Nat /\ k \in Nat
          BY <1>2
        <5> QED BY <5>1, NextIndex
      <4>3. i # Len(t) => t[i + 1] = L[h][(i + k) + 1]
        BY <1>6, <4>2
      <4>4. i = Len(t) <=> i + k = Len(L[h])
        BY <1>2
      <4> QED BY <4>1, <4>3, <4>4
    <3>2. Distinct(t)
      <4> SUFFICES ASSUME NEW i \in 1..Len(t), NEW j \in 1..Len(t), t[i] = t[j] PROVE i = j
        BY DEF Distinct
      <4>1. i + k = j + k
        BY <1>5, <1>6 DEF Distinct
      <4> QED BY <1>2, <4>1
    <3> QED BY <1>1, <1>4, <2>2, <3>1, <3>2 DEF Linked
  <2> QED BY <2>1, <2>2
<1>8. ASSUME NEW g \in Heads, NEW i \in 1..Len(K[g])
      PROVE  \E e \in 1..Len(L[g]) : K[g][i] = L[g][e]
  BY <1>1, <1>6
<1>9. \A f, g \in Heads : f # g => \A i \in 1..Len(K[f]), j \in 1..Len(K[g]) : K[f][i] # K[g][j]
  BY <1>8 DEF Lists
<1>10. allocated' = {m \in Nodes : \E g \in Heads : \E i \in 1..Len(K[g]) : m = K[g][i]}
  <2>1. ASSUME NEW m \in Nodes
        PROVE  m \in allocated' <=> \E g \in Heads : \E i \in 1..Len(K[g]) : m = K[g][i]
    <3>1. m \in allocated <=> \E g \in Heads : \E i \in 1..Len(L[g]) : m = L[g][i]
      BY DEF Lists
    <3>2. ASSUME m \in allocated' PROVE \E g \in Heads : \E i \in 1..Len(K[g]) : m = K[g][i]
      <4>1. PICK g \in Heads : \E i \in 1..Len(L[g]) : m = L[g][i]
        BY <3>1, <3>2
      <4>2. PICK i \in 1..Len(L[g]) : m = L[g][i]
        BY <4>1
      <4>3. CASE g = h
        <5>1. ~(i <= k)
          BY <3>2, <4>2, <4>3
        <5>2. i - k \in 1..Len(t) /\ (i - k) + k = i
          BY <1>2, <4>3, <5>1
        <5>3. t[i - k] = m
          BY <1>6, <4>2, <4>3, <5>2
        <5> QED BY <1>1, <5>2, <5>3
      <4>4. CASE g # h
        BY <1>1, <4>2, <4>4
      <4> QED BY <4>3, <4>4
    <3>3. ASSUME NEW g \in Heads, NEW i \in 1..Len(K[g]), m = K[g][i] PROVE m \in allocated'
      <4>1. m \in allocated
        BY <1>8, <3>1, <3>3
      <4>2. ASSUME NEW e \in 1..k, m = L[h][e] PROVE FALSE
        <5>1. e \in 1..Len(L[h])
          BY <1>2
        <5>2. CASE g = h
          <6>1. i + k \in 1..Len(L[h]) /\ L[h][i + k] = L[h][e]
            BY <1>1, <1>6, <3>3, <4>2, <5>2
          <6>2. i + k = e
            BY <1>5, <5>1, <6>1 DEF Distinct
          <6> QED BY <1>1, <1>2, <5>2, <6>2
        <5>3. CASE g # h
          <6>1. \A a \in 1..Len(L[g]), b \in 1..Len(L[h]) : L[g][a] # L[h][b]
            BY <5>3 DEF Lists
          <6>2. i \in 1..Len(L[g]) /\ L[g][i] = L[h][e]
            BY <1>1, <3>3, <4>2, <5>3
          <6> QED BY <5>1, <6>1, <6>2
        <5> QED BY <5>2, <5>3
      <4> QED BY <4>1, <4>2
    <3> QED BY <3>2, <3>3
  <2>2. allocated' \subseteq Nodes
    BY <1>3 DEF SlistTypeOK
  <2> QED BY <2>1, <2>2
<1>11. Lists(K)'
  BY <1>7, <1>9, <1>10 DEF Lists
<1> QED BY <1>1, <1>3, <1>11 DEF SlistInv

LEMMA FrontRemoved ==
    ASSUME SlistTypeOK, NEW L \in [Heads -> Seq(Nodes)], Lists(L),
           NEW h \in Heads, RemoveFront(h)
    PROVE  SlistInv'
<1>1. Linked(L[h], heads[h]) /\ L[h] \in Seq(Nodes) /\ Len(L[h]) \in Nat
  BY DEF Lists
<1>2. CASE L[h] = <<>>
  <2> DEFINE t == <<>>
  <2>1. heads[h] = Null /\ Len(L[h]) = 0
    BY <1>1, <1>2 DEF Linked
  <2>2. heads' = [heads EXCEPT ![h] = IF t = <<>> THEN Null ELSE t[1]]
    BY <2>1 DEF RemoveFront
  <2>5. t \in Seq(Nodes) /\ Len(t) = Len(L[h]) - 0 /\ \A i \in 1..Len(t) : t[i] = L[h][i + 0]
    BY <2>1
  <2>3. allocated' = allocated \ {L[h][i] : i \in 1..0}
    BY <2>1, NullNoNode DEF RemoveFront, SlistTypeOK
  <2>4. next' = next /\ 0 \in 0..Len(L[h])
    BY <2>1 DEF RemoveFront
  <2> HIDE DEF t
  <2> QED BY <2>2, <2>3, <2>4, <2>5, FrontTaken
<1>3. CASE L[h] # <<>>
  <2> DEFINE t == Tail(L[h])
  <2>1. /\ 1 \in 0..Len(L[h]) /\ 1 \in 1..Len(L[h]) /\ t \in Seq(Nodes)
        /\ Len(t) = Len(L[h]) - 1 /\ \A i \in 1..Len(t) : t[i] = L[h][i + 1]
    BY <1>1, <1>3
  <2>2. heads[h] = L[h][1] /\ heads[h] # Null
    <3>1. L[h][1] \in Nodes
      BY <1>1, <2>1
    <3> QED BY <1>1, <1>3, <3>1, NullNoNode DEF Linked
  <2>3. t = <<>> <=> Len(L[h]) = 1
    <3> HIDE DEF t
    <3>1. t = <<>> <=> Len(t) = 0
      BY <2>1, NoNodes
    <3> QED BY <1>1, <2>1, <3>1
  <2>4. next[heads[h]] = IF t = <<>> THEN Null ELSE t[1]
    <3>1. next[heads[h]] = IF 1 = Len(L[h]) THEN Null ELSE L[h][1 + 1]
      BY <1>1, <2>1, <2>2 DEF Linked
    <3>2. t # <<>> => 1 \in 1..Len(t)
      BY <2>1
    <3> QED BY <2>1, <2>3, <3>1, <3>2
  <2>5. heads' = [heads EXCEPT ![h] = IF t = <<>> THEN Null ELSE t[1]]
    BY <2>2, <2>4 DEF RemoveFront
  <2>6. allocated' = allocated \ {L[h][i] : i \in 1..1}
    BY <2>2 DEF RemoveFront
  <2>7. next' = next
    BY DEF RemoveFront
  <2> HIDE DEF t
  <2> QED BY <2>1, <2>5, <2>6, <2>7, FrontTaken
<1> QED BY <1>2, <1>3

LEMMA ListDestroyed ==
    ASSUME SlistTypeOK, NEW L \in [Heads -> Seq(Nodes)], Lists(L),
           NEW h \in Heads, DestroyList(h)
    PROVE  SlistInv'
<1>1. Linked(L[h], heads[h]) /\ Distinct(L[h]) /\ L[h] \in Seq(Nodes) /\ Len(L[h]) \in Nat
  BY DEF Lists
<1>2. Reachable(heads[h]) = {L[h][i] : i \in 1..Len(L[h])}
  BY <1>1, ReachableLinked
<1> DEFINE t == <<>>
<1>3. /\ t \in Seq(Nodes) /\ Len(t) = Len(L[h]) - Len(L[h]) /\ Len(L[h]) \in 0..Len(L[h])
      /\ \A i \in 1..Len(t) : t[i] = L[h][i + Len(L[h])]
  BY <1>1
<1>4. /\ heads' = [heads EXCEPT ![h] = IF t = <<>> THEN Null ELSE t[1]]
      /\ next' = next /\ allocated' = allocated \ {L[h][i] : i \in 1..Len(L[h])}
  BY <1>2 DEF DestroyList
<1> HIDE DEF t
<1> QED BY <1>3, <1>4, FrontTaken

LEMMA Concatenated ==
    ASSUME NEW s \in Seq(Nodes), NEW t \in Seq(Nodes)
    PROVE  /\ s \o t \in Seq(Nodes) /\ Len(s \o t) = Len(s) + Len(t)
           /\ Len(s) \in Nat /\ Len(t) \in Nat
           /\ \A i \in 1..Len(s) : (s \o t)[i] = s[i]
           /\ \A i \in 1..Len(t) : (s \o t)[Len(s) + i] = t[i]
           /\ \A i \in 1..Len(s \o t) : i \in 1..Len(s) \/
                \E j \in 1..Len(t) : i = Len(s) + j
<1>1. /\ s \o t \in Seq(Nodes) /\ Len(s \o t) = Len(s) + Len(t)
      /\ Len(s) \in Nat /\ Len(t) \in Nat
      /\ \A i \in 1..Len(s) : (s \o t)[i] = s[i]
      /\ \A i \in 1..Len(t) : (s \o t)[Len(s) + i] = t[i]
  OBVIOUS
<1>2. ASSUME NEW i \in 1..Len(s \o t), i \notin 1..Len(s)
      PROVE  \E j \in 1..Len(t) : i = Len(s) + j
  <2>1. i - Len(s) \in 1..Len(t) /\ i = Len(s) + (i - Len(s))
    BY <1>1, <1>2
  <2> QED BY <2>1
<1> QED BY <1>1, <1>2

\* The last node of a list is followed by the nodes of another one.
LEMMA ListAppended ==
    ASSUME SlistTypeOK, NEW L \in [Heads -> Seq(Nodes)], Lists(L), AppendAnywhere = FALSE,
           NEW h \in Heads, NEW tail \in Heads, NEW n \in Nodes, AppendList(h, n, tail)
    PROVE  SlistInv'
<1> DEFINE s == L[h]
           t == L[tail]
           st == s \o t
           K == [L EXCEPT ![h] = st, ![tail] = <<>>]
<1>1. /\ h # tail /\ n \in Reachable(heads[h]) /\ next[n] = Null
      /\ next' = [next EXCEPT ![n] = heads[tail]]
      /\ heads' = [heads EXCEPT ![tail] = Null] /\ allocated' = allocated
  BY DEF AppendList
<1>2. /\ s \in Seq(Nodes) /\ t \in Seq(Nodes)
      /\ Linked(s, heads[h]) /\ Distinct(s) /\ Linked(t, heads[tail]) /\ Distinct(t)
  BY DEF Lists
<1>a. \A g \in Heads : \A i \in 1..Len(L[g]) : L[g][i] \in Nodes
  OBVIOUS
<1>b. \A f, g \in Heads : f # g =>
        \A i \in 1..Len(L[f]), j \in 1..Len(L[g]) : L[f][i] # L[g][j]
  BY DEF Lists
<1>3. /\ K \in [Heads -> Seq(Nodes)] /\ K[h] = st /\ K[tail] = <<>>
      /\ \A g \in Heads : g # h /\ g # tail => K[g] = L[g]
  <2>1. st \in Seq(Nodes) /\ <<>> \in Seq(Nodes)
    BY <1>2
  <2> HIDE DEF st, s, t
  <2> QED BY <1>1, <2>1
<1>4. /\ st \in Seq(Nodes) /\ Len(st) = Len(s) + Len(t)
      /\ Len(s) \in Nat /\ Len(t) \in Nat
      /\ \A i \in 1..Len(s) : st[i] = s[i]
      /\ \A i \in 1..Len(t) : st[Len(s) + i] = t[i]
      /\ \A i \in 1..Len(st) : i \in 1..Len(s) \/ \E j \in 1..Len(t) : i = Len(s) + j
  BY <1>2, Concatenated
<1>5. /\ \A i \in 1..Len(s) : s[i] \in Nodes
      /\ \A i \in 1..Len(t) : t[i] \in Nodes
      /\ \A i \in 1..Len(s), j \in 1..Len(t) : s[i] # t[j]
      /\ \A g \in Heads : g # h /\ g # tail => \A k \in 1..Len(L[g]) :
           (\A i \in 1..Len(s) : s[i] # L[g][k]) /\ (\A i \in 1..Len(t) : t[i] # L[g][k])
  BY <1>1, <1>a, <1>b
<1>6. SlistTypeOK'
  BY <1>1 DEF SlistTypeOK
<1>7. /\ heads'[tail] = Null /\ \A g \in Heads : g # tail => heads'[g] = heads[g]
      /\ next'[n] = heads[tail] /\ \A m \in Nodes : m # n => next'[m] = next[m]
  BY <1>1 DEF SlistTypeOK
<1>c. K[h] = st /\ L[h] = s /\ L[tail] = t /\ K[tail] = <<>> /\ Len(K[tail]) = 0
  BY <1>3
<1> HIDE DEF K, st, s, t
<1>8. Len(s) \in 1..Len(s) /\ s[Len(s)] = n
  <2>1. PICK i \in 1..Len(s) : n = s[i]
    BY <1>1, <1>2, ReachableLinked
  <2>2. i # Len(s) => i + 1 \in 1..Len(s) /\ next[s[i]] = s[i + 1]
    BY <1>2, <1>4 DEF Linked
  <2>3. i = Len(s)
    BY <1>1, <1>5, <2>1, <2>2, NullNoNode
  <2> QED BY <2>1, <2>3
<1>9. Linked(st, heads[h])'
  <2>1. heads'[h] = IF st = <<>> THEN Null ELSE st[1]
    <3>1. Len(s) # 0 /\ Len(st) # 0 /\ 1 \in 1..Len(s)
      BY <1>4, <1>8
    <3>2. s # <<>> /\ st # <<>>
      BY <1>2, <1>4, <3>1, NoNodes
    <3> QED BY <1>1, <1>2, <1>4, <1>7, <3>1, <3>2 DEF Linked
  <2>2. ASSUME NEW i \in 1..Len(st)
        PROVE  next'[st[i]] = IF i = Len(st) THEN Null ELSE st[i + 1]
    <3>1. CASE i \in 1..Len(s) /\ i # Len(s)
      <4>1. st[i] = s[i] /\ s[i] # n /\ i + 1 \in 1..Len(s)
        BY <1>2, <1>4, <1>8, <3>1 DEF Distinct
      <4>2. next'[st[i]] = s[i + 1]
        BY <1>2, <1>5, <1>7, <3>1, <4>1 DEF Linked
      <4>3. i # Len(st)
        BY <1>4, <3>1
      <4> QED BY <1>4, <4>1, <4>2, <4>3
    <3>2. CASE i = Len(s)
      <4>1. next'[st[i]] = heads[tail]
        BY <1>4, <1>7, <1>8, <3>2
      <4>2. CASE t = <<>>
        BY <1>2, <1>4, <3>2, <4>1, <4>2, NoNodes DEF Linked
      <4>3. CASE t # <<>>
        <5>1. Len(t) # 0
          BY <1>2, <4>3, NoNodes
        <5>2. 1 \in 1..Len(t) /\ i + 1 = Len(s) + 1 /\ i # Len(st)
          BY <1>4, <3>2, <5>1
        <5>4. st[i + 1] = t[1]
          BY <1>4, <5>2
        <5>3. t[1] = heads[tail]
          BY <1>2, <4>3 DEF Linked
        <5> QED BY <4>1, <5>2, <5>3, <5>4
      <4> QED BY <4>2, <4>3
    <3>3. CASE i \notin 1..Len(s)
      <4>1. PICK j \in 1..Len(t) : i = Len(s) + j
        BY <1>4, <3>3
      <4>2. st[i] = t[j] /\ t[j] # n
        BY <1>4, <1>5, <1>8, <4>1
      <4>3. next'[st[i]] = IF j = Len(t) THEN Null ELSE t[j + 1]
        BY <1>2, <1>5, <1>7, <4>2 DEF Linked
      <4>4. j = Len(t) <=> i = Len(st)
        <5>1. Len(st) = Len(s) + Len(t) /\ Len(s) \in Nat /\ Len(t) \in Nat /\ j \in Nat
          BY <1>4
        <5>2. j = Len(t) => i = Len(st)
          BY <4>1, <5>1
        <5>3. i = Len(st) => Len(s) + j = Len(s) + Len(t)
          BY <4>1, <5>1
        <5>4. Len(s) + j = Len(s) + Len(t) => j = Len(t)
          BY <5>1
        <5> QED BY <5>2, <5>3, <5>4
      <4>5. j # Len(t) => j + 1 \in 1..Len(t) /\ i + 1 = Len(s) + (j + 1)
        BY <1>4, <4>1
      <4>6. j # Len(t) => st[i + 1] = t[j + 1]
        BY <1>4, <4>5
      <4> QED BY <4>3, <4>4, <4>6
    <3> QED BY <3>1, <3>2, <3>3
  <2> QED BY <2>1, <2>2 DEF Linked
<1>10. Distinct(st)
  <2> SUFFICES ASSUME NEW i \in 1..Len(st), NEW j \in 1..Len(st), st[i] = st[j] PROVE i = j
    BY DEF Distinct
  <2>1. CASE i \in 1..Len(s) /\ j \in 1..Len(s)
    BY <1>2, <1>4, <2>1 DEF Distinct
  <2>2. CASE i \notin 1..Len(s) /\ j \notin 1..Len(s)
    <3>1. PICK k \in 1..Len(t), e \in 1..Len(t) : i = Len(s) + k /\ j = Len(s) + e
      BY <1>4, <2>2
    <3>2. t[k] = t[e]
      BY <1>4, <3>1
    <3> QED BY <1>2, <3>1, <3>2 DEF Distinct
  <2>3. CASE i \in 1..Len(s) /\ j \notin 1..Len(s)
    BY <1>4, <1>5, <2>3
  <2>4. CASE i \notin 1..Len(s) /\ j \in 1..Len(s)
    BY <1>4, <1>5, <2>4
  <2> QED BY <2>1, <2>2, <2>3, <2>4
<1>11. ASSUME NEW g \in Heads PROVE Linked(K[g], heads[g])' /\ Distinct(K[g])
  <2>1. CASE g = h
    BY <1>9, <1>10, <1>c, <2>1 DEF Linked
  <2>2. CASE g = tail
    BY <1>7, <1>c, <2>2 DEF Linked, Distinct
  <2>3. CASE g # h /\ g # tail
    <3>1. Linked(L[g], heads[g]) /\ Distinct(L[g])
      BY DEF Lists
    <3>2. K[g] = L[g] /\ heads'[g] = heads[g]
      BY <1>3, <1>7, <2>3
    <3>3. \A i \in 1..Len(L[g]) : next'[L[g][i]] = next[L[g][i]]
      BY <1>5, <1>7, <1>8, <1>a, <2>3
    <3>4. \A i \in 1..Len(L[g]) : next'[L[g][i]] = IF i = Len(L[g]) THEN Null ELSE L[g][i + 1]
      BY <3>1, <3>3 DEF Linked
    <3> QED BY <3>1, <3>2, <3>4 DEF Linked
  <2> QED BY <2>1, <2>2, <2>3
<1>12. \A f, g \in Heads : f # g => \A i \in 1..Len(K[f]), j \in 1..Len(K[g]) : K[f][i] # K[g][j]
  <2> SUFFICES ASSUME NEW f \in Heads, NEW g \in Heads, f # g,
                      NEW i \in 1..Len(K[f]), NEW j \in 1..Len(K[g])
               PROVE  K[f][i] # K[g][j]
    OBVIOUS
  <2>1. f # tail /\ g # tail
    BY <1>c
  <2>2. \A k \in 1..Len(st) : (\E e \in 1..Len(s) : st[k] = s[e]) \/ (\E e \in 1..Len(t) : st[k] = t[e])
    BY <1>4
  <2>3. CASE f = h
    <3>1. K[f] = st /\ K[g] = L[g]
      BY <1>3, <1>c, <2>1, <2>3
    <3> QED BY <1>5, <2>1, <2>2, <2>3, <3>1
  <2>4. CASE g = h
    <3>1. K[g] = st /\ K[f] = L[f] /\ f # h
      BY <1>3, <1>c, <2>1, <2>4
    <3>2. K[f][i] = L[f][i] /\ i \in 1..Len(L[f]) /\ K[g][j] = st[j] /\ j \in 1..Len(st)
      BY <3>1
    <3>3. /\ \A e \in 1..Len(s) : s[e] # L[f][i]
          /\ \A e \in 1..Len(t) : t[e] # L[f][i]
      BY <1>5, <2>1, <3>1, <3>2
    <3> QED BY <2>2, <3>2, <3>3
  <2>5. CASE f # h /\ g # h
    BY <1>3, <1>b, <2>1, <2>5
  <2> QED BY <2>3, <2>4, <2>5
<1>13. allocated' = {m \in Nodes : \E g \in Heads : \E i \in 1..Len(K[g]) : m = K[g][i]}
  <2>1. ASSUME NEW m \in Nodes
        PROVE  (\E g \in Heads : \E i \in 1..Len(L[g]) : m = L[g][i])
                 <=> \E g \in Heads : \E i \in 1..Len(K[g]) : m = K[g][i]
    <3>1. ASSUME NEW g \in Heads, NEW i \in 1..Len(L[g]), m = L[g][i]
          PROVE  \E f \in Heads : \E k \in 1..Len(K[f]) : m = K[f][k]
      <4>1. CASE g = h
        <5>1. i \in 1..Len(K[h]) /\ m = K[h][i]
          BY <1>4, <1>c, <3>1, <4>1
        <5> QED BY <5>1
      <4>2. CASE g = tail
        <5>1. Len(s) + i \in 1..Len(K[h]) /\ m = K[h][Len(s) + i]
          BY <1>4, <1>c, <3>1, <4>2
        <5> QED BY <5>1
      <4>3. CASE g # h /\ g # tail
        BY <1>3, <3>1, <4>3
      <4> QED BY <4>1, <4>2, <4>3
    <3>2. ASSUME NEW g \in Heads, NEW i \in 1..Len(K[g]), m = K[g][i]
          PROVE  \E f \in Heads : \E k \in 1..Len(L[f]) : m = L[f][k]
      <4>1. CASE g = h
        <5>1. i \in 1..Len(st) /\ m = st[i]
          BY <1>c, <3>2, <4>1
        <5>2. (\E k \in 1..Len(s) : m = s[k]) \/ (\E k \in 1..Len(t) : m = t[k])
          BY <1>4, <5>1
        <5> QED BY <1>c, <5>2
      <4>2. CASE g # h
        <5>1. g # tail
          BY <1>c
        <5> QED BY <1>3, <3>2, <4>2, <5>1
      <4> QED BY <4>1, <4>2
    <3> QED BY <3>1, <3>2
  <2>2. allocated = {m \in Nodes : \E g \in Heads : \E i \in 1..Len(L[g]) : m = L[g][i]}
    BY DEF Lists
  <2> QED BY <1>1, <2>1, <2>2
<1>14. Lists(K)'
  BY <1>11, <1>12, <1>13 DEF Lists
<1> QED BY <1>3, <1>6, <1>14 DEF SlistInv

LEMMA SlistStep ==
    ASSUME AppendAnywhere = FALSE, SlistInv, [SlistNext]_slistVars PROVE SlistInv'
<1>1. PICK L \in [Heads -> Seq(Nodes)] : Lists(L)
  BY DEF SlistInv
<1>2. SlistTypeOK
  BY DEF SlistInv
<1>3. CASE \E h \in Heads, n \in Nodes : AddFront(h, n)
  BY <1>1, <1>2, <1>3, FrontAdded
<1>4. CASE \E h \in Heads : RemoveFront(h)
  BY <1>1, <1>2, <1>4, FrontRemoved
<1>5. CASE \E h \in Heads : DestroyList(h)
  BY <1>1, <1>2, <1>5, ListDestroyed
<1>6. CASE \E h, tail \in Heads, n \in Nodes : AppendList(h, n, tail)
  BY <1>1, <1>2, <1>6, ListAppended
<1>7. CASE UNCHANGED slistVars
  <2>1. Lists(L)'
    BY <1>1, <1>7 DEF Lists, Linked, slistVars
  <2>2. SlistTypeOK'
    BY <1>2, <1>7 DEF SlistTypeOK, slistVars
  <2> QED BY <1>1, <2>1, <2>2 DEF SlistInv
<1> QED BY <1>3, <1>4, <1>5, <1>6, <1>7 DEF SlistNext

\* No node of a singly linked list is lost, freed while it is in a list, or in
\* two lists, however many nodes and lists there are, as long as lists are
\* appended to the last node of another one (list.h:13-51).
THEOREM NodesOwnedOnce == AppendAnywhere = FALSE => (SlistSpec => []OwnedOnce)
<1> SUFFICES ASSUME AppendAnywhere = FALSE PROVE SlistSpec => []OwnedOnce
  OBVIOUS
<1>1. SlistInv => OwnedOnce
  <2> SUFFICES ASSUME SlistInv PROVE OwnedOnce
    OBVIOUS
  <2>1. PICK L \in [Heads -> Seq(Nodes)] : Lists(L)
    BY DEF SlistInv
  <2>2. \A h \in Heads : Linked(L[h], heads[h]) /\ Distinct(L[h]) /\ L[h] \in Seq(Nodes)
    BY <2>1 DEF Lists
  <2>3. \A h \in Heads : Ends(heads[h]) /\ Reachable(heads[h]) = {L[h][i] : i \in 1..Len(L[h])}
    BY <2>2, ReachableLinked
  <2>4. allocated = UNION {Reachable(heads[h]) : h \in Heads}
    <3>1. ASSUME NEW n \in allocated PROVE n \in UNION {Reachable(heads[h]) : h \in Heads}
      BY <2>1, <2>3, <3>1 DEF Lists
    <3>2. ASSUME NEW h \in Heads, NEW n \in Reachable(heads[h]) PROVE n \in allocated
      <4>1. PICK i \in 1..Len(L[h]) : n = L[h][i]
        BY <2>3
      <4>2. n \in Nodes
        BY <2>2, <4>1
      <4> QED BY <2>1, <4>1, <4>2 DEF Lists
    <3> QED BY <3>1, <3>2
  <2>5. ASSUME NEW g \in Heads, NEW h \in Heads, g # h
        PROVE  Reachable(heads[g]) \cap Reachable(heads[h]) = {}
    <3>1. \A i \in 1..Len(L[g]), j \in 1..Len(L[h]) : L[g][i] # L[h][j]
      BY <2>1, <2>5 DEF Lists
    <3>2. /\ Reachable(heads[g]) = {L[g][i] : i \in 1..Len(L[g])}
          /\ Reachable(heads[h]) = {L[h][j] : j \in 1..Len(L[h])}
      BY <2>3
    <3>3. ASSUME NEW n, n \in Reachable(heads[g]), n \in Reachable(heads[h]) PROVE FALSE
      <4>1. PICK i \in 1..Len(L[g]) : n = L[g][i]
        BY <3>2, <3>3
      <4>2. PICK j \in 1..Len(L[h]) : n = L[h][j]
        BY <3>2, <3>3
      <4> QED BY <3>1, <4>1, <4>2
    <3> QED BY <3>3
  <2> QED BY <2>3, <2>4, <2>5 DEF OwnedOnce
<1> QED
  BY SlistInitial, SlistStep, <1>1, PTL DEF SlistSpec

-----------------------------------------------------------------------------
(* Doubly linked lists stay linked in both directions                        *)

DlistTypeOK ==
    /\ next \in [Nodes -> Nodes \cup {Null}]
    /\ previous \in [Nodes -> Nodes \cup {Null}]
    /\ head \in Nodes \cup {Null}
    /\ order \in Seq(Nodes)

\* What is inductive: no node is in the program's list twice.
DlistInv == DlistTypeOK /\ Distinct(order) /\ Mirrored

LEMMA ChainedAt ==
    ASSUME NEW s \in Seq(Nodes), NEW h
    PROVE  Chained(s, h) <=>
             /\ Linked(s, h)
             /\ \A i \in 1..Len(s) : previous[s[i]] = IF i = 1 THEN Null ELSE s[i - 1]
<1>1. DOMAIN s = 1..Len(s)
  OBVIOUS
<1> QED BY <1>1 DEF Chained, Linked

LEMMA DlistInitial == DlistInit => DlistInv
BY DEF DlistInit, DlistInv, DlistTypeOK, Distinct, Mirrored

LEMMA FrontLinked ==
    ASSUME DlistInv, NEW n \in Nodes, LinkFront(n)
    PROVE  DlistInv'
<1>0. PICK t : t = <<n>> \o order
  OBVIOUS
<1>1. /\ (order # <<>> => head = order[1]) /\ (order = <<>> => head = Null)
      /\ n \notin ToSet(order)
      /\ next' = [next EXCEPT ![n] = head]
      /\ previous' = [m \in Nodes |-> IF m = n THEN Null
                                      ELSE IF m = head THEN n ELSE previous[m]]
      /\ head' = n /\ order' = t
  BY <1>0 DEF LinkFront
<1>2. order \in Seq(Nodes) /\ Distinct(order) /\ (order # <<>> => Chained(order, head))
  BY DEF DlistInv, DlistTypeOK, Mirrored
<1>3. /\ t \in Seq(Nodes) /\ Len(t) = Len(order) + 1 /\ Len(order) \in Nat
      /\ t # <<>> /\ t[1] = n /\ \A i \in 2..(Len(order) + 1) : t[i] = order[i - 1]
  BY <1>0, <1>2, Prepended
<1>4. \A i \in 1..Len(order) : order[i] \in Nodes /\ order[i] # n
  <2>1. DOMAIN order = 1..Len(order)
    BY <1>2
  <2> QED BY <1>1, <1>2, <2>1 DEF ToSet
<1>5. \A i \in 1..Len(t) : i = 1 \/ (i \in 2..(Len(order) + 1) /\ i - 1 \in 1..Len(order))
  BY <1>3
<1>6. DlistTypeOK'
  <2>1. head \in Nodes \cup {Null} /\ next \in [Nodes -> Nodes \cup {Null}]
        /\ previous \in [Nodes -> Nodes \cup {Null}]
    BY DEF DlistInv, DlistTypeOK
  <2> QED BY <1>1, <1>3, <2>1 DEF DlistTypeOK
<1>7. Distinct(t)
  <2> SUFFICES ASSUME NEW i \in 1..Len(t), NEW j \in 1..Len(t), t[i] = t[j] PROVE i = j
    BY DEF Distinct
  <2>1. \A k \in 1..Len(t) : k # 1 => t[k] # n /\ t[k] = order[k - 1] /\ k - 1 \in 1..Len(order)
    BY <1>3, <1>4, <1>5
  <2>2. CASE i = 1 \/ j = 1
    BY <1>3, <2>1, <2>2
  <2>3. CASE i # 1 /\ j # 1
    <3>1. i - 1 = j - 1
      BY <1>2, <2>1, <2>3 DEF Distinct
    <3> QED BY <3>1
  <2> QED BY <2>2, <2>3
<1>8. /\ next'[n] = head /\ \A m \in Nodes : m # n => next'[m] = next[m]
      /\ previous'[n] = Null
      /\ \A m \in Nodes : m # n => previous'[m] = IF m = head THEN n ELSE previous[m]
  BY <1>1 DEF DlistInv, DlistTypeOK
<1>9. order # <<>> =>
        /\ \A i \in 1..Len(order) : next[order[i]] = IF i = Len(order) THEN Null ELSE order[i + 1]
        /\ \A i \in 1..Len(order) : previous[order[i]] = IF i = 1 THEN Null ELSE order[i - 1]
  BY <1>2, ChainedAt DEF Linked
<1>10. order = <<>> <=> Len(order) = 0
  BY <1>2, NoNodes
<1>11. Chained(t, n)'
  <2>1. ASSUME NEW i \in 1..Len(t)
        PROVE  /\ next'[t[i]] = IF i = Len(t) THEN Null ELSE t[i + 1]
               /\ previous'[t[i]] = IF i = 1 THEN Null ELSE t[i - 1]
    <3>1. CASE i = 1
      <4>1. next'[n] = IF 1 = Len(t) THEN Null ELSE t[2]
        <5>1. Len(order) # 0 => 2 \in 2..(Len(order) + 1) /\ t[2] = order[1]
          BY <1>3
        <5> QED BY <1>1, <1>3, <1>8, <1>10, <5>1
      <4> QED BY <1>3, <1>8, <3>1, <4>1
    <3>2. CASE i # 1
      <4> DEFINE j == i - 1
      <4>1. /\ j \in 1..Len(order) /\ t[i] = order[j] /\ i = j + 1 /\ order[j] \in Nodes
            /\ order[j] # n /\ order # <<>>
        BY <1>3, <1>4, <1>5, <1>10, <3>2
      <4>2. /\ next[order[j]] = IF j = Len(order) THEN Null ELSE order[j + 1]
            /\ previous[order[j]] = IF j = 1 THEN Null ELSE order[j - 1]
        BY <1>9, <4>1
      <4>3. j # Len(order) => i + 1 \in 2..(Len(order) + 1) /\ t[i + 1] = order[j + 1]
        <5>1. j # Len(order) => i + 1 \in 2..(Len(order) + 1) /\ (i + 1) - 1 = j + 1
          BY <1>3, <4>1
        <5> QED BY <1>3, <5>1
      <4>4. j = Len(order) <=> i = Len(t)
        BY <1>3, <4>1
      <4>5. next'[t[i]] = IF i = Len(t) THEN Null ELSE t[i + 1]
        <5>1. next'[t[i]] = next[order[j]]
          BY <1>8, <4>1
        <5> HIDE DEF j
        <5> QED BY <4>2, <4>3, <4>4, <5>1
      <4>6. previous'[t[i]] = t[i - 1]
        <5>1. CASE j = 1
          <6>1. order[j] = head
            BY <1>1, <4>1, <5>1
          <6>2. previous'[t[i]] = n
            BY <1>8, <4>1, <6>1
          <6>3. i - 1 = 1
            BY <5>1
          <6> QED BY <1>3, <6>2, <6>3
        <5>2. CASE j # 1
          <6>1. 1 \in 1..Len(order)
            BY <1>3, <4>1
          <6>2. order[j] # order[1]
            BY <1>2, <4>1, <5>2, <6>1 DEF Distinct
          <6>3. order[j] # head
            BY <1>1, <4>1, <6>2
          <6>4. previous'[t[i]] = previous[order[j]]
            BY <1>8, <4>1, <6>3
          <6>5. i - 1 \in 2..(Len(order) + 1) /\ (i - 1) - 1 = j - 1
            BY <1>3, <4>1, <5>2
          <6>6. t[i - 1] = order[j - 1]
            BY <1>3, <6>5
          <6> HIDE DEF j
          <6> QED BY <4>2, <5>2, <6>4, <6>6
        <5> QED BY <5>1, <5>2
      <4> QED BY <3>2, <4>5, <4>6
    <3> QED BY <3>1, <3>2
  <2>2. DOMAIN t = 1..Len(t)
    BY <1>3
  <2> QED BY <1>3, <2>1, <2>2 DEF Chained
<1>12. Mirrored' /\ Distinct(order)'
  BY <1>1, <1>7, <1>11 DEF Mirrored, Chained, Distinct
<1> QED BY <1>6, <1>12 DEF DlistInv

LEMMA ListReversed ==
    ASSUME DlistInv, ReverseList
    PROVE  DlistInv'
<1>0. PICK s, rs, z : s = order /\ rs = Reverse(s) /\ z = s[Len(s)]
  OBVIOUS
<1>1. /\ s \in Seq(Nodes) /\ Distinct(s) /\ s # <<>> /\ Chained(s, head) /\ Len(s) \in Nat
      /\ Linked(s, head)
  BY <1>0, ChainedAt DEF DlistInv, DlistTypeOK, Mirrored, ReverseList
<1>2. Len(s) \in 1..Len(s) /\ Len(s) # 0
  <2>1. Len(s) # 0
    BY <1>1, NoNodes
  <2> QED BY <1>1, <2>1
<1>3. rs \in Seq(Nodes) /\ Len(rs) = Len(s) /\ \A i \in 1..Len(s) : rs[i] = s[(Len(s) - i) + 1]
  <2>1. \A i \in 1..Len(s) : (Len(s) - i) + 1 \in 1..Len(s)
    BY <1>1
  <2>2. \A i \in 1..Len(s) : s[(Len(s) - i) + 1] \in Nodes
    BY <1>1, <2>1
  <2>3. rs = [i \in 1..Len(s) |-> s[(Len(s) - i) + 1]]
    BY <1>0 DEF Reverse
  <2>4. rs \in [1..Len(s) -> Nodes]
    BY <2>2, <2>3
  <2>5. rs \in Seq(Nodes)
    BY <1>1, <2>4
  <2>6. Len(rs) = Len(s)
    BY <1>1, <2>4, <2>5
  <2> QED BY <2>3, <2>5, <2>6
<1>4. Reachable(head) = {s[i] : i \in 1..Len(s)}
  BY <1>1, ReachableLinked
<1>5. \A i \in 1..Len(s) : s[i] \in Nodes
  BY <1>1
<1>6. /\ \A i \in 1..Len(s) : next[s[i]] = IF i = Len(s) THEN Null ELSE s[i + 1]
      /\ \A i \in 1..Len(s) : previous[s[i]] = IF i = 1 THEN Null ELSE s[i - 1]
  BY <1>1, ChainedAt DEF Linked
<1>7. LastNode(head) = s[Len(s)]
  <2>1. ASSUME NEW n \in Reachable(head), next[n] = Null PROVE n = s[Len(s)]
    <3>1. PICK i \in 1..Len(s) : n = s[i]
      BY <1>4
    <3>2. i # Len(s) => i + 1 \in 1..Len(s)
      BY <1>1
    <3>3. i # Len(s) => s[i + 1] # Null
      BY <1>5, <3>2, NullNoNode
    <3> QED BY <1>6, <2>1, <3>1, <3>3
  <2>2. s[Len(s)] \in Reachable(head) /\ next[s[Len(s)]] = Null
    BY <1>2, <1>4, <1>6
  <2>3. head # Null
    <3>1. 1 \in 1..Len(s) /\ head = s[1]
      BY <1>1, <1>2 DEF Chained
    <3> QED BY <1>5, <3>1, NullNoNode
  <2> QED BY <2>1, <2>2, <2>3 DEF LastNode
<1>8. /\ next' = [n \in Nodes |-> IF n \in Reachable(head) THEN previous[n] ELSE next[n]]
      /\ previous' = [n \in Nodes |-> IF n \in Reachable(head) THEN next[n] ELSE previous[n]]
      /\ head' = z /\ order' = rs
  BY <1>0, <1>7 DEF ReverseList, Turned
<1>9. DlistTypeOK'
  <2>1. z \in Nodes
    BY <1>0, <1>2, <1>5
  <2>2. /\ next \in [Nodes -> Nodes \cup {Null}] /\ previous \in [Nodes -> Nodes \cup {Null}]
    BY DEF DlistInv, DlistTypeOK
  <2> QED BY <1>3, <1>8, <2>1, <2>2 DEF DlistTypeOK
<1>10. Distinct(rs)
  <2> SUFFICES ASSUME NEW i \in 1..Len(rs), NEW j \in 1..Len(rs), rs[i] = rs[j] PROVE i = j
    BY DEF Distinct
  <2>1. (Len(s) - i) + 1 \in 1..Len(s) /\ (Len(s) - j) + 1 \in 1..Len(s)
    BY <1>1, <1>3
  <2>2. (Len(s) - i) + 1 = (Len(s) - j) + 1
    BY <1>1, <1>3, <2>1 DEF Distinct
  <2>3. i \in Int /\ j \in Int /\ Len(s) \in Int
    BY <1>1, <1>3
  <2> QED BY <2>2, <2>3
<1>11. ASSUME NEW i \in 1..Len(rs)
       PROVE  /\ next'[rs[i]] = IF i = Len(rs) THEN Null ELSE rs[i + 1]
              /\ previous'[rs[i]] = IF i = 1 THEN Null ELSE rs[i - 1]
  <2> DEFINE j == (Len(s) - i) + 1
  <2>1. /\ j \in 1..Len(s) /\ rs[i] = s[j] /\ s[j] \in Nodes /\ s[j] \in Reachable(head)
    <3>1. j \in 1..Len(s)
      BY <1>1, <1>3
    <3> QED BY <1>3, <1>4, <1>5, <3>1
  <2>2. next'[rs[i]] = (IF j = 1 THEN Null ELSE s[j - 1]) /\
        previous'[rs[i]] = IF j = Len(s) THEN Null ELSE s[j + 1]
    <3>1. next'[rs[i]] = previous[s[j]] /\ previous'[rs[i]] = next[s[j]]
      BY <1>8, <2>1
    <3> HIDE DEF j
    <3> QED BY <1>6, <2>1, <3>1
  <2>3. (j = 1 <=> i = Len(rs)) /\ (j = Len(s) <=> i = 1)
    BY <1>1, <1>3
  <2>4. i # Len(rs) => rs[i + 1] = s[j - 1]
    <3>1. i # Len(rs) => i + 1 \in 1..Len(s) /\ (Len(s) - (i + 1)) + 1 = j - 1
      BY <1>1, <1>3
    <3> QED BY <1>3, <3>1
  <2>5. i # 1 => rs[i - 1] = s[j + 1]
    <3>1. i # 1 => i - 1 \in 1..Len(s) /\ (Len(s) - (i - 1)) + 1 = j + 1
      BY <1>1, <1>3
    <3> QED BY <1>3, <3>1
  <2> HIDE DEF j
  <2> QED BY <2>2, <2>3, <2>4, <2>5
<1>12. z = IF rs = <<>> THEN Null ELSE rs[1]
  <2>1. rs # <<>>
    BY <1>2, <1>3, NoNodes
  <2>2. 1 \in 1..Len(s) /\ (Len(s) - 1) + 1 = Len(s)
    BY <1>1, <1>2
  <2> QED BY <1>0, <1>3, <2>1, <2>2
<1>13. Chained(rs, z)'
  <2>1. DOMAIN rs = 1..Len(rs)
    BY <1>3
  <2> QED BY <1>11, <1>12, <2>1 DEF Chained
<1> QED BY <1>8, <1>9, <1>10, <1>13 DEF DlistInv, Mirrored, Chained, Distinct

LEMMA FirstRemoved ==
    ASSUME NEW s \in Seq(Nodes), Distinct(s), NEW k \in 1..Len(s)
    PROVE  /\ RemoveFirst(s, s[k]) \in Seq(Nodes)
           /\ Len(s) \in Nat /\ Len(RemoveFirst(s, s[k])) = Len(s) - 1
           /\ \A i \in 1..(Len(s) - 1) :
                RemoveFirst(s, s[k])[i] = s[IF i < k THEN i ELSE i + 1]
<1> DEFINE Places == {i \in 1..Len(s) : s[i] = s[k]}
<1>1. Places = {k}
  BY DEF Distinct
<1>2. SelectInSeq(s, LAMBDA v : v = s[k]) = k
  <2>1. SelectInSeq(s, LAMBDA v : v = s[k]) = IF Places # {} THEN Min(Places) ELSE 0
    BY DEF SelectInSeq
  <2>2. Min({k}) = k
    BY DEF Min
  <2> HIDE DEF Places
  <2> QED BY <1>1, <2>1, <2>2
<1>3. RemoveFirst(s, s[k]) = SubSeq(s, 1, k - 1) \o SubSeq(s, k + 1, Len(s))
  <2>1. \E i \in 1..Len(s) : s[i] = s[k]
    OBVIOUS
  <2> QED BY <1>2, <2>1 DEF RemoveFirst, RemoveAt
<1>4. Len(s) \in Nat
  OBVIOUS
<1>5. PICK a : a = SubSeq(s, 1, k - 1)
  OBVIOUS
<1>6. PICK b : b = SubSeq(s, k + 1, Len(s))
  OBVIOUS
<1>7. a \in Seq(Nodes) /\ Len(a) = k - 1 /\ \A i \in 1..(k - 1) : a[i] = s[i]
  BY <1>4, <1>5
<1>8. b \in Seq(Nodes) /\ Len(b) = Len(s) - k /\ \A i \in 1..(Len(s) - k) : b[i] = s[k + i]
  BY <1>4, <1>6
<1>9. /\ a \o b \in Seq(Nodes) /\ Len(a \o b) = (k - 1) + (Len(s) - k)
      /\ \A i \in 1..(k - 1) : (a \o b)[i] = a[i]
      /\ \A i \in 1..(Len(s) - k) : (a \o b)[(k - 1) + i] = b[i]
  <2>1. /\ a \o b \in Seq(Nodes) /\ Len(a \o b) = Len(a) + Len(b)
        /\ \A i \in 1..Len(a) : (a \o b)[i] = a[i]
        /\ \A i \in 1..Len(b) : (a \o b)[Len(a) + i] = b[i]
    BY <1>7, <1>8, Concatenated
  <2> QED BY <1>7, <1>8, <2>1
<1>10. ASSUME NEW i \in 1..(Len(s) - 1)
       PROVE  (a \o b)[i] = s[IF i < k THEN i ELSE i + 1]
  <2>1. CASE i < k
    <3>1. i \in 1..(k - 1)
      BY <2>1
    <3> QED BY <1>7, <1>9, <2>1, <3>1
  <2>2. CASE ~(i < k)
    <3>1. PICK j \in 1..(Len(s) - k) : i = (k - 1) + j /\ k + j = i + 1
      <4>1. i - (k - 1) \in 1..(Len(s) - k) /\ i = (k - 1) + (i - (k - 1))
            /\ k + (i - (k - 1)) = i + 1
        BY <1>4, <2>2
      <4> QED BY <4>1
    <3>2. (a \o b)[i] = b[j] /\ b[j] = s[k + j]
      BY <1>8, <1>9, <3>1
    <3> QED BY <2>2, <3>1, <3>2
  <2> QED BY <2>1, <2>2
<1>11. Len(a \o b) = Len(s) - 1
  <2>1. (k - 1) + (Len(s) - k) = Len(s) - 1
    BY <1>4
  <2> QED BY <1>9, <2>1
<1> QED BY <1>3, <1>4, <1>5, <1>6, <1>9, <1>10, <1>11

LEMMA NodeUnlinked ==
    ASSUME DlistInv, UnlinkTwice = FALSE, NEW n \in Nodes, Unlink(n)
    PROVE  DlistInv'
<1>0. PICK s, rs : s = order /\ rs = RemoveFirst(s, n)
  OBVIOUS
<1>1. /\ s \in Seq(Nodes) /\ Distinct(s) /\ n \in ToSet(s)
  BY <1>0 DEF DlistInv, DlistTypeOK, Unlink
<1>2. PICK k \in 1..Len(s) : n = s[k]
  <2>1. DOMAIN s = 1..Len(s)
    BY <1>1
  <2> QED BY <1>1, <2>1 DEF ToSet
<1>3. PICK before, after, top :
        /\ before = previous[n] /\ after = next[n]
        /\ top = IF before = Null THEN after ELSE head
  OBVIOUS
<1>4. /\ next' = [m \in Nodes |-> IF m = before THEN after ELSE next[m]]
      /\ previous' = [m \in Nodes |-> IF m = after THEN before ELSE previous[m]]
      /\ head' = top /\ order' = rs
  BY <1>0, <1>3 DEF Unlink
<1>5. /\ rs \in Seq(Nodes) /\ Len(s) \in Nat /\ Len(rs) = Len(s) - 1
      /\ \A i \in 1..Len(rs) : rs[i] = s[IF i < k THEN i ELSE i + 1]
  <2>1. /\ RemoveFirst(s, s[k]) \in Seq(Nodes)
        /\ Len(s) \in Nat /\ Len(RemoveFirst(s, s[k])) = Len(s) - 1
        /\ \A i \in 1..(Len(s) - 1) :
             RemoveFirst(s, s[k])[i] = s[IF i < k THEN i ELSE i + 1]
    BY <1>1, FirstRemoved
  <2> QED BY <1>0, <1>2, <2>1
<1>6. s # <<>> /\ Chained(s, head)
  <2>1. Len(s) # 0
    BY <1>2, <1>5
  <2>2. s # <<>>
    BY <1>1, <2>1, NoNodes
  <2> QED BY <1>0, <2>2 DEF DlistInv, Mirrored
<1>7. /\ head = s[1]
      /\ \A i \in 1..Len(s) : s[i] \in Nodes
      /\ \A i \in 1..Len(s) : next[s[i]] = IF i = Len(s) THEN Null ELSE s[i + 1]
      /\ \A i \in 1..Len(s) : previous[s[i]] = IF i = 1 THEN Null ELSE s[i - 1]
  BY <1>1, <1>6, ChainedAt DEF Linked
<1>8. /\ before = (IF k = 1 THEN Null ELSE s[k - 1])
      /\ after = (IF k = Len(s) THEN Null ELSE s[k + 1])
  BY <1>2, <1>3, <1>7
<1>9. DlistTypeOK'
  <2>1. /\ next \in [Nodes -> Nodes \cup {Null}] /\ previous \in [Nodes -> Nodes \cup {Null}]
        /\ head \in Nodes \cup {Null}
    BY DEF DlistInv, DlistTypeOK
  <2>2. before \in Nodes \cup {Null} /\ after \in Nodes \cup {Null}
    BY <1>3, <2>1
  <2>3. top \in Nodes \cup {Null}
    BY <1>3, <2>1, <2>2
  <2>4. /\ next' \in [Nodes -> Nodes \cup {Null}] /\ previous' \in [Nodes -> Nodes \cup {Null}]
    BY <1>4, <2>1, <2>2
  <2> QED BY <1>4, <1>5, <2>3, <2>4 DEF DlistTypeOK
<1>10. Distinct(rs)
  <2> SUFFICES ASSUME NEW i \in 1..Len(rs), NEW j \in 1..Len(rs), rs[i] = rs[j] PROVE i = j
    BY DEF Distinct
  <2> DEFINE p == IF i < k THEN i ELSE i + 1
             q == IF j < k THEN j ELSE j + 1
  <2>1. p \in 1..Len(s) /\ q \in 1..Len(s)
    BY <1>5
  <2>2. s[p] = s[q]
    BY <1>5
  <2>3. p = q
    <3> HIDE DEF p, q
    <3> QED BY <1>1, <2>1, <2>2 DEF Distinct
  <2> QED BY <1>5, <2>3
<1>11. ASSUME NEW i \in 1..Len(rs)
       PROVE  /\ next'[rs[i]] = IF i = Len(rs) THEN Null ELSE rs[i + 1]
              /\ previous'[rs[i]] = IF i = 1 THEN Null ELSE rs[i - 1]
  <2>1. PICK p \in 1..Len(s) : p = (IF i < k THEN i ELSE i + 1) /\ rs[i] = s[p]
    <3>1. (IF i < k THEN i ELSE i + 1) \in 1..Len(s)
      BY <1>5
    <3> QED BY <1>5, <3>1
  <2>2. s[p] = before <=> k # 1 /\ p = k - 1
    <3>1. k # 1 => k - 1 \in 1..Len(s)
      BY <1>5
    <3>2. s[p] \in Nodes
      BY <1>7
    <3> QED BY <1>1, <1>8, <3>1, <3>2, NullNoNode DEF Distinct
  <2>3. s[p] = after <=> k # Len(s) /\ p = k + 1
    <3>1. k # Len(s) => k + 1 \in 1..Len(s)
      BY <1>2, <1>5
    <3>2. s[p] \in Nodes
      BY <1>7
    <3>3. CASE k = Len(s)
      BY <1>8, <3>2, <3>3, NullNoNode
    <3>4. CASE k # Len(s)
      <4>1. after = s[k + 1] /\ k + 1 \in 1..Len(s)
        BY <1>8, <3>1, <3>4
      <4> QED BY <1>1, <3>4, <4>1 DEF Distinct
    <3> QED BY <3>3, <3>4
  <2>4. /\ next'[rs[i]] = IF s[p] = before THEN after ELSE next[s[p]]
        /\ previous'[rs[i]] = IF s[p] = after THEN before ELSE previous[s[p]]
    BY <1>4, <1>7, <2>1
  <2>5. next'[rs[i]] = IF i = Len(rs) THEN Null ELSE rs[i + 1]
    <3>1. i # Len(rs) => i + 1 \in 1..Len(rs)
      BY <1>5
    <3>2. i # Len(rs) => rs[i + 1] = s[IF i + 1 < k THEN i + 1 ELSE (i + 1) + 1]
      BY <1>5, <3>1
    <3>3. next[s[p]] = IF p = Len(s) THEN Null ELSE s[p + 1]
      BY <1>7
    <3>4. CASE k # 1 /\ p = k - 1
      <4>1. i = k - 1 /\ i + 1 = k
        BY <2>1, <3>4
      <4>2. i = Len(rs) <=> k = Len(s)
        BY <1>5, <4>1
      <4>3. i # Len(rs) => rs[i + 1] = s[k + 1]
        BY <3>2, <4>1
      <4> QED BY <1>8, <2>2, <2>4, <3>4, <4>2, <4>3
    <3>5. CASE ~(k # 1 /\ p = k - 1)
      <4>1. next'[rs[i]] = next[s[p]]
        BY <2>2, <2>4, <3>5
      <4>2. (IF i + 1 < k THEN i + 1 ELSE (i + 1) + 1) = p + 1
        BY <2>1, <3>5
      <4>3. i = Len(rs) <=> p = Len(s)
        BY <1>5, <2>1, <3>5
      <4> QED BY <3>2, <3>3, <4>1, <4>2, <4>3
    <3> QED BY <3>4, <3>5
  <2>6. previous'[rs[i]] = IF i = 1 THEN Null ELSE rs[i - 1]
    <3>1. i # 1 => i - 1 \in 1..Len(rs)
      BY <1>5
    <3>2. i # 1 => rs[i - 1] = s[IF i - 1 < k THEN i - 1 ELSE (i - 1) + 1]
      BY <1>5, <3>1
    <3>3. previous[s[p]] = IF p = 1 THEN Null ELSE s[p - 1]
      BY <1>7
    <3>4. CASE k # Len(s) /\ p = k + 1
      <4>1. i = k
        BY <2>1, <3>4
      <4>2. i # 1 => rs[i - 1] = s[k - 1]
        BY <3>2, <4>1
      <4> QED BY <1>8, <2>3, <2>4, <3>4, <4>1, <4>2
    <3>5. CASE ~(k # Len(s) /\ p = k + 1)
      <4>1. previous'[rs[i]] = previous[s[p]]
        BY <2>3, <2>4, <3>5
      <4>2. i < k \/ k < i
        BY <1>5, <2>1, <3>5
      <4>3. i # 1 => (IF i - 1 < k THEN i - 1 ELSE (i - 1) + 1) = p - 1
        BY <2>1, <3>5, <4>2
      <4>4. i = 1 <=> p = 1
        BY <2>1, <4>2
      <4> QED BY <3>2, <3>3, <4>1, <4>3, <4>4
    <3> QED BY <3>4, <3>5
  <2> QED BY <2>5, <2>6
<1>12. rs # <<>> => top = rs[1]
  <2> SUFFICES ASSUME rs # <<>> PROVE top = rs[1]
    OBVIOUS
  <2>1. 1 \in 1..Len(rs)
    BY <1>5, NoNodes
  <2>2. rs[1] = s[IF 1 < k THEN 1 ELSE 2]
    <3>1. rs[1] = s[IF 1 < k THEN 1 ELSE 1 + 1]
      BY <1>5, <2>1
    <3> QED BY <3>1
  <2>3. CASE k = 1
    <3>1. k # Len(s)
      BY <1>5, <2>1, <2>3
    <3> QED BY <1>3, <1>8, <2>2, <2>3, <3>1
  <2>4. CASE k # 1
    <3>1. k - 1 \in 1..Len(s) /\ 1 < k
      BY <1>5, <2>4
    <3>2. before # Null
      BY <1>7, <1>8, <2>4, <3>1, NullNoNode
    <3> QED BY <1>3, <1>7, <2>2, <3>1, <3>2
  <2> QED BY <2>3, <2>4
<1>13. rs # <<>> => Chained(rs, top)'
  <2>1. DOMAIN rs = 1..Len(rs)
    BY <1>5
  <2> QED BY <1>11, <1>12, <2>1 DEF Chained
<1> QED BY <1>4, <1>9, <1>10, <1>13 DEF DlistInv, Mirrored, Chained, Distinct

LEMMA DlistStep ==
    ASSUME UnlinkTwice = FALSE, DlistInv, [DlistNext]_dlistVars PROVE DlistInv'
<1>1. CASE \E n \in Nodes : LinkFront(n)
  BY <1>1, FrontLinked
<1>2. CASE \E n \in Nodes : Unlink(n)
  BY <1>2, NodeUnlinked
<1>3. CASE Begin
  BY <1>3 DEF Begin, DlistInv, DlistTypeOK, Distinct, Mirrored
<1>4. CASE ReverseList
  BY <1>4, ListReversed
<1>5. CASE Validate \/ UNCHANGED dlistVars
  <2>1. UNCHANGED <<next, previous, head, order>>
    BY <1>5 DEF Validate, dlistVars
  <2> QED BY <2>1 DEF DlistInv, DlistTypeOK, Distinct, Mirrored, Chained
<1> QED BY <1>1, <1>2, <1>3, <1>4, <1>5 DEF DlistNext

\* A list that is built, reversed and unlinked from stays linked in both
\* directions, in the order the program counts on, however many nodes there
\* are, as long as only nodes of the list are unlinked (list.h:57-116).
THEOREM ListMirrored == UnlinkTwice = FALSE => (DlistSpec => []Mirrored)
<1> SUFFICES ASSUME UnlinkTwice = FALSE PROVE DlistSpec => []Mirrored
  OBVIOUS
<1>1. DlistInv => Mirrored
  BY DEF DlistInv
<1> QED
  BY DlistInitial, DlistStep, <1>1, PTL DEF DlistSpec

-----------------------------------------------------------------------------
(* validate reports exactly the lists whose links are wrong                  *)

LinksOK ==
    /\ next \in [Nodes -> Nodes \cup {Null}]
    /\ previous \in [Nodes -> Nodes \cup {Null}]

LEMMA AfterNode ==
    ASSUME LinksOK, NEW h \in Nodes \cup {Null}
    PROVE  \A i \in Nat : After(h, i) \in Nodes \cup {Null}
<1> DEFINE Wrong == {i \in Nat : After(h, i) \notin Nodes \cup {Null}}
<1> SUFFICES ASSUME Wrong # {} PROVE FALSE
  OBVIOUS
<1>1. PICK i \in Wrong : \A k \in Wrong : i <= k
  <2>1. Wrong \subseteq Nat
    OBVIOUS
  <2> HIDE DEF Wrong
  <2> QED BY <2>1, LeastNumber
<1>2. i # 0
  BY <1>1, AfterStep
<1>3. PICK k \in Nat : i = k + 1
  BY <1>1, <1>2
<1>4. After(h, k) \in Nodes \cup {Null}
  BY <1>1, <1>3
<1>5. After(h, i) = Follow(After(h, k))
  BY <1>3, AfterStep
<1> QED BY <1>1, <1>4, <1>5 DEF Follow, LinksOK

\* A list that ends has a first place without a node.
LEMMA EndOfList ==
    ASSUME NEW h, Ends(h)
    PROVE  \E m \in 0..Cardinality(Nodes) :
             /\ After(h, m) = Null
             /\ \A i \in Nat : i < m => After(h, i) # Null
<1> DEFINE Empty == {i \in Nat : After(h, i) = Null}
<1>1. Cardinality(Nodes) \in Nat
  BY ListAssumption, FS_CardinalityType
<1>2. Cardinality(Nodes) \in Empty /\ Empty \subseteq Nat
  BY <1>1 DEF Ends
<1>3. PICK m \in Empty : \A i \in Empty : m <= i
  <2> HIDE DEF Empty
  <2> QED BY <1>2, LeastNumber
<1>4. m \in 0..Cardinality(Nodes)
  BY <1>1, <1>2, <1>3
<1> QED BY <1>3, <1>4

LEMMA LastNodeTyped ==
    ASSUME LinksOK, NEW h \in Nodes \cup {Null}, Ends(h)
    PROVE  LastNode(h) \in Nodes \cup {Null}
<1>1. CASE h = Null
  BY <1>1 DEF LastNode
<1>2. CASE h # Null
  <2>1. PICK m \in 0..Cardinality(Nodes) :
             /\ After(h, m) = Null
             /\ \A i \in Nat : i < m => After(h, i) # Null
    BY EndOfList
  <2>2. Cardinality(Nodes) \in Nat
    BY ListAssumption, FS_CardinalityType
  <2>3. m # 0
    BY <1>2, <2>1, AfterStep
  <2>4. PICK k \in Nat : m = k + 1 /\ k < m /\ k \in 0..Cardinality(Nodes)
    BY <2>2, <2>3
  <2>5. After(h, k) # Null /\ next[After(h, k)] = Null
    BY <2>1, <2>4, AfterStep DEF Follow
  <2>6. After(h, k) \in Reachable(h)
    BY <2>4, <2>5 DEF Reachable
  <2>7. LastNode(h) \in Reachable(h)
    BY <1>2, <2>5, <2>6 DEF LastNode
  <2>8. PICK i \in 0..Cardinality(Nodes) : LastNode(h) = After(h, i)
    BY <2>7 DEF Reachable
  <2>9. i \in Nat
    BY <2>2
  <2> QED BY <2>8, <2>9, AfterNode
<1> QED BY <1>1, <1>2

Before(h, i) == IF i = 0 THEN Null ELSE After(h, i - 1)

\* the places at which validate finds something wrong
WrongPlaces(h) ==
    {i \in 0..Cardinality(Nodes) :
       /\ After(h, i) # Null
       /\ LinkError(After(h, i), Before(h, i)) \/ Lonely(After(h, i))}

LEMMA ValidatedOk ==
    ASSUME NEW h
    PROVE  Validated(h) = "ok" <=> WrongPlaces(h) = {} /\ Ends(h)
<1> DEFINE first == CHOOSE i \in WrongPlaces(h) : \A j \in WrongPlaces(h) : i <= j
<1>1. Validated(h) =
        IF WrongPlaces(h) = {} THEN IF Ends(h) THEN "ok" ELSE "endless"
        ELSE IF LinkError(After(h, first), Before(h, first)) THEN "link" ELSE "circular"
  BY DEF Validated, WrongPlaces, Before
<1> HIDE DEF first
<1> QED BY <1>1

LEMMA PermutationSeq ==
    ASSUME NEW s \in SetToAllKPermutations(Nodes)
    PROVE  s \in Seq(Nodes) /\ Distinct(s)
<1>1. PICK S \in SUBSET Nodes : s \in SetToSeqs(S)
  BY DEF SetToAllKPermutations
<1>2. PICK k \in Nat : k = Cardinality(S)
  BY ListAssumption, FS_Subset, FS_CardinalityType
<1>3. s \in [1..k -> S] /\ \A i, j \in 1..k : i # j => s[i] # s[j]
  BY <1>1, <1>2 DEF SetToSeqs
<1>4. s \in Seq(Nodes)
  <2>1. s \in [1..k -> Nodes]
    BY <1>3
  <2> QED BY <1>2, <2>1
<1>5. Len(s) = k
  BY <1>2, <1>3, <1>4
<1> QED BY <1>3, <1>4, <1>5 DEF Distinct

LEMMA SeqPermutation ==
    ASSUME NEW s \in Seq(Nodes), Distinct(s)
    PROVE  s \in SetToAllKPermutations(Nodes)
<1> DEFINE S == {s[i] : i \in 1..Len(s)}
<1>1. S \subseteq Nodes /\ Len(s) \in Nat
  OBVIOUS
<1>2. s \in [1..Len(s) -> S]
  <2>1. s \in [1..Len(s) -> Nodes]
    OBVIOUS
  <2> QED BY <2>1
<1>3. \A x \in S : \E i \in 1..Len(s) : s[i] = x
  OBVIOUS
<1> HIDE DEF S
<1>4. s \in Bijection(1..Len(s), S)
  BY <1>2, <1>3 DEF Bijection, Injection, Surjection, IsInjective, Distinct
<1>5. IsFiniteSet(1..Len(s)) /\ Cardinality(1..Len(s)) = Len(s)
  BY <1>1, FS_Interval
<1>6. Cardinality(S) = Len(s)
  BY <1>4, <1>5, FS_Bijection DEF ExistsBijection
<1>7. s \in SetToSeqs(S)
  BY <1>2, <1>6 DEF SetToSeqs, Distinct
<1> QED BY <1>1, <1>7 DEF SetToAllKPermutations

\* Links that lead on and back again at every place do not meet a node twice.
LEMMA BackLinksDistinct ==
    ASSUME NEW s \in Seq(Nodes),
           \A i \in 1..Len(s) : previous[s[i]] = IF i = 1 THEN Null ELSE s[i - 1]
    PROVE  Distinct(s)
<1> DEFINE Twice == {i \in 1..Len(s) : \E j \in 1..Len(s) : i < j /\ s[i] = s[j]}
<1>a. Len(s) \in Nat /\ \A i \in 1..Len(s) : s[i] \in Nodes
  OBVIOUS
<1>1. Twice = {}
  <2> SUFFICES ASSUME Twice # {} PROVE FALSE
    OBVIOUS
  <2>1. PICK i \in Twice : \A k \in Twice : i <= k
    <3>1. Twice \subseteq Nat
      OBVIOUS
    <3> HIDE DEF Twice
    <3> QED BY <3>1, LeastNumber
  <2>2. PICK j \in 1..Len(s) : i < j /\ s[i] = s[j]
    BY <2>1
  <2>3. j # 1 /\ j - 1 \in 1..Len(s) /\ i \in 1..Len(s)
    BY <1>a, <2>1, <2>2
  <2>4. previous[s[j]] = s[j - 1] /\ s[j - 1] \in Nodes
    BY <1>a, <2>3
  <2>5. i # 1
    BY <2>2, <2>3, <2>4, NullNoNode
  <2>6. i - 1 \in 1..Len(s) /\ i - 1 < j - 1 /\ s[i - 1] = s[j - 1]
    BY <1>a, <2>2, <2>3, <2>4, <2>5
  <2>7. i - 1 \in Twice
    BY <2>3, <2>6
  <2>8. ~(i <= i - 1)
    BY <2>3
  <2> QED BY <2>1, <2>7, <2>8
<1>2. ASSUME NEW i \in 1..Len(s), NEW j \in 1..Len(s), s[i] = s[j] PROVE i = j
  <2>1. ~(i < j)
    BY <1>1, <1>2
  <2>2. ~(j < i)
    BY <1>1, <1>2
  <2>3. i \in Int /\ j \in Int
    BY <1>a
  <2> QED BY <2>1, <2>2, <2>3
<1> QED BY <1>2 DEF Distinct

LEMMA ValidatedExact ==
    ASSUME LinksOK, NEW h \in Nodes \cup {Null}, h # Null => next[h] # Null
    PROVE  Validated(h) = "ok" <=> \E s \in SetToAllKPermutations(Nodes) : Chained(s, h)
<1>0. PICK count \in Nat : count = Cardinality(Nodes)
  BY ListAssumption, FS_CardinalityType
<1>1. ASSUME NEW s \in SetToAllKPermutations(Nodes), Chained(s, h)
      PROVE  Validated(h) = "ok"
  <2>1. /\ s \in Seq(Nodes) /\ Distinct(s) /\ Len(s) \in Nat
        /\ \A i \in 1..Len(s) : s[i] \in Nodes
    BY PermutationSeq
  <2>2. /\ Linked(s, h)
        /\ \A i \in 1..Len(s) : previous[s[i]] = IF i = 1 THEN Null ELSE s[i - 1]
        /\ \A i \in 1..Len(s) : next[s[i]] = IF i = Len(s) THEN Null ELSE s[i + 1]
    BY <1>1, <2>1, ChainedAt DEF Linked
  <2>3. \A i \in Nat : After(h, i) = IF i < Len(s) THEN s[i + 1] ELSE Null
    BY <2>1, <2>2, AfterLinked
  <2>4. Ends(h)
    BY <2>1, <2>2, ReachableLinked
  <2>5. ASSUME NEW i \in WrongPlaces(h) PROVE FALSE
    <3>1. /\ i \in 0..count /\ After(h, i) # Null
          /\ LinkError(After(h, i), Before(h, i)) \/ Lonely(After(h, i))
      BY <1>0 DEF WrongPlaces
    <3>2. i \in Nat /\ i < Len(s) /\ i + 1 \in 1..Len(s) /\ After(h, i) = s[i + 1]
      BY <2>1, <2>3, <3>1
    <3>3. previous[s[i + 1]] = Before(h, i)
      <4>1. CASE i = 0
        BY <2>2, <3>2, <4>1 DEF Before
      <4>2. CASE i # 0
        <5>1. i - 1 \in Nat /\ i - 1 < Len(s) /\ (i - 1) + 1 = i /\ (i + 1) - 1 = i /\ i + 1 # 1
          BY <2>1, <3>2, <4>2
        <5>2. After(h, i - 1) = s[i]
          BY <2>3, <5>1
        <5>3. previous[s[i + 1]] = s[i]
          BY <2>2, <3>2, <5>1
        <5> QED BY <4>2, <5>2, <5>3 DEF Before
      <4> QED BY <4>1, <4>2
    <3>4. next[s[i + 1]] = Null /\ previous[s[i + 1]] = Null
      BY <3>1, <3>2, <3>3 DEF LinkError, Lonely
    <3>5. i + 1 = 1
      <4>1. i + 1 # 1 => (i + 1) - 1 \in 1..Len(s)
        BY <2>1, <3>2
      <4> QED BY <2>1, <2>2, <3>2, <3>4, <4>1, NullNoNode
    <3>6. h = s[1] /\ h # Null
      <4>1. s # <<>>
        BY <2>1, <3>2, NoNodes
      <4> QED BY <2>1, <2>2, <3>2, <3>5, <4>1, NullNoNode DEF Linked
    <3> QED BY <3>4, <3>5, <3>6
  <2>6. WrongPlaces(h) = {}
    BY <2>5
  <2> QED BY <2>4, <2>6, ValidatedOk
<1>2. ASSUME Validated(h) = "ok"
      PROVE  \E s \in SetToAllKPermutations(Nodes) : Chained(s, h)
  <2>1. WrongPlaces(h) = {} /\ Ends(h)
    BY <1>2, ValidatedOk
  <2>2. PICK m \in 0..count : /\ After(h, m) = Null
                             /\ \A i \in Nat : i < m => After(h, i) # Null
    BY <1>0, <2>1, EndOfList
  <2>3. \A i \in Nat : i < m => After(h, i) \in Nodes
    BY <2>2, AfterNode
  <2>4. PICK s : s = [j \in 1..m |-> After(h, j - 1)]
    OBVIOUS
  <2>5. m \in Nat /\ \A j \in 1..m : j - 1 \in Nat /\ j - 1 < m /\ (j - 1) + 1 = j /\ j - 1 \in 0..count
    BY <1>0, <2>2
  <2>6. s \in Seq(Nodes) /\ Len(s) = m /\ \A j \in 1..m : s[j] = After(h, j - 1)
    <3>1. s \in [1..m -> Nodes]
      BY <2>3, <2>4, <2>5
    <3>2. s \in Seq(Nodes)
      BY <2>5, <3>1
    <3>3. Len(s) = m
      BY <2>5, <3>1, <3>2
    <3> QED BY <2>4, <3>2, <3>3
  <2>7. \A j \in 1..m : next[s[j]] = After(h, j)
    <3> SUFFICES ASSUME NEW j \in 1..m PROVE next[s[j]] = After(h, j)
      OBVIOUS
    <3>1. After(h, (j - 1) + 1) = Follow(After(h, j - 1))
      BY <2>5, AfterStep
    <3>2. After(h, j - 1) # Null
      BY <2>2, <2>5
    <3> QED BY <2>5, <2>6, <3>1, <3>2 DEF Follow
  <2>8. \A j \in 1..m : previous[s[j]] = IF j = 1 THEN Null ELSE s[j - 1]
    <3> SUFFICES ASSUME NEW j \in 1..m PROVE previous[s[j]] = IF j = 1 THEN Null ELSE s[j - 1]
      OBVIOUS
    <3>1. After(h, j - 1) # Null /\ j - 1 \in 0..Cardinality(Nodes)
      BY <1>0, <2>2, <2>5
    <3>2. previous[s[j]] = Before(h, j - 1)
      BY <2>1, <2>6, <3>1 DEF WrongPlaces, LinkError
    <3>3. j # 1 => j - 1 # 0 /\ j - 1 \in 1..m
      BY <2>5
    <3>4. j # 1 => s[j - 1] = After(h, (j - 1) - 1)
      BY <2>6, <3>3
    <3>5. j = 1 => j - 1 = 0
      OBVIOUS
    <3> QED BY <3>2, <3>3, <3>4, <3>5 DEF Before
  <2>9. Distinct(s)
    BY <2>6, <2>8, BackLinksDistinct
  <2>10. Linked(s, h)
    <3>1. h = IF s = <<>> THEN Null ELSE s[1]
      <4>1. After(h, 0) = h
        BY AfterStep
      <4>2. s = <<>> <=> m = 0
        BY <2>6, NoNodes
      <4>3. m # 0 => 1 \in 1..m /\ 1 - 1 = 0
        BY <2>5
      <4>4. m # 0 => s[1] = After(h, 0)
        BY <2>6, <4>3
      <4> QED BY <2>2, <4>1, <4>2, <4>4
    <3>2. \A i \in 1..m : i # m => i + 1 \in 1..m /\ (i + 1) - 1 = i
      BY <2>5
    <3>3. \A i \in 1..m : i # m => s[i + 1] = After(h, i)
      BY <2>6, <3>2
    <3> QED BY <2>2, <2>6, <2>7, <3>1, <3>3 DEF Linked
  <2>11. Chained(s, h)
    BY <2>6, <2>8, <2>10, ChainedAt
  <2> QED BY <2>6, <2>9, <2>11, SeqPermutation
<1> QED BY <1>1, <1>2

\* What is inductive needs no more than the types of the links.
ReportInv == LinksOK /\ head \in Nodes \cup {Null} /\ ValidateExact

LEMMA ReportInitial == DlistInit => ReportInv
BY DEF DlistInit, ReportInv, LinksOK, ValidateExact

LEMMA ReportStep == ReportInv /\ [DlistNext]_dlistVars => ReportInv'
<1> SUFFICES ASSUME ReportInv, [DlistNext]_dlistVars PROVE ReportInv'
  OBVIOUS
<1> USE DEF ReportInv
<1>1. CASE Begin
  BY <1>1 DEF Begin, LinksOK, ValidateExact
<1>6. ASSUME NEW n \in Nodes, LinkFront(n) PROVE ReportInv'
  <2>1. next' \in [Nodes -> Nodes \cup {Null}]
    BY <1>6 DEF LinkFront, LinksOK
  <2>2. previous' \in [Nodes -> Nodes \cup {Null}]
    <3>1. previous' = [m \in Nodes |-> IF m = n THEN Null ELSE IF m = head THEN n ELSE previous[m]]
      BY <1>6 DEF LinkFront
    <3> QED BY <3>1 DEF LinksOK
  <2>3. head' \in Nodes \cup {Null} /\ report' = "none"
    BY <1>6 DEF LinkFront
  <2> QED BY <2>1, <2>2, <2>3 DEF LinksOK, ValidateExact
<1>2. ASSUME NEW n \in Nodes, Unlink(n) PROVE ReportInv'
  <2>1. previous[n] \in Nodes \cup {Null} /\ next[n] \in Nodes \cup {Null}
    BY DEF LinksOK
  <2>2. LinksOK' /\ head' \in Nodes \cup {Null} /\ report' = "none"
    BY <1>2, <2>1 DEF Unlink, LinksOK
  <2> QED BY <2>2 DEF ValidateExact
<1>3. CASE ReverseList
  <2>1. LastNode(head) \in Nodes \cup {Null}
    BY <1>3, LastNodeTyped DEF ReverseList
  <2>2. LinksOK' /\ head' \in Nodes \cup {Null} /\ report' = "none"
    BY <1>3, <2>1 DEF ReverseList, Turned, LinksOK
  <2> QED BY <2>2 DEF ValidateExact
<1>4. CASE Validate
  <2>1. /\ report' = Validated(head) /\ next' = next /\ previous' = previous
        /\ head' = head
    BY <1>4 DEF Validate
  <2>2. (head # Null => next[head] # Null) =>
          (report' = "ok" <=> \E s \in SetToAllKPermutations(Nodes) : Chained(s, head))
    BY <2>1, ValidatedExact
  <2>3. ValidateExact'
    BY <2>1, <2>2 DEF ValidateExact, Chained
  <2> QED BY <2>1, <2>3 DEF LinksOK
<1>5. CASE UNCHANGED dlistVars
  BY <1>5 DEF dlistVars, LinksOK, ValidateExact, Chained
<1> QED BY <1>1, <1>2, <1>3, <1>4, <1>5, <1>6 DEF DlistNext

\* validate accepts exactly the lists that are linked in both directions,
\* whatever the links are and whatever a program did with unlink before, the
\* list of a single node apart (list.h:89).
THEOREM ValidateIsExact == DlistSpec => []ValidateExact
<1>1. ReportInv => ValidateExact
  BY DEF ReportInv
<1> QED
  BY ReportInitial, ReportStep, <1>1, PTL DEF DlistSpec

-----------------------------------------------------------------------------
(* Quicksort                                                                 *)

\* A set of natural numbers with a bound has a greatest one.
LEMMA GreatestNumber ==
    ASSUME NEW b \in Nat, NEW S, S \subseteq 0..b, S # {}
    PROVE  \E m \in S : \A n \in S : n <= m
<1> DEFINE T == {b - n : n \in S}
<1>1. T \subseteq Nat /\ T # {}
  <2>1. ASSUME NEW n \in S PROVE b - n \in Nat
    <3>1. n \in 0..b
      OBVIOUS
    <3> QED BY <3>1
  <2> QED BY <2>1
<1>2. PICK d \in T : \A e \in T : d <= e
  <2> HIDE DEF T
  <2> QED BY <1>1, LeastNumber
<1>3. PICK m \in S : d = b - m
  BY <1>2
<1>4. ASSUME NEW n \in S PROVE n <= m
  <2>1. b - n \in T /\ d <= b - n
    BY <1>2
  <2> QED BY <1>3, <2>1
<1> QED BY <1>4

LEMMA LeastIs ==
    ASSUME NEW S, S \subseteq Nat, S # {}
    PROVE  Min(S) \in S /\ \A n \in S : Min(S) <= n
BY LeastNumber DEF Min

LEMMA GreatestIs ==
    ASSUME NEW b \in Nat, NEW S, S \subseteq 0..b, S # {}
    PROVE  Max(S) \in S /\ \A n \in S : n <= Max(S)
<1>1. PICK m \in S : \A n \in S : n <= m
  BY GreatestNumber
<1>2. \A n \in S : m >= n
  BY <1>1
<1>3. Max(S) \in S /\ \A n \in S : Max(S) >= n
  BY <1>2 DEF Max
<1> QED BY <1>3

\* Where the two inner loops stop.
LEMMA UpToStops ==
    ASSUME array \in Seq(Int), l \in 1..(Len(array) + 1)
    PROVE  /\ UpTo \in l..(Len(array) + 1)
           /\ \A i \in l..(UpTo - 1) : array[i] < array[pivot]
           /\ UpTo <= Len(array) => ~(array[UpTo] < array[pivot])
<1> DEFINE S == {i \in l..(Len(array) + 1) : i > Len(array) \/ ~(array[i] < array[pivot])}
<1>1. Len(array) \in Nat
  OBVIOUS
<1>2. Len(array) + 1 \in S /\ S \subseteq Nat
  BY <1>1
<1>3. UpTo = Min(S)
  BY DEF UpTo
<1>4. Min(S) \in S /\ \A n \in S : Min(S) <= n
  <2> HIDE DEF S
  <2> QED BY <1>2, LeastIs
<1>5. UpTo \in S /\ \A n \in S : UpTo <= n
  BY <1>3, <1>4
<1>6. ASSUME NEW i \in l..(UpTo - 1) PROVE array[i] < array[pivot]
  <2>1. UpTo \in l..(Len(array) + 1)
    BY <1>5
  <2>2. i \in l..(Len(array) + 1) /\ ~(UpTo <= i)
    BY <1>1, <2>1
  <2>3. i \notin S
    BY <1>5, <2>2
  <2> QED BY <2>2, <2>3
<1>7. UpTo <= Len(array) => ~(array[UpTo] < array[pivot])
  BY <1>1, <1>5
<1> QED BY <1>5, <1>6, <1>7

LEMMA DownToStops ==
    ASSUME array \in Seq(Int), r \in 0..Len(array)
    PROVE  /\ DownTo \in 0..r
           /\ \A i \in (DownTo + 1)..r : array[pivot] < array[i]
           /\ DownTo >= 1 => ~(array[pivot] < array[DownTo])
<1> DEFINE S == {i \in 0..r : i < 1 \/ ~(array[pivot] < array[i])}
<1>1. Len(array) \in Nat /\ r \in Nat
  OBVIOUS
<1>2. 0 \in S /\ S \subseteq 0..r
  BY <1>1
<1>3. DownTo = Max(S)
  BY DEF DownTo
<1>4. Max(S) \in S /\ \A n \in S : n <= Max(S)
  <2> HIDE DEF S
  <2> QED BY <1>1, <1>2, GreatestIs
<1>5. DownTo \in S /\ \A n \in S : n <= DownTo
  BY <1>3, <1>4
<1>6. ASSUME NEW i \in (DownTo + 1)..r PROVE array[pivot] < array[i]
  <2>1. DownTo \in 0..r
    BY <1>5
  <2>2. i \in 0..r /\ ~(i <= DownTo)
    BY <1>1, <2>1
  <2>3. i \notin S
    BY <1>5, <2>2
  <2> QED BY <2>2, <2>3
<1>7. DownTo >= 1 => ~(array[pivot] < array[DownTo])
  BY <1>1, <1>5
<1> QED BY <1>5, <1>6, <1>7

\* A swap loses no element.
LEMMA SwapKeeps ==
    ASSUME NEW a \in Seq(Int), NEW i \in 1..Len(a), NEW j \in 1..Len(a)
    PROVE  /\ Swap(a, i, j) \in Seq(Int) /\ Len(Swap(a, i, j)) = Len(a)
           /\ Swap(a, i, j)[i] = a[j] /\ Swap(a, i, j)[j] = a[i]
           /\ \A k \in 1..Len(a) : k # i /\ k # j => Swap(a, i, j)[k] = a[k]
           /\ \A x \in Int : Occurrences(Swap(a, i, j), x) = Occurrences(a, x)
<1> DEFINE b == Swap(a, i, j)
<1>1. /\ b \in Seq(Int) /\ Len(b) = Len(a)
      /\ b[i] = a[j] /\ b[j] = a[i]
      /\ \A k \in 1..Len(a) : k # i /\ k # j => b[k] = a[k]
  BY DEF Swap
<1>2. Len(a) \in Nat /\ DOMAIN a = 1..Len(a) /\ DOMAIN b = 1..Len(a)
  BY <1>1
<1>3. ASSUME NEW x \in Int PROVE Occurrences(b, x) = Occurrences(a, x)
  <2> DEFINE S == {k \in 1..Len(a) : a[k] = x}
             T == {k \in 1..Len(a) : b[k] = x}
             f == [k \in S |-> IF k = i THEN j ELSE IF k = j THEN i ELSE k]
  <2> HIDE DEF b
  <2>1. IsFiniteSet(S)
    <3>1. IsFiniteSet(1..Len(a)) /\ S \subseteq 1..Len(a)
      BY <1>2, FS_Interval
    <3> QED BY <3>1, FS_Subset
  <2>2. \A k \in S : f[k] \in T
    BY <1>1
  <2>3. \A k, m \in S : f[k] = f[m] => k = m
    OBVIOUS
  <2>4. ASSUME NEW m \in T PROVE \E k \in S : f[k] = m
    <3>1. CASE m = i
      <4>1. j \in S
        BY <1>1, <2>4, <3>1
      <4> QED BY <3>1, <4>1
    <3>2. CASE m = j
      <4>1. i \in S
        BY <1>1, <2>4, <3>2
      <4> QED BY <3>2, <4>1
    <3>3. CASE m # i /\ m # j
      <4>1. m \in S
        BY <1>1, <2>4, <3>3
      <4> QED BY <3>3, <4>1
    <3> QED BY <3>1, <3>2, <3>3
  <2>5. f \in [S -> T]
    BY <2>2
  <2>6. ExistsBijection(S, T)
    <3>1. f \in Injection(S, T)
      <4> HIDE DEF f, S, T
      <4> QED BY <2>3, <2>5 DEF Injection, IsInjective
    <3>2. f \in Surjection(S, T)
      <4> HIDE DEF f, S, T
      <4> QED BY <2>4, <2>5 DEF Surjection
    <3> HIDE DEF f, S, T
    <3> QED BY <3>1, <3>2 DEF ExistsBijection, Bijection
  <2>7. Cardinality(T) = Cardinality(S)
    <3> HIDE DEF S, T
    <3> QED BY <2>1, <2>6, FS_Bijection
  <2> QED BY <1>2, <2>7 DEF Occurrences
<1> QED BY <1>1, <1>3

Parts == Int \X Int

\* what is still to be sorted, the part in progress included
Pending == IF part = <<>> THEN calls ELSE <<part>> \o calls

Within(s) == \A k \in 1..Len(s) : from <= s[k][1] /\ s[k][2] <= to
InOrder(s) == \A k, m \in 1..Len(s) : k < m => s[k][2] < s[m][1]
Together(s, i, j) ==
    \E k \in 1..Len(s) : s[k][1] <= i /\ i <= s[k][2] /\ s[k][1] <= j /\ j <= s[k][2]
\* two elements are in order, or in the same part that is still to be sorted
Ordered(s) ==
    \A i, j \in from..to : i < j => array[i] <= array[j] \/ Together(s, i, j)

QuicksortTypeOK ==
    /\ given \in Seq(Int) /\ array \in Seq(Int) /\ Len(array) = Len(given)
    /\ from \in 1..(Len(given) + 1) /\ to \in 0..Len(given)
    /\ calls \in Seq(Parts) /\ part \in Parts \cup {<<>>}
    /\ l \in Int /\ r \in Int /\ pivot \in Int

\* What is before l is not larger than the pivot element, what is behind r not
\* smaller; from the second round on there is an element at either end that
\* stops the loops.
Partitioned ==
    part # <<>> =>
      /\ part[1] < part[2] /\ pivot \in part[1]..part[2]
      /\ \A i \in part[1]..part[2] : i < l => array[i] <= array[pivot]
      /\ \A i \in part[1]..part[2] : r < i => array[pivot] <= array[i]
      /\ (l = part[1] /\ r = part[2]) \/ (part[1] < l /\ r < part[2])

ElementsKept ==
    /\ \A x \in Int : Occurrences(array, x) = Occurrences(given, x)
    /\ \A i \in 1..Len(given) : ~(from <= i /\ i <= to) => array[i] = given[i]

QuicksortInv ==
    /\ QuicksortTypeOK
    /\ Within(Pending) /\ InOrder(Pending) /\ Ordered(Pending)
    /\ Partitioned
    /\ ElementsKept

LEMMA Prefixed ==
    ASSUME NEW s \in Seq(Parts), NEW p \in Parts
    PROVE  /\ <<p>> \o s \in Seq(Parts) /\ Len(<<p>> \o s) = Len(s) + 1 /\ Len(s) \in Nat
           /\ (<<p>> \o s)[1] = p
           /\ \A k \in 1..Len(s) : (<<p>> \o s)[k + 1] = s[k]
           /\ \A k \in 1..(Len(s) + 1) :
                (<<p>> \o s)[k] = IF k = 1 THEN p ELSE s[k - 1]
OBVIOUS

LEMMA FirstTaken ==
    ASSUME NEW s \in Seq(Parts), s # <<>>
    PROVE  /\ Tail(s) \in Seq(Parts) /\ Head(s) = s[1] /\ s[1] \in Parts
           /\ Len(Tail(s)) \in Nat /\ Len(s) = Len(Tail(s)) + 1
           /\ \A k \in 1..Len(Tail(s)) : Tail(s)[k] = s[k + 1]
           /\ <<Head(s)>> \o Tail(s) = s
OBVIOUS

LEMMA PartOf == ASSUME NEW p \in Parts PROVE p[1] \in Int /\ p[2] \in Int /\ p = <<p[1], p[2]>>
BY DEF Parts

LEMMA PushKeeps ==
    ASSUME NEW s \in Seq(Parts), NEW p \in Parts
    PROVE  /\ Push(p, s) \in Seq(Parts)
           /\ InOrder(s) /\ (\A k \in 1..Len(s) : p[2] < s[k][1]) => InOrder(Push(p, s))
           /\ \A k \in 1..Len(Push(p, s)) :
                Push(p, s)[k] = p \/ \E m \in 1..Len(s) : Push(p, s)[k] = s[m]
           /\ \A k \in 1..Len(s) : \E m \in 1..Len(Push(p, s)) : Push(p, s)[m] = s[k]
           /\ p[1] < p[2] => \E m \in 1..Len(Push(p, s)) : Push(p, s)[m] = p
<1>1. CASE ~(p[1] < p[2])
  <2>1. Push(p, s) = s
    BY <1>1 DEF Push
  <2> QED BY <1>1, <2>1
<1>2. CASE p[1] < p[2]
  <2> DEFINE t == <<p>> \o s
  <2>1. Push(p, s) = t
    BY <1>2 DEF Push
  <2>2. /\ t \in Seq(Parts) /\ Len(t) = Len(s) + 1 /\ Len(s) \in Nat /\ t[1] = p
        /\ \A k \in 1..Len(s) : t[k + 1] = s[k]
        /\ \A k \in 1..(Len(s) + 1) : t[k] = IF k = 1 THEN p ELSE s[k - 1]
    BY Prefixed
  <2> HIDE DEF t
  <2>3. ASSUME InOrder(s), \A k \in 1..Len(s) : p[2] < s[k][1] PROVE InOrder(t)
    <3> SUFFICES ASSUME NEW k \in 1..Len(t), NEW m \in 1..Len(t), k < m PROVE t[k][2] < t[m][1]
      BY DEF InOrder
    <3>1. m # 1 /\ m - 1 \in 1..Len(s) /\ t[m] = s[m - 1]
      BY <2>2
    <3>2. CASE k = 1
      BY <2>2, <2>3, <3>1, <3>2
    <3>3. CASE k # 1
      <4>1. k - 1 \in 1..Len(s) /\ t[k] = s[k - 1] /\ k - 1 < m - 1
        BY <2>2, <3>3
      <4> QED BY <2>3, <3>1, <4>1 DEF InOrder
    <3> QED BY <3>2, <3>3
  <2>4. ASSUME NEW k \in 1..Len(t) PROVE t[k] = p \/ \E m \in 1..Len(s) : t[k] = s[m]
    <3>1. k # 1 => k - 1 \in 1..Len(s) /\ t[k] = s[k - 1]
      BY <2>2
    <3>2. k = 1 => t[k] = p
      BY <2>2
    <3> QED BY <3>1, <3>2
  <2>5. ASSUME NEW k \in 1..Len(s) PROVE \E m \in 1..Len(t) : t[m] = s[k]
    <3>1. k + 1 \in 1..Len(t) /\ t[k + 1] = s[k]
      BY <2>2
    <3> QED BY <3>1
  <2>6. 1 \in 1..Len(t) /\ t[1] = p
    BY <2>2
  <2> QED BY <2>1, <2>2, <2>3, <2>4, <2>5, <2>6
<1> QED BY <1>1, <1>2

LEMMA QuicksortInitial == QuicksortInit => QuicksortInv
<1> SUFFICES ASSUME QuicksortInit PROVE QuicksortInv
  OBVIOUS
<1> USE DEF QuicksortInit
<1>1. given \in Seq(Int) /\ Len(given) \in Nat
  BY QuicksortAssumption
<1>2. from \in Int /\ to \in Int /\ <<from, to>> \in Parts
  BY <1>1 DEF Parts
<1>3. QuicksortTypeOK
  BY <1>1, <1>2 DEF QuicksortTypeOK
<1>4. Pending = <<<<from, to>>>>
  BY DEF Pending
<1>5. Len(Pending) = 1 /\ Pending[1] = <<from, to>>
  BY <1>4
<1>6. Within(Pending) /\ InOrder(Pending)
  BY <1>2, <1>5 DEF Within, InOrder
<1>7. ASSUME NEW i \in from..to, NEW j \in from..to PROVE Together(Pending, i, j)
  BY <1>2, <1>5 DEF Together
<1>8. Ordered(Pending)
  BY <1>7 DEF Ordered
<1>9. Partitioned /\ ElementsKept
  BY DEF Partitioned, ElementsKept
<1> QED BY <1>3, <1>6, <1>8, <1>9 DEF QuicksortInv

LEMMA EnterKeeps ==
    ASSUME QuicksortInv, Enter
    PROVE  QuicksortInv'
<1>0. /\ QuicksortTypeOK /\ Within(Pending) /\ InOrder(Pending) /\ Ordered(Pending) /\ ElementsKept
      /\ Pending = calls
  BY DEF QuicksortInv, Enter, Pending
<1>1. PICK t \in Seq(Parts) : t = Tail(calls)
  BY <1>0, FirstTaken DEF Enter, QuicksortTypeOK
<1>2. /\ Head(calls) = calls[1] /\ calls[1] \in Parts /\ Len(t) \in Nat /\ Len(calls) = Len(t) + 1
      /\ \A k \in 1..Len(t) : t[k] = calls[k + 1]
      /\ <<calls[1]>> \o t = calls
  BY <1>0, <1>1, FirstTaken DEF Enter, QuicksortTypeOK
<1>3. PICK left, right : left = calls[1][1] /\ right = calls[1][2]
  OBVIOUS
<1>4. left \in Int /\ right \in Int /\ calls[1] = <<left, right>>
  BY <1>2, <1>3, PartOf
<1>5. calls' = t /\ UNCHANGED <<given, from, to, array>> /\ part = <<>>
  BY <1>1 DEF Enter
<1>6. ElementsKept'
  BY <1>0, <1>5 DEF ElementsKept
<1>7. CASE right <= left
  <2>1. part' = <<>> /\ UNCHANGED <<l, r, pivot>>
    BY <1>2, <1>3, <1>5, <1>7 DEF Enter
  <2>2. QuicksortTypeOK' /\ Pending' = t /\ Partitioned'
    BY <1>0, <1>5, <2>1 DEF QuicksortTypeOK, Pending, Partitioned
  <2>3. Within(t) /\ InOrder(t)
    <3>1. \A k \in 1..Len(t) : k + 1 \in 1..Len(calls)
      BY <1>2
    <3>2. Within(t)
      BY <1>0, <1>2, <3>1 DEF Within
    <3>3. ASSUME NEW k \in 1..Len(t), NEW m \in 1..Len(t), k < m PROVE t[k][2] < t[m][1]
      <4>1. k + 1 \in 1..Len(calls) /\ m + 1 \in 1..Len(calls) /\ k + 1 < m + 1
        BY <3>1, <3>3
      <4>2. calls[k + 1][2] < calls[m + 1][1]
        BY <1>0, <4>1 DEF InOrder
      <4> QED BY <1>2, <4>2
    <3> QED BY <3>2, <3>3 DEF InOrder
  <2>4. ASSUME NEW i \in from..to, NEW j \in from..to, i < j, Together(calls, i, j)
        PROVE  Together(t, i, j)
    <3>1. PICK k \in 1..Len(calls) : /\ calls[k][1] <= i /\ i <= calls[k][2]
                                     /\ calls[k][1] <= j /\ j <= calls[k][2]
      BY <2>4 DEF Together
    <3>2. k # 1
      <4>1. i \in Int /\ j \in Int
        BY <1>0 DEF QuicksortTypeOK
      <4>2. k = 1 => left <= i /\ j <= right
        BY <1>3, <3>1
      <4> QED BY <1>4, <1>7, <2>4, <4>1, <4>2
    <3>3. k - 1 \in 1..Len(t) /\ (k - 1) + 1 = k
      BY <1>2, <3>2
    <3>4. t[k - 1] = calls[k]
      BY <1>2, <3>3
    <3> QED BY <3>1, <3>3, <3>4 DEF Together
  <2>5. Ordered(t)
    BY <1>0, <2>4 DEF Ordered
  <2>6. (Within(Pending) /\ InOrder(Pending) /\ Ordered(Pending))'
    BY <1>5, <2>2, <2>3, <2>5 DEF Within, InOrder, Ordered, Together
  <2> QED BY <1>6, <2>2, <2>6 DEF QuicksortInv
<1>8. CASE ~(right <= left)
  <2>1. part' = <<left, right>> /\ l' = left /\ r' = right
        /\ pivot' = left + ((right - left) \div 2)
    BY <1>2, <1>3, <1>8 DEF Enter
  <2>2. left < right /\ pivot' \in left..right
    BY <1>4, <1>8, <2>1
  <2>3. part' \in Parts /\ part' # <<>> /\ part'[1] = left /\ part'[2] = right
    BY <1>4, <2>1 DEF Parts
  <2>4. QuicksortTypeOK'
    BY <1>0, <1>4, <1>5, <2>1, <2>2, <2>3 DEF QuicksortTypeOK
  <2>5. Pending' = calls
    BY <1>2, <1>4, <1>5, <2>1, <2>3 DEF Pending
  <2>6. Partitioned'
    BY <1>4, <2>1, <2>2, <2>3 DEF Partitioned
  <2>7. PICK s : s = calls
    OBVIOUS
  <2>8. Within(s) /\ InOrder(s) /\ Ordered(s) /\ Pending' = s
    BY <1>0, <2>5, <2>7
  <2>9. (Within(Pending) /\ InOrder(Pending) /\ Ordered(Pending))'
    BY <1>5, <2>8 DEF Within, InOrder, Ordered, Together
  <2> QED BY <1>6, <2>4, <2>6, <2>9 DEF QuicksortInv
<1> QED BY <1>7, <1>8

\* The loops of a round stop inside of the part.
LEMMA RoundInside ==
    ASSUME QuicksortInv, part # <<>>, l <= r
    PROVE  /\ part \in Parts /\ part[1] \in Nat /\ part[2] \in Nat
           /\ part[1] >= 1 /\ part[2] <= Len(array) /\ from <= part[1] /\ part[2] <= to
           /\ part[1] <= l /\ r <= part[2]
           /\ UpTo \in l..part[2] /\ DownTo \in part[1]..r
           /\ \A i \in l..(UpTo - 1) : array[i] < array[pivot]
           /\ array[pivot] <= array[UpTo]
           /\ \A i \in (DownTo + 1)..r : array[pivot] < array[i]
           /\ array[DownTo] <= array[pivot]
           /\ l = part[1] /\ r = part[2] => UpTo <= DownTo
<1>1. /\ part \in Parts /\ part[1] \in Int /\ part[2] \in Int
      /\ from \in Int /\ to \in Int /\ from >= 1 /\ to <= Len(array) /\ Len(array) \in Nat
      /\ array \in Seq(Int) /\ l \in Int /\ r \in Int /\ pivot \in Int
  BY PartOf DEF QuicksortInv, QuicksortTypeOK
<1>2. from <= part[1] /\ part[2] <= to
  <2>1. calls \in Seq(Parts) /\ Pending = <<part>> \o calls /\ Within(Pending)
    BY DEF QuicksortInv, QuicksortTypeOK, Pending
  <2>2. 1 \in 1..Len(Pending) /\ Pending[1] = part
    BY <1>1, <2>1, Prefixed
  <2> QED BY <2>1, <2>2 DEF Within
<1>3. /\ part[1] < part[2] /\ pivot \in part[1]..part[2]
      /\ \A i \in part[1]..part[2] : i < l => array[i] <= array[pivot]
      /\ \A i \in part[1]..part[2] : r < i => array[pivot] <= array[i]
      /\ (l = part[1] /\ r = part[2]) \/ (part[1] < l /\ r < part[2])
  BY DEF QuicksortInv, Partitioned
<1>4. /\ part[1] \in Nat /\ part[2] \in Nat /\ part[1] >= 1 /\ part[2] <= Len(array)
      /\ part[1] <= l /\ r <= part[2]
  <2>1. part[1] <= l /\ r <= part[2]
    BY <1>1, <1>3
  <2>2. part[1] >= 1 /\ part[2] <= Len(array)
    BY <1>1, <1>2
  <2>3. part[2] >= 1
    BY <1>1, <1>3, <2>2
  <2> QED BY <1>1, <2>1, <2>2, <2>3
<1>5. l \in 1..(Len(array) + 1) /\ r \in 0..Len(array)
  BY <1>1, <1>4
<1>6. \A i \in part[1]..part[2] : array[i] \in Int
  BY <1>1, <1>4
<1>7. array[pivot] \in Int
  BY <1>3, <1>6
<1>8. /\ UpTo \in l..(Len(array) + 1)
      /\ \A i \in l..(UpTo - 1) : array[i] < array[pivot]
      /\ UpTo <= Len(array) => ~(array[UpTo] < array[pivot])
  BY <1>1, <1>5, UpToStops
<1>9. /\ DownTo \in 0..r
      /\ \A i \in (DownTo + 1)..r : array[pivot] < array[i]
      /\ DownTo >= 1 => ~(array[pivot] < array[DownTo])
  BY <1>1, <1>5, DownToStops
<1>10. UpTo \in Int /\ DownTo \in Int
  BY <1>8, <1>9, <1>1
<1>11. ASSUME NEW i \in l..part[2], array[pivot] <= array[i] PROVE UpTo <= i
  <2> SUFFICES ASSUME i < UpTo PROVE FALSE
    BY <1>1, <1>10
  <2>1. i \in l..(UpTo - 1) /\ i \in part[1]..part[2]
    BY <1>1, <1>4, <1>10
  <2>2. array[i] < array[pivot] /\ array[i] \in Int
    BY <1>6, <1>8, <2>1
  <2> QED BY <1>7, <1>11, <2>2
<1>12. ASSUME NEW i \in part[1]..r, array[i] <= array[pivot] PROVE i <= DownTo
  <2> SUFFICES ASSUME DownTo < i PROVE FALSE
    BY <1>1, <1>10
  <2>1. i \in (DownTo + 1)..r /\ i \in part[1]..part[2]
    BY <1>1, <1>4, <1>10
  <2>2. array[pivot] < array[i] /\ array[i] \in Int
    BY <1>6, <1>9, <2>1
  <2> QED BY <1>7, <1>12, <2>2
<1>13. l = part[1] /\ r = part[2] => UpTo <= pivot /\ pivot <= DownTo
  <2> SUFFICES ASSUME l = part[1], r = part[2] PROVE UpTo <= pivot /\ pivot <= DownTo
    OBVIOUS
  <2>1. pivot \in l..part[2] /\ pivot \in part[1]..r /\ array[pivot] <= array[pivot]
    BY <1>3, <1>7
  <2> QED BY <1>11, <1>12, <2>1
<1>14. part[1] < l /\ r < part[2] => UpTo <= part[2] /\ part[1] <= DownTo
  <2> SUFFICES ASSUME part[1] < l, r < part[2] PROVE UpTo <= part[2] /\ part[1] <= DownTo
    OBVIOUS
  <2>1. part[2] \in part[1]..part[2] /\ part[2] \in l..part[2] /\ r < part[2]
    BY <1>1, <1>3
  <2>2. part[1] \in part[1]..part[2] /\ part[1] \in part[1]..r /\ part[1] < l
    BY <1>1, <1>3
  <2>3. array[pivot] <= array[part[2]] /\ array[part[1]] <= array[pivot]
    BY <1>3, <2>1, <2>2
  <2> QED BY <1>11, <1>12, <2>1, <2>2, <2>3
<1>15. UpTo \in l..part[2] /\ DownTo \in part[1]..r
  BY <1>1, <1>3, <1>8, <1>9, <1>10, <1>13, <1>14
<1>16. array[pivot] <= array[UpTo]
  <2>1. UpTo \in part[1]..part[2] /\ UpTo <= Len(array)
    BY <1>1, <1>4, <1>15
  <2>2. array[UpTo] \in Int /\ ~(array[UpTo] < array[pivot])
    BY <1>6, <1>8, <2>1
  <2> QED BY <1>7, <2>2
<1>17. array[DownTo] <= array[pivot]
  <2>1. DownTo \in part[1]..part[2] /\ DownTo >= 1
    BY <1>1, <1>4, <1>15
  <2>2. array[DownTo] \in Int /\ ~(array[pivot] < array[DownTo])
    BY <1>6, <1>9, <2>1
  <2> QED BY <1>7, <2>2
<1>18. l = part[1] /\ r = part[2] => UpTo <= DownTo
  BY <1>3, <1>10, <1>13, <1>1
<1> QED BY <1>1, <1>2, <1>4, <1>8, <1>9, <1>15, <1>16, <1>17, <1>18

\* The part in progress shares no place with the calls that wait.
LEMMA PartApart ==
    ASSUME QuicksortInv, part # <<>>, NEW i \in Int, NEW j \in Int,
           part[1] <= i, i <= part[2], ~(part[1] <= j /\ j <= part[2])
    PROVE  ~Together(Pending, i, j) /\ ~Together(Pending, j, i)
<1>1. part \in Parts /\ calls \in Seq(Parts) /\ Pending = <<part>> \o calls /\ InOrder(Pending)
  BY DEF QuicksortInv, QuicksortTypeOK, Pending
<1>2. /\ Pending \in Seq(Parts) /\ Pending[1] = part /\ Len(Pending) \in Nat
      /\ 1 \in 1..Len(Pending) /\ part[1] \in Int /\ part[2] \in Int
  BY <1>1, Prefixed, PartOf
<1>3. ASSUME NEW k \in 1..Len(Pending),
             Pending[k][1] <= i, i <= Pending[k][2], Pending[k][1] <= j, j <= Pending[k][2]
      PROVE  FALSE
  <2>1. k # 1
    BY <1>2, <1>3
  <2>2. Pending[1][2] < Pending[k][1]
    BY <1>1, <1>2, <2>1 DEF InOrder
  <2>3. Pending[k] \in Parts
    BY <1>2
  <2>4. Pending[k][1] \in Int
    BY <2>3, PartOf
  <2> QED BY <1>2, <1>3, <2>2, <2>4
<1> QED BY <1>3 DEF Together

LEMMA PartTogether ==
    ASSUME QuicksortInv, part # <<>>, NEW i \in Int, NEW j \in Int,
           part[1] <= i, i <= part[2], part[1] <= j, j <= part[2]
    PROVE  Together(Pending, i, j)
<1>1. part \in Parts /\ calls \in Seq(Parts) /\ Pending = <<part>> \o calls
  BY DEF QuicksortInv, QuicksortTypeOK, Pending
<1>2. Pending[1] = part /\ 1 \in 1..Len(Pending)
  BY <1>1, Prefixed
<1> QED BY <1>2 DEF Together

LEMMA RoundKeeps ==
    ASSUME QuicksortInv, Round
    PROVE  QuicksortInv'
<1>1. /\ part # <<>> /\ l <= r
      /\ UNCHANGED <<given, from, to, calls, part>> /\ UNCHANGED Pending
  BY DEF Round, Pending
<1>2. PICK u, d, L, R, v, t : u = UpTo /\ d = DownTo /\ L = part[1] /\ R = part[2]
                              /\ v = array[pivot] /\ t = Pending
  OBVIOUS
<1>3. /\ L \in Nat /\ R \in Nat /\ L >= 1 /\ R <= Len(array) /\ from <= L /\ R <= to
      /\ L <= l /\ r <= R /\ u \in l..R /\ d \in L..r
      /\ \A i \in l..(u - 1) : array[i] < v
      /\ v <= array[u]
      /\ \A i \in (d + 1)..r : v < array[i]
      /\ array[d] <= v
      /\ l = L /\ r = R => u <= d
  BY <1>1, <1>2, RoundInside
<1>4. /\ array \in Seq(Int) /\ Len(array) \in Nat /\ Len(array) = Len(given)
      /\ from \in Int /\ to \in Int /\ from >= 1 /\ to <= Len(array)
      /\ l \in Int /\ r \in Int /\ pivot \in Int /\ u \in Int /\ d \in Int
  <2>1. QuicksortTypeOK
    BY DEF QuicksortInv
  <2>2. array \in Seq(Int) /\ Len(array) \in Nat /\ Len(array) = Len(given)
    BY <2>1 DEF QuicksortTypeOK
  <2>3. l \in Int /\ r \in Int /\ pivot \in Int
    BY <2>1 DEF QuicksortTypeOK
  <2>4. from \in Int /\ to \in Int /\ from >= 1 /\ to <= Len(array)
    BY <2>1, <2>2 DEF QuicksortTypeOK
  <2> QED BY <1>3, <2>2, <2>3, <2>4
<1>5. /\ L < R /\ pivot \in L..R
      /\ \A i \in L..R : i < l => array[i] <= v
      /\ \A i \in L..R : r < i => v <= array[i]
      /\ (l = L /\ r = R) \/ (L < l /\ r < R)
  BY <1>1, <1>2 DEF QuicksortInv, Partitioned
<1>6. Within(t) /\ InOrder(t) /\ Ordered(t) /\ ElementsKept /\ QuicksortTypeOK
  BY <1>2 DEF QuicksortInv
<1>v. v \in Int /\ \A i \in L..R : i \in 1..Len(array) /\ array[i] \in Int
  <2>1. \A i \in L..R : i \in 1..Len(array)
    BY <1>3, <1>4
  <2>2. \A i \in 1..Len(array) : array[i] \in Int
    BY <1>4
  <2>3. array[pivot] \in Int
    BY <1>5, <2>1, <2>2
  <2> QED BY <1>2, <2>1, <2>2, <2>3
<1>7. CASE u <= d
  <2>1. PICK b, q : b = Swap(array, u, d) /\ q = Followed(u, d)
    OBVIOUS
  <2>2. array' = b /\ pivot' = q /\ l' = u + 1 /\ r' = d - 1
    BY <1>2, <1>7, <2>1 DEF Round
  <2>3. u \in 1..Len(array) /\ d \in 1..Len(array)
    BY <1>3, <1>4, <1>7
  <2>4. /\ b \in Seq(Int) /\ Len(b) = Len(array)
        /\ b[u] = array[d] /\ b[d] = array[u]
        /\ \A k \in 1..Len(array) : k # u /\ k # d => b[k] = array[k]
        /\ \A x \in Int : Occurrences(b, x) = Occurrences(array, x)
    BY <1>4, <2>1, <2>3, SwapKeeps
  <2>5. q \in L..R /\ b[q] = v
    <3>0. pivot \in 1..Len(array)
      BY <1>3, <1>4, <1>5
    <3>1. CASE pivot = u
      <4>1. q = d
        BY <2>1, <3>1 DEF Followed
      <4> QED BY <1>2, <1>3, <1>4, <2>4, <3>1, <4>1
    <3>2. CASE pivot = d /\ pivot # u
      <4>1. q = u
        BY <2>1, <3>2 DEF Followed
      <4> QED BY <1>2, <1>3, <1>4, <2>4, <3>2, <4>1
    <3>3. CASE pivot # d /\ pivot # u
      <4>1. q = pivot
        BY <2>1, <3>3 DEF Followed
      <4> QED BY <1>2, <1>5, <2>4, <3>0, <3>3, <4>1
    <3> QED BY <3>1, <3>2, <3>3
  <2>6. ASSUME NEW i \in L..R, i < u + 1 PROVE b[i] <= v
    <3>1. i \in 1..Len(array)
      BY <1>3, <1>4
    <3>2. CASE i = u
      BY <1>3, <2>4, <3>2
    <3>3. CASE i # u
      <4>1. b[i] = array[i] /\ array[i] \in Int
        BY <1>4, <1>7, <2>4, <2>6, <3>1, <3>3
      <4>2. CASE i < l
        BY <1>5, <4>1, <4>2
      <4>3. CASE ~(i < l)
        <5>1. i \in l..(u - 1)
          BY <1>4, <2>6, <3>3, <4>3
        <5>2. array[i] < v
          BY <1>3, <5>1
        <5> QED BY <1>v, <4>1, <5>2
      <4> QED BY <4>2, <4>3
    <3> QED BY <3>2, <3>3
  <2>7. ASSUME NEW i \in L..R, d - 1 < i PROVE v <= b[i]
    <3>1. i \in 1..Len(array)
      BY <1>3, <1>4
    <3>2. CASE i = d
      BY <1>3, <2>4, <3>2
    <3>3. CASE i # d
      <4>1. b[i] = array[i] /\ array[i] \in Int
        BY <1>4, <1>7, <2>4, <2>7, <3>1, <3>3
      <4>2. CASE r < i
        BY <1>5, <4>1, <4>2
      <4>3. CASE ~(r < i)
        <5>1. i \in (d + 1)..r
          BY <1>4, <2>7, <3>3, <4>3
        <5>2. v < array[i]
          BY <1>3, <5>1
        <5> QED BY <1>v, <4>1, <5>2
      <4> QED BY <4>2, <4>3
    <3> QED BY <3>2, <3>3
  <2>8. L < u + 1 /\ d - 1 < R
    BY <1>3, <1>4
  <2>9. Partitioned'
    <3>1. part'[1] = L /\ part'[2] = R /\ array'[pivot'] = v
      BY <1>1, <1>2, <2>2, <2>5
    <3> QED BY <1>5, <2>2, <2>5, <2>6, <2>7, <2>8, <3>1 DEF Partitioned
  <2>10. QuicksortTypeOK'
    <3>1. q \in Int
      BY <1>3, <2>5
    <3> QED BY <1>1, <1>4, <1>6, <2>2, <2>4, <3>1 DEF QuicksortTypeOK
  <2>11. ElementsKept'
    <3>1. \A i \in 1..Len(given) : ~(from <= i /\ i <= to) => i # u /\ i # d
      BY <1>3, <1>4
    <3> QED BY <1>1, <1>4, <1>6, <2>2, <2>4, <3>1 DEF ElementsKept
  <2>a. ASSUME NEW m \in L..R PROVE \E k \in L..R : b[m] = array[k]
    <3>1. u \in L..R /\ d \in L..R
      BY <1>3, <1>4, <1>7
    <3>2. CASE m = u
      BY <2>4, <3>1, <3>2
    <3>3. CASE m = d
      BY <2>4, <3>1, <3>3
    <3>4. CASE m # u /\ m # d
      BY <1>v, <2>4, <3>4
    <3> QED BY <3>2, <3>3, <3>4
  <2>12. ASSUME NEW i \in from..to, NEW j \in from..to, i < j
         PROVE  b[i] <= b[j] \/ Together(t, i, j)
    <3>0. i \in 1..Len(array) /\ j \in 1..Len(array) /\ i \in Int /\ j \in Int
      BY <1>4
    <3>1. CASE L <= i /\ i <= R /\ L <= j /\ j <= R
      BY <1>1, <1>2, <3>0, <3>1, PartTogether
    <3>2. CASE L <= i /\ i <= R /\ ~(L <= j /\ j <= R)
      <4>0. i \in L..R
        BY <1>3, <3>0, <3>2
      <4>1. PICK k \in L..R : b[i] = array[k]
        BY <2>a, <4>0
      <4>2. k \in from..to /\ k < j /\ k \in Int /\ j # u /\ j # d
        BY <1>3, <1>4, <2>12, <3>0, <3>2
      <4>3. ~Together(t, k, j)
        BY <1>1, <1>2, <3>0, <3>2, <4>1, <4>2, PartApart
      <4>4. array[k] <= array[j]
        BY <1>6, <4>2, <4>3 DEF Ordered
      <4> QED BY <2>4, <3>0, <4>1, <4>2, <4>4
    <3>3. CASE ~(L <= i /\ i <= R) /\ L <= j /\ j <= R
      <4>0. j \in L..R
        BY <1>3, <3>0, <3>3
      <4>1. PICK k \in L..R : b[j] = array[k]
        BY <2>a, <4>0
      <4>2. k \in from..to /\ i < k /\ k \in Int /\ i # u /\ i # d
        BY <1>3, <1>4, <2>12, <3>0, <3>3
      <4>3. ~Together(t, i, k)
        BY <1>1, <1>2, <3>0, <3>3, <4>1, <4>2, PartApart
      <4>4. array[i] <= array[k]
        BY <1>6, <4>2, <4>3 DEF Ordered
      <4> QED BY <2>4, <3>0, <4>1, <4>2, <4>4
    <3>4. CASE ~(L <= i /\ i <= R) /\ ~(L <= j /\ j <= R)
      <4>1. i # u /\ i # d /\ j # u /\ j # d
        BY <1>3, <1>4, <3>0, <3>4
      <4>2. b[i] = array[i] /\ b[j] = array[j]
        BY <2>4, <3>0, <4>1
      <4> QED BY <1>6, <2>12, <4>2 DEF Ordered
    <3> QED BY <3>1, <3>2, <3>3, <3>4
  <2>13. Pending' = t
    BY <1>1, <1>2
  <2>14. (Within(Pending) /\ InOrder(Pending) /\ Ordered(Pending))'
    BY <1>1, <1>6, <2>2, <2>12, <2>13 DEF Within, InOrder, Ordered, Together
  <2> QED BY <2>9, <2>10, <2>11, <2>14 DEF QuicksortInv
<1>8. CASE ~(u <= d)
  <2>1. array' = array /\ pivot' = pivot /\ l' = u /\ r' = d
    BY <1>2, <1>8 DEF Round
  <2>2. L < l /\ r < R
    BY <1>3, <1>5, <1>8
  <2>3. ASSUME NEW i \in L..R, i < u PROVE array[i] <= v
    <3>1. i < l \/ i \in l..(u - 1)
      BY <1>4, <2>3
    <3> QED BY <1>3, <1>5, <1>v, <3>1
  <2>4. ASSUME NEW i \in L..R, d < i PROVE v <= array[i]
    <3>1. r < i \/ i \in (d + 1)..r
      BY <1>4, <2>4
    <3> QED BY <1>3, <1>5, <1>v, <3>1
  <2>5. L < u /\ d < R
    BY <1>3, <1>4, <2>2
  <2>6. Partitioned'
    <3>1. part'[1] = L /\ part'[2] = R /\ array'[pivot'] = v
      BY <1>1, <1>2, <2>1
    <3> QED BY <1>5, <2>1, <2>3, <2>4, <2>5, <3>1 DEF Partitioned
  <2>7. QuicksortTypeOK' /\ ElementsKept'
    BY <1>1, <1>4, <1>6, <2>1 DEF QuicksortTypeOK, ElementsKept
  <2>8. Pending' = t
    BY <1>1, <1>2
  <2>9. (Within(Pending) /\ InOrder(Pending) /\ Ordered(Pending))'
    BY <1>1, <1>6, <2>1, <2>8 DEF Within, InOrder, Ordered, Together
  <2> QED BY <2>6, <2>7, <2>9 DEF QuicksortInv
<1> QED BY <1>7, <1>8

LEMMA RecurseKeeps ==
    ASSUME QuicksortInv, Recurse
    PROVE  QuicksortInv'
<1>1. /\ part # <<>> /\ l > r /\ part' = <<>>
      /\ UNCHANGED <<given, from, to, array, l, r, pivot>>
      /\ calls' = Push(<<part[1], r>>, Push(<<l, part[2]>>, calls))
  BY DEF Recurse
<1>2. /\ QuicksortTypeOK /\ ElementsKept
      /\ part \in Parts /\ part[1] \in Int /\ part[2] \in Int
      /\ l \in Int /\ r \in Int /\ calls \in Seq(Parts)
      /\ from \in Int /\ to \in Int /\ array \in Seq(Int) /\ Len(array) \in Nat
      /\ from >= 1 /\ to <= Len(array)
  <2>1. QuicksortTypeOK /\ ElementsKept
    BY DEF QuicksortInv
  <2>2. part \in Parts /\ calls \in Seq(Parts) /\ l \in Int /\ r \in Int
    BY <1>1, <2>1 DEF QuicksortTypeOK
  <2>3. array \in Seq(Int) /\ Len(array) \in Nat /\ Len(array) = Len(given)
    BY <2>1 DEF QuicksortTypeOK
  <2>4. from \in Int /\ to \in Int /\ from >= 1 /\ to <= Len(array)
    BY <2>1, <2>3 DEF QuicksortTypeOK
  <2> QED BY <2>1, <2>2, <2>3, <2>4, PartOf
<1>3. PICK L, R, v, t, lower, upper, c :
        /\ L = part[1] /\ R = part[2] /\ v = array[pivot] /\ t = Pending
        /\ lower = <<L, r>> /\ upper = <<l, R>> /\ c = calls
  OBVIOUS
<1>4. PICK s, w : s = Push(upper, c) /\ w = Push(lower, s)
  OBVIOUS
<1>5. /\ lower \in Parts /\ lower[1] = L /\ lower[2] = r
      /\ upper \in Parts /\ upper[1] = l /\ upper[2] = R
  BY <1>2, <1>3 DEF Parts
<1>a. L \in Int /\ R \in Int
  BY <1>2, <1>3
<1>6. calls' = w
  BY <1>1, <1>3, <1>4
<1>7. /\ L < R /\ pivot \in L..R
      /\ \A i \in L..R : i < l => array[i] <= v
      /\ \A i \in L..R : r < i => v <= array[i]
      /\ L < l /\ r < R
  <2>1. /\ L < R /\ pivot \in L..R
        /\ \A i \in L..R : i < l => array[i] <= v
        /\ \A i \in L..R : r < i => v <= array[i]
        /\ (l = L /\ r = R) \/ (L < l /\ r < R)
    BY <1>1, <1>3 DEF QuicksortInv, Partitioned
  <2>2. ~(l = L /\ r = R)
    BY <1>1, <1>2, <1>3, <2>1
  <2> QED BY <2>1, <2>2
<1>8. /\ t = <<part>> \o c /\ c \in Seq(Parts) /\ t[1] = part /\ Len(t) = Len(c) + 1
      /\ Len(c) \in Nat /\ \A k \in 1..Len(c) : t[k + 1] = c[k]
      /\ \A k \in 1..(Len(c) + 1) : t[k] = IF k = 1 THEN part ELSE c[k - 1]
  BY <1>1, <1>2, <1>3, Prefixed DEF Pending
<1>9. Within(t) /\ InOrder(t) /\ Ordered(t)
  BY <1>3 DEF QuicksortInv
<1>10. from <= L /\ R <= to
  <2>1. 1 \in 1..Len(t) /\ t[1][1] = L /\ t[1][2] = R
    BY <1>3, <1>8
  <2> QED BY <1>9, <2>1 DEF Within
<1>11. \A k \in 1..Len(c) : /\ R < c[k][1] /\ from <= c[k][1] /\ c[k][2] <= to
                            /\ c[k] \in Parts /\ c[k][1] \in Int /\ c[k][2] \in Int
  <2> SUFFICES ASSUME NEW k \in 1..Len(c)
               PROVE  /\ R < c[k][1] /\ from <= c[k][1] /\ c[k][2] <= to
                      /\ c[k] \in Parts /\ c[k][1] \in Int /\ c[k][2] \in Int
    OBVIOUS
  <2>1. 1 \in 1..Len(t) /\ k + 1 \in 1..Len(t) /\ 1 < k + 1 /\ t[k + 1] = c[k] /\ t[1][2] = R
    BY <1>3, <1>8
  <2>2. R < c[k][1]
    BY <1>9, <2>1 DEF InOrder
  <2>3. from <= c[k][1] /\ c[k][2] <= to
    BY <1>9, <2>1 DEF Within
  <2>4. c[k] \in Parts
    BY <1>8
  <2> QED BY <2>2, <2>3, <2>4, PartOf
<1>12. InOrder(c)
  <2> SUFFICES ASSUME NEW k \in 1..Len(c), NEW m \in 1..Len(c), k < m PROVE c[k][2] < c[m][1]
    BY DEF InOrder
  <2>1. k + 1 \in 1..Len(t) /\ m + 1 \in 1..Len(t) /\ k + 1 < m + 1
        /\ t[k + 1] = c[k] /\ t[m + 1] = c[m]
    BY <1>8
  <2> QED BY <1>9, <2>1 DEF InOrder
<1>13. /\ s \in Seq(Parts) /\ InOrder(s)
       /\ \A k \in 1..Len(s) : s[k] = upper \/ \E m \in 1..Len(c) : s[k] = c[m]
       /\ \A k \in 1..Len(c) : \E m \in 1..Len(s) : s[m] = c[k]
       /\ l < R => \E m \in 1..Len(s) : s[m] = upper
  BY <1>4, <1>5, <1>8, <1>11, <1>12, PushKeeps
<1>14. \A k \in 1..Len(s) : r < s[k][1] /\ from <= s[k][1] /\ s[k][2] <= to
  <2> SUFFICES ASSUME NEW k \in 1..Len(s) PROVE r < s[k][1] /\ from <= s[k][1] /\ s[k][2] <= to
    OBVIOUS
  <2>1. CASE s[k] = upper
    BY <1>1, <1>2, <1>3, <1>5, <1>7, <1>10, <2>1
  <2>2. ASSUME NEW m \in 1..Len(c), s[k] = c[m] PROVE r < s[k][1] /\ from <= s[k][1] /\ s[k][2] <= to
    <3>1. R < c[m][1] /\ from <= c[m][1] /\ c[m][2] <= to /\ c[m][1] \in Int
      BY <1>11
    <3>2. r < c[m][1]
      BY <1>2, <1>7, <1>a, <3>1
    <3> QED BY <2>2, <3>1, <3>2
  <2> QED BY <1>13, <2>1, <2>2
<1>15. /\ w \in Seq(Parts) /\ InOrder(w)
       /\ \A k \in 1..Len(w) : w[k] = lower \/ \E m \in 1..Len(s) : w[k] = s[m]
       /\ \A k \in 1..Len(s) : \E m \in 1..Len(w) : w[m] = s[k]
       /\ L < r => \E m \in 1..Len(w) : w[m] = lower
  <2>1. \A k \in 1..Len(s) : lower[2] < s[k][1]
    BY <1>5, <1>14
  <2>2. lower[1] < lower[2] <=> L < r
    BY <1>5
  <2>3. lower \in Parts /\ s \in Seq(Parts) /\ InOrder(s)
    BY <1>5, <1>13
  <2>4. /\ Push(lower, s) \in Seq(Parts)
        /\ InOrder(s) /\ (\A k \in 1..Len(s) : lower[2] < s[k][1]) => InOrder(Push(lower, s))
        /\ \A k \in 1..Len(Push(lower, s)) :
             Push(lower, s)[k] = lower \/ \E m \in 1..Len(s) : Push(lower, s)[k] = s[m]
        /\ \A k \in 1..Len(s) : \E m \in 1..Len(Push(lower, s)) : Push(lower, s)[m] = s[k]
        /\ lower[1] < lower[2] => \E m \in 1..Len(Push(lower, s)) : Push(lower, s)[m] = lower
    BY <2>3, PushKeeps
  <2>5. InOrder(Push(lower, s))
    BY <2>1, <2>3, <2>4
  <2>6. w = Push(lower, s)
    BY <1>4
  <2> QED BY <2>2, <2>4, <2>5, <2>6
<1>16. Within(w)
  <2> SUFFICES ASSUME NEW k \in 1..Len(w) PROVE from <= w[k][1] /\ w[k][2] <= to
    BY DEF Within
  <2>1. CASE w[k] = lower
    BY <1>2, <1>3, <1>5, <1>7, <1>10, <2>1
  <2> QED BY <1>14, <1>15, <2>1
<1>17. ASSUME NEW i \in from..to, NEW j \in from..to, i < j
       PROVE  array[i] <= array[j] \/ Together(w, i, j)
  <2>0. i \in Int /\ j \in Int
    BY <1>2
  <2>1. CASE L <= i /\ j <= R
    <3>0. i \in L..R /\ j \in L..R
      BY <1>2, <1>3, <1>17, <2>0, <2>1
    <3>1. CASE j <= r
      <4>1. L < r
        BY <1>2, <1>3, <1>17, <2>0, <2>1, <3>1
      <4>2. PICK m \in 1..Len(w) : w[m] = lower
        BY <1>15, <4>1
      <4>3. L <= i /\ i <= r /\ L <= j /\ j <= r
        BY <1>2, <1>3, <1>17, <2>0, <2>1, <3>1
      <4> QED BY <1>5, <4>2, <4>3 DEF Together
    <3>2. CASE l <= i
      <4>1. l < R
        BY <1>2, <1>3, <1>17, <2>0, <2>1, <3>2
      <4>2. PICK m \in 1..Len(s) : s[m] = upper
        BY <1>13, <4>1
      <4>3. PICK n \in 1..Len(w) : w[n] = upper
        BY <1>15, <4>2
      <4>4. l <= i /\ i <= R /\ l <= j /\ j <= R
        BY <1>2, <1>a, <1>17, <2>0, <2>1, <3>2
      <4> QED BY <1>5, <4>3, <4>4 DEF Together
    <3>3. CASE ~(j <= r) /\ ~(l <= i)
      <4>1. array[i] <= v /\ v <= array[j]
        BY <1>2, <1>7, <2>0, <3>0, <3>3
      <4>2. /\ i \in 1..Len(array) /\ j \in 1..Len(array) /\ pivot \in 1..Len(array)
        <5>1. 1 <= L /\ R <= Len(array)
          BY <1>2, <1>a, <1>10
        <5> QED BY <1>2, <1>7, <1>a, <3>0, <5>1
      <4>3. array[i] \in Int /\ array[j] \in Int /\ v \in Int
        BY <1>2, <1>3, <4>2
      <4> QED BY <4>1, <4>3
    <3> QED BY <3>1, <3>2, <3>3
  <2>2. CASE ~(L <= i /\ j <= R)
    <3>1. CASE Together(t, i, j)
      <4>1. PICK k \in 1..Len(t) : t[k][1] <= i /\ i <= t[k][2] /\ t[k][1] <= j /\ j <= t[k][2]
        BY <3>1 DEF Together
      <4>2. k # 1
        BY <1>3, <1>8, <2>2, <4>1
      <4>3. k - 1 \in 1..Len(c) /\ t[k] = c[k - 1]
        BY <1>8, <4>2
      <4>4. PICK m \in 1..Len(s) : s[m] = t[k]
        BY <1>13, <4>3
      <4>5. PICK n \in 1..Len(w) : w[n] = t[k]
        BY <1>15, <4>4
      <4> QED BY <4>1, <4>5 DEF Together
    <3>2. CASE ~Together(t, i, j)
      BY <1>9, <1>17, <3>2 DEF Ordered
    <3> QED BY <3>1, <3>2
  <2> QED BY <2>1, <2>2
<1>18. Pending' = w
  BY <1>1, <1>6 DEF Pending
<1>19. QuicksortTypeOK' /\ ElementsKept' /\ Partitioned'
  BY <1>1, <1>2, <1>6, <1>15 DEF QuicksortTypeOK, ElementsKept, Partitioned
<1>20. (Within(Pending) /\ InOrder(Pending) /\ Ordered(Pending))'
  BY <1>1, <1>15, <1>16, <1>17, <1>18 DEF Within, InOrder, Ordered, Together
<1> QED BY <1>19, <1>20 DEF QuicksortInv

LEMMA QuicksortStep == QuicksortInv /\ [QuicksortNext]_quicksortVars => QuicksortInv'
<1> SUFFICES ASSUME QuicksortInv, [QuicksortNext]_quicksortVars PROVE QuicksortInv'
  OBVIOUS
<1>1. CASE UNCHANGED quicksortVars
  <2> USE <1>1 DEF quicksortVars
  <2>1. QuicksortTypeOK' /\ Partitioned' /\ ElementsKept'
    BY DEF QuicksortInv, QuicksortTypeOK, Partitioned, ElementsKept
  <2>2. PICK t : t = Pending
    OBVIOUS
  <2>3. Within(t) /\ InOrder(t) /\ Ordered(t) /\ Pending' = t
    BY <2>2 DEF QuicksortInv, Pending
  <2>4. (Within(Pending) /\ InOrder(Pending) /\ Ordered(Pending))'
    BY <2>3 DEF Within, InOrder, Ordered, Together
  <2> QED BY <2>1, <2>4 DEF QuicksortInv
<1> QED BY <1>1, EnterKeeps, RoundKeeps, RecurseKeeps DEF QuicksortNext

\* quicksort puts every part of every array of numbers into order, loses no
\* element, leaves the rest alone and looks at no index outside of the part it
\* is sorting (quicksort.h:12-43).
THEOREM QuicksortSorts == QuicksortSpec => []Sorts
<1>1. QuicksortInv => Sorts
  <2> SUFFICES ASSUME QuicksortInv PROVE Sorts
    OBVIOUS
  <2>1. QuicksortTypeOK /\ ElementsKept /\ Ordered(Pending)
    BY DEF QuicksortInv
  <2>2. DOMAIN given = 1..Len(given) /\ \A i \in DOMAIN given : given[i] \in Int
    BY <2>1 DEF QuicksortTypeOK
  <2>3. \A i \in DOMAIN given : Occurrences(array, given[i]) = Occurrences(given, given[i])
    BY <2>1, <2>2 DEF ElementsKept
  <2>4. \A i \in DOMAIN given : i \notin from..to => array[i] = given[i]
    <3>1. from \in Int /\ to \in Int
      BY <2>1 DEF QuicksortTypeOK
    <3> QED BY <2>1, <2>2, <3>1 DEF ElementsKept
  <2>5. part # <<>> /\ l <= r => UpTo <= part[2] /\ DownTo >= part[1]
    BY RoundInside
  <2>6. ASSUME part = <<>>, calls = <<>>, NEW i \in from..to, NEW j \in from..to, i < j
        PROVE  array[i] <= array[j]
    <3>1. ~Together(Pending, i, j)
      BY <2>6 DEF Together, Pending
    <3> QED BY <2>1, <2>6, <3>1 DEF Ordered
  <2> QED BY <2>3, <2>4, <2>5, <2>6 DEF Sorts
<1> QED BY <1>1, QuicksortInitial, QuicksortStep, PTL DEF QuicksortSpec
=============================================================================
