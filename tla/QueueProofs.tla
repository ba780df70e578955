----------------------------- MODULE QueueProofs ----------------------------
(* For every finite set of nodes: the linked queue keeps its shape, counts   *)
(* its nodes, and implements the abstract FIFO.                              *)
EXTENDS Queue, FiniteSetTheorems, SequenceTheorems, TLAPS

QInv == QueueTypeOK /\ Linked

\* A sequence without repetitions is no longer than its set of values.
LEMMA BoundedLength ==
  ASSUME NEW s \in Seq(Node), \A i, j \in DOMAIN s : s[i] = s[j] => i = j
  PROVE  Len(s) <= Cardinality(Node)
<1>1. IsFiniteSet(Node)
  BY QueueAssumption
<1>2. s \in [1..Len(s) -> Node] /\ Len(s) \in Nat /\ DOMAIN s = 1..Len(s)
  BY LenProperties
<1>3. s \in Injection(1..Len(s), Node)
  BY <1>2 DEF Injection, IsInjective
<1>4. Cardinality(1..Len(s)) <= Cardinality(Node)
  BY <1>1, <1>3, FS_Injection
<1>5. Cardinality(1..Len(s)) = Len(s)
  <2>1. 1 \in Int /\ Len(s) \in Int
    BY <1>2
  <2>2. Cardinality(1..Len(s)) = IF 1 > Len(s) THEN 0 ELSE Len(s) - 1 + 1
    BY <2>1, FS_Interval
  <2> QED BY <1>2, <2>2
<1> QED BY <1>4, <1>5

\* Inserting a fresh node at the end of the history.
LEMMA AppendFresh ==
  ASSUME NEW s \in Seq(Node), NEW n \in Node, n \notin Range(s),
         \A i, j \in DOMAIN s : s[i] = s[j] => i = j
  PROVE  /\ Append(s, n) \in Seq(Node)
         /\ Len(Append(s, n)) = Len(s) + 1
         /\ \A i \in 1..Len(s) : Append(s, n)[i] = s[i] /\ s[i] # n /\ s[i] \in Node
         /\ Append(s, n)[Len(s) + 1] = n
         /\ \A i, j \in DOMAIN Append(s, n) :
              Append(s, n)[i] = Append(s, n)[j] => i = j
<1>1. /\ Append(s, n) \in Seq(Node)
      /\ Len(Append(s, n)) = Len(s) + 1
      /\ \A i \in 1..Len(s) : Append(s, n)[i] = s[i]
      /\ Append(s, n)[Len(s) + 1] = n
  BY AppendProperties
<1>2. Len(s) \in Nat /\ DOMAIN s = 1..Len(s)
  BY LenProperties
<1>3. DOMAIN Append(s, n) = 1..(Len(s) + 1)
  BY <1>1, LenProperties
<1>4. \A i \in 1..Len(s) : s[i] # n
  BY <1>2 DEF Range
<1>5. \A i \in 1..Len(s) : s[i] \in Node
  BY ElementOfSeq
<1>6. \A i \in 1..(Len(s) + 1) : i \in 1..Len(s) \/ i = Len(s) + 1
  BY <1>2
<1>7. \A i, j \in DOMAIN Append(s, n) :
        Append(s, n)[i] = Append(s, n)[j] => i = j
  BY <1>1, <1>2, <1>3, <1>4, <1>6
<1> QED BY <1>1, <1>4, <1>5, <1>7

\* Removing the oldest node from the history.
LEMMA TailFacts ==
  ASSUME NEW s \in Seq(Node), s # <<>>,
         \A i, j \in DOMAIN s : s[i] = s[j] => i = j
  PROVE  /\ Tail(s) \in Seq(Node)
         /\ Len(s) \in Nat \ {0}
         /\ Len(Tail(s)) = Len(s) - 1
         /\ \A i \in 1..(Len(s) - 1) : Tail(s)[i] = s[i + 1]
         /\ \A i, j \in DOMAIN Tail(s) : Tail(s)[i] = Tail(s)[j] => i = j
         /\ Head(s) = s[1] /\ s[1] \in Node
<1>1. /\ Tail(s) \in Seq(Node)
      /\ Len(Tail(s)) = Len(s) - 1
      /\ \A i \in 1..Len(Tail(s)) : Tail(s)[i] = s[i + 1]
  BY HeadTailProperties
<1>2. Len(s) \in Nat \ {0} /\ DOMAIN s = 1..Len(s)
  BY EmptySeq, LenProperties
<1>3. DOMAIN Tail(s) = 1..(Len(s) - 1)
  BY <1>1, LenProperties
<1>4. \A i \in 1..(Len(s) - 1) : i + 1 \in DOMAIN s
  BY <1>2
<1>5. \A i, j \in DOMAIN Tail(s) : Tail(s)[i] = Tail(s)[j] => i = j
  <2> SUFFICES ASSUME NEW i \in 1..(Len(s) - 1), NEW j \in 1..(Len(s) - 1),
                      Tail(s)[i] = Tail(s)[j]
               PROVE  i = j
    BY <1>3
  <2>1. s[i + 1] = s[j + 1]
    BY <1>1
  <2>2. i + 1 = j + 1
    BY <2>1, <1>4
  <2> QED BY <2>2
<1>6. Head(s) = s[1] /\ s[1] \in Node
  BY <1>2, ElementOfSeq
<1> QED BY <1>1, <1>2, <1>5, <1>6

\* sph_queue_init establishes the shape.
LEMMA InitQInv == QueueInit => QInv
<1> SUFFICES ASSUME QueueInit PROVE QInv
  OBVIOUS
<1>1. Cardinality(Node) \in Nat
  BY FS_CardinalityType, QueueAssumption
<1>2. QueueTypeOK
  BY <1>1, EmptySeq DEF QueueInit, QueueTypeOK, Pointer
<1>3. Linked
  BY EmptySeq DEF QueueInit, Linked, NoRepeats
<1> QED BY <1>2, <1>3 DEF QInv

\* sph_queue_enq keeps the shape.
LEMMA EnqQInv ==
  ASSUME QInv, NEW n \in Node, Enq(n)
  PROVE  QInv'
<1>1. /\ order \in Seq(Node) /\ next \in [Node -> Pointer]
      /\ size = Len(order) /\ NoRepeats
  BY DEF QInv, QueueTypeOK, Linked
<1>2. /\ order' \in Seq(Node) /\ Len(order') = Len(order) + 1
      /\ \A i \in 1..Len(order) : order'[i] = order[i] /\ order[i] # n /\ order[i] \in Node
      /\ order'[Len(order) + 1] = n
      /\ NoRepeats'
  BY <1>1, AppendFresh DEF Enq, NoRepeats
<1>3. Len(order) \in Nat /\ Len(order') <= Cardinality(Node)
  BY <1>1, <1>2, BoundedLength, LenProperties DEF NoRepeats
<1>4. Cardinality(Node) \in Nat
  BY FS_CardinalityType, QueueAssumption
<1>5. size' = Len(order') /\ size' \in 0..Cardinality(Node)
  <2>1. SizeMod \in Nat /\ Cardinality(Node) < SizeMod
    BY QueueAssumption
  <2>2. size' = (Len(order) + 1) % SizeMod
    BY <1>1 DEF Enq
  <2>3. Len(order) + 1 <= Cardinality(Node)
    BY <1>2, <1>3
  <2>4. (Len(order) + 1) % SizeMod = Len(order) + 1
    BY <1>3, <1>4, <2>1, <2>3
  <2> QED BY <1>2, <1>3, <1>4, <2>2, <2>3, <2>4
<1>6. order' # <<>>
  BY <1>2, <1>3, EmptySeq
<1>7. CASE order = <<>>
  <2>1. first = NullNode /\ Len(order) = 0
    BY <1>7, EmptySeq DEF QInv, Linked
  <2>2. first' = n /\ last' = n /\ next' = [next EXCEPT ![n] = NullNode] /\ out' = out
    BY <2>1 DEF Enq
  <2>3. order'[1] = n /\ Len(order') = 1
    BY <1>2, <2>1
  <2>4. QueueTypeOK'
    BY <1>1, <1>2, <1>5, <2>2 DEF QInv, QueueTypeOK, Pointer
  <2>5. Linked'
    BY <1>1, <1>2, <1>5, <1>6, <2>2, <2>3 DEF Linked
  <2> QED BY <2>4, <2>5 DEF QInv
<1>8. CASE order # <<>>
  <2>1. Len(order) \in Nat \ {0}
    BY <1>1, <1>8, EmptySeq
  <2>2. /\ first = order[1] /\ last = order[Len(order)] /\ next[last] = NullNode
        /\ \A i \in 1..(Len(order) - 1) : next[order[i]] = order[i + 1]
    BY <1>8 DEF QInv, Linked
  <2>3. first \in Node /\ last \in Node /\ first # NullNode /\ last # n
    BY <1>2, <2>1, <2>2, QueueAssumption
  <2>4. /\ first' = first /\ last' = n /\ out' = out
        /\ next' = [next EXCEPT ![last] = n, ![n] = NullNode]
    BY <2>3 DEF Enq
  <2>5. QueueTypeOK'
    BY <1>1, <1>2, <1>5, <2>3, <2>4 DEF QInv, QueueTypeOK, Pointer
  <2>6. next'[n] = NullNode /\ next'[last] = n
    BY <1>1, <2>3, <2>4
  <2>7. ASSUME NEW i \in 1..Len(order) PROVE next'[order'[i]] = order'[i + 1]
    <3>1. CASE i = Len(order)
      BY <1>2, <2>1, <2>2, <2>6, <3>1
    <3>2. CASE i # Len(order)
      <4>1. i \in 1..(Len(order) - 1) /\ i + 1 \in 1..Len(order)
        BY <2>1, <3>2
      <4>2. order[i] # last
        BY <2>1, <2>2, <3>2, <1>1, LenProperties DEF NoRepeats
      <4>3. next'[order[i]] = next[order[i]]
        BY <1>1, <1>2, <2>4, <4>2
      <4> QED BY <1>2, <2>2, <4>1, <4>3
    <3> QED BY <3>1, <3>2
  <2>8. first' = order'[1] /\ last' = order'[Len(order')]
    BY <1>2, <2>1, <2>2, <2>4
  <2>9. \A i \in 1..(Len(order') - 1) : next'[order'[i]] = order'[i + 1]
    BY <1>2, <1>3, <2>7
  <2>10. next'[last'] = NullNode
    BY <2>4, <2>6
  <2>11. Linked'
    BY <1>2, <1>5, <1>6, <2>8, <2>9, <2>10 DEF Linked
  <2> QED BY <2>5, <2>11 DEF QInv
<1> QED BY <1>7, <1>8

\* sph_queue_deq keeps the shape, and the counter never counts below zero.
LEMMA DeqQInv ==
  ASSUME QInv, Deq
  PROVE  QInv'
<1>1. /\ order \in Seq(Node) /\ next \in [Node -> Pointer]
      /\ size = Len(order) /\ NoRepeats /\ size # 0
      /\ first \in Pointer /\ last \in Pointer
      /\ size \in 0..Cardinality(Node)
  BY DEF QInv, QueueTypeOK, Linked, Deq
<1>2. order # <<>>
  BY <1>1, EmptySeq
<1>3. /\ order' \in Seq(Node)
      /\ Len(order) \in Nat \ {0}
      /\ Len(order') = Len(order) - 1
      /\ \A i \in 1..(Len(order) - 1) : order'[i] = order[i + 1]
      /\ NoRepeats'
      /\ order[1] \in Node
  BY <1>1, <1>2, TailFacts DEF Deq, NoRepeats
<1>4. /\ first = order[1] /\ last = order[Len(order)] /\ next[last] = NullNode
      /\ \A i \in 1..(Len(order) - 1) : next[order[i]] = order[i + 1]
  BY <1>2 DEF QInv, Linked
<1>5. /\ out' = first /\ first' = next[first] /\ next' = next
      /\ last' = IF next[first] = NullNode THEN NullNode ELSE last
  BY DEF Deq
<1>6. Cardinality(Node) \in Nat
  BY FS_CardinalityType, QueueAssumption
<1>7. size' = Len(order') /\ size' \in 0..Cardinality(Node)
  <2>1. SizeMod \in Nat /\ Cardinality(Node) < SizeMod
    BY QueueAssumption
  <2>2. size' = (size + SizeMod - 1) % SizeMod
    BY DEF Deq
  <2>3. size + SizeMod - 1 = (size - 1) + SizeMod /\ size - 1 \in 0..(SizeMod - 1)
    BY <1>1, <1>3, <1>6, <2>1
  <2>4. (size + SizeMod - 1) % SizeMod = size - 1
    BY <2>1, <2>3
  <2> QED BY <1>1, <1>3, <1>6, <2>2, <2>4
<1>8. QueueTypeOK'
  BY <1>1, <1>3, <1>4, <1>5, <1>7 DEF QInv, QueueTypeOK, Pointer
<1>9. CASE Len(order) = 1
  <2>1. first' = NullNode /\ last' = NullNode
    BY <1>4, <1>5, <1>9
  <2>2. order' = <<>>
    BY <1>3, <1>9, EmptySeq
  <2>3. Linked'
    BY <1>3, <1>7, <2>1, <2>2 DEF Linked
  <2> QED BY <1>8, <2>3 DEF QInv
<1>10. CASE Len(order) # 1
  <2>1. Len(order) - 1 \in Nat \ {0} /\ Len(order') = Len(order) - 1
    BY <1>3, <1>10
  <2>2. next[first] = order[2] /\ order[2] \in Node
    BY <1>1, <1>3, <1>4, <1>10, ElementOfSeq
  <2>3. first' = order'[1] /\ last' = last
    BY <1>3, <1>5, <2>1, <2>2, QueueAssumption
  <2>4. last' = order'[Len(order')]
    BY <1>3, <1>4, <2>1, <2>3
  <2>5. \A i \in 1..(Len(order') - 1) : next'[order'[i]] = order'[i + 1]
    <3> SUFFICES ASSUME NEW i \in 1..(Len(order') - 1)
                 PROVE  next'[order'[i]] = order'[i + 1]
      OBVIOUS
    <3>1. i \in 1..(Len(order) - 1) /\ i + 1 \in 1..(Len(order) - 1)
      BY <2>1
    <3>2. next[order[i + 1]] = order[(i + 1) + 1]
      BY <1>4, <3>1
    <3>3. order'[i] = order[i + 1] /\ order'[i + 1] = order[(i + 1) + 1]
      BY <1>3, <3>1
    <3> QED BY <1>5, <3>2, <3>3
  <2>6. order' # <<>>
    BY <2>1, EmptySeq
  <2>7. Linked'
    BY <1>3, <1>4, <1>5, <1>7, <2>3, <2>4, <2>5, <2>6 DEF Linked
  <2> QED BY <1>8, <2>7 DEF QInv
<1> QED BY <1>9, <1>10

\* Initialising a queue in use keeps the shape.
LEMMA InitAgainQInv ==
  ASSUME QInv, InitAgain
  PROVE  QInv'
<1>1. Cardinality(Node) \in Nat
  BY FS_CardinalityType, QueueAssumption
<1>2. QueueTypeOK'
  BY <1>1, EmptySeq DEF QInv, QueueTypeOK, InitAgain, Pointer
<1>3. Linked'
  BY EmptySeq DEF InitAgain, Linked, NoRepeats
<1> QED BY <1>2, <1>3 DEF QInv

\* Owners that overwrite nodes outside of the queue keep the shape.
LEMMA ScribbleQInv ==
  ASSUME QInv, NEW n \in Node, Scribble(n)
  PROVE  QInv'
<1>1. PICK p \in Pointer : next' = [next EXCEPT ![n] = p]
  BY DEF Scribble
<1>2. UNCHANGED <<first, last, size, out, order>> /\ n \notin Range(order)
  BY DEF Scribble
<1>3. next \in [Node -> Pointer] /\ order \in Seq(Node)
  BY DEF QInv, QueueTypeOK
<1>4. QueueTypeOK'
  BY <1>1, <1>2 DEF QInv, QueueTypeOK
<1>5. \A i \in 1..Len(order) : next'[order[i]] = next[order[i]]
  <2> SUFFICES ASSUME NEW i \in 1..Len(order) PROVE next'[order[i]] = next[order[i]]
    OBVIOUS
  <2>1. order[i] # n /\ order[i] \in Node
    BY <1>2, <1>3, LenProperties, ElementOfSeq DEF Range
  <2> QED BY <1>1, <1>3, <2>1
<1>6. Len(order) \in Nat /\ (order # <<>> => Len(order) # 0)
  BY <1>3, EmptySeq, LenProperties
<1>7. Linked'
  BY <1>2, <1>5, <1>6 DEF QInv, Linked, NoRepeats
<1> QED BY <1>4, <1>7 DEF QInv

\* The shape is inductive.
LEMMA NextQInv == QInv /\ [QueueNext]_queueVars => QInv'
<1> SUFFICES ASSUME QInv, [QueueNext]_queueVars PROVE QInv'
  OBVIOUS
<1>1. CASE UNCHANGED queueVars
  BY <1>1 DEF QInv, QueueTypeOK, Linked, NoRepeats, queueVars
<1> QED BY <1>1, EnqQInv, DeqQInv, InitAgainQInv, ScribbleQInv DEF QueueNext

\* queue.h, every operation: the heap always holds exactly the inserted nodes
\* in insertion order and the counter never wraps.
THEOREM QueueCorrect == QueueSpec => [](QueueTypeOK /\ Linked)
<1>1. QueueSpec => []QInv
  BY InitQInv, NextQInv, PTL DEF QueueSpec
<1>2. QInv => QueueTypeOK /\ Linked
  BY DEF QInv
<1> QED BY <1>1, <1>2, PTL

-----------------------------------------------------------------------------
\* A new queue is an empty FIFO.
LEMMA InitFifo == QueueInit => Abstract!Init
BY DEF QueueInit, Abstract!Init

\* Every step of a well-shaped queue is a step of the FIFO, or none.
LEMMA NextFifo == QInv /\ [QueueNext]_queueVars => [Abstract!Next]_(Abstract!absVars)
<1> SUFFICES ASSUME QInv, [QueueNext]_queueVars
             PROVE  Abstract!Next \/ UNCHANGED <<order, out>>
  BY DEF Abstract!absVars
<1>1. ASSUME NEW n \in Node, Enq(n) PROVE Abstract!Insert(n)
  BY <1>1 DEF Enq, Abstract!Insert, Range, Abstract!Range
<1>2. ASSUME Deq PROVE Abstract!Remove
  <2>1. order # <<>> /\ order \in Seq(Node) /\ first = order[1]
    BY <1>2, EmptySeq DEF Deq, QInv, QueueTypeOK, Linked
  <2>2. Head(order) = order[1]
    BY <2>1
  <2> QED BY <1>2, <2>1, <2>2 DEF Deq, Abstract!Remove
<1>3. ASSUME InitAgain PROVE Abstract!Forget
  BY <1>3 DEF InitAgain, Abstract!Forget
<1>4. ASSUME NEW n \in Node, Scribble(n) PROVE UNCHANGED <<order, out>>
  BY <1>4 DEF Scribble
<1>5. CASE UNCHANGED queueVars
  BY <1>5 DEF queueVars
<1> QED BY <1>1, <1>2, <1>3, <1>4, <1>5 DEF QueueNext, Abstract!Next

\* The linked queue implements the FIFO: sph_queue_deq returns the oldest node
\* inside, once per insertion.
THEOREM QueueIsFifo == QueueSpec => FifoSpec
<1>1. QueueSpec => []QInv
  BY InitQInv, NextQInv, PTL DEF QueueSpec
<1> QED BY <1>1, InitFifo, NextFifo, PTL DEF QueueSpec, FifoSpec, Abstract!Spec
=============================================================================
