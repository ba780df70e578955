-------------------------------- MODULE Queue -------------------------------
(* queue.h: the intrusive singly linked queue under the thread pool.  Nodes  *)
(* live in memory their owners allocate and reuse, so "next" starts with     *)
(* arbitrary contents and keeps stale ones after a removal.                  *)
EXTENDS Naturals, Sequences, FiniteSets, Functions

CONSTANTS Node,       \* every sph_queue_node_t the users own
          NullNode,   \* the null pointer
          SizeMod     \* 2^32: sph_queue_size_t is uint32_t (queue.h:20)

ASSUME QueueAssumption ==
    /\ IsFiniteSet(Node) /\ NullNode \notin Node
    /\ SizeMod \in Nat /\ Cardinality(Node) < SizeMod

VARIABLES next,       \* node->next of every node
          first,      \* a->first
          last,       \* a->last
          size,       \* a->size
          out,        \* what the last sph_queue_deq returned
          order       \* history: the nodes inside, oldest first

queueVars == <<next, first, last, size, out, order>>

Pointer == Node \cup {NullNode}

QueueInit ==
    /\ next \in [Node -> Pointer]     \* malloc'd or stack memory
    /\ first = NullNode /\ last = NullNode /\ size = 0
    /\ out = NullNode
    /\ order = <<>>

\* Mutant of Enq: the link of the new node is not reset.
EnqStaleNext(n) ==
    /\ n \notin Range(order)
    /\ next' = IF first # NullNode THEN [next EXCEPT ![last] = n] ELSE next
    /\ first' = IF first # NullNode THEN first ELSE n
    /\ last' = n
    /\ size' = (size + 1) % SizeMod
    /\ order' = Append(order, n)
    /\ UNCHANGED out

\* sph_queue_enq; "the node must not already be in the queue"
Enq(n) ==
    /\ n \notin Range(order)
    /\ next' = IF first # NullNode THEN [next EXCEPT ![last] = n, ![n] = NullNode]
                                   ELSE [next EXCEPT ![n] = NullNode]
    /\ first' = IF first # NullNode THEN first ELSE n
    /\ last' = n
    /\ size' = (size + 1) % SizeMod
    /\ order' = Append(order, n)
    /\ UNCHANGED out

\* sph_queue_deq; "must only be called when the queue is not empty.
\* a.size can be used to check if the queue is empty"
Deq ==
    /\ size # 0
    /\ out' = first
    /\ last' = IF next[first] = NullNode THEN NullNode ELSE last
    /\ first' = next[first]
    /\ size' = (size + SizeMod - 1) % SizeMod
    /\ order' = Tail(order)
    /\ UNCHANGED next

\* sph_queue_init on a queue in use (the thread pool discards its tasks so)
InitAgain ==
    /\ first' = NullNode /\ last' = NullNode /\ size' = 0
    /\ order' = <<>>
    /\ UNCHANGED <<next, out>>

\* a node outside the queue is its owner's memory: the owner may overwrite it
Scribble(n) ==
    /\ n \notin Range(order)
    /\ \E p \in Pointer : next' = [next EXCEPT ![n] = p]
    /\ UNCHANGED <<first, last, size, out, order>>

QueueNext ==
    \/ \E n \in Node : Enq(n) \/ Scribble(n)
    \/ Deq
    \/ InitAgain

QueueSpec == QueueInit /\ [][QueueNext]_queueVars

-----------------------------------------------------------------------------
\* Types of the C fields and of the history; the counter never counts more
\* nodes than exist, hence never wraps.
QueueTypeOK ==
    /\ next \in [Node -> Pointer]
    /\ first \in Pointer /\ last \in Pointer /\ out \in Pointer
    /\ size \in 0..Cardinality(Node)
    /\ order \in Seq(Node)

NoRepeats == \A i, j \in DOMAIN order : order[i] = order[j] => i = j

\* The heap holds exactly the nodes inserted and not yet removed, in order:
\* the chain from "first" along "next" visits them oldest first and ends at
\* "last" with a null link, whatever stale links the nodes were left with, and
\* "size" counts them, so testing it for zero is testing for emptiness.
Linked ==
    /\ NoRepeats
    /\ size = Len(order)
    /\ order = <<>> => first = NullNode /\ last = NullNode
    /\ order # <<>> =>
         /\ first = order[1]
         /\ last = order[Len(order)]
         /\ next[last] = NullNode
         /\ \A i \in 1..(Len(order) - 1) : next[order[i]] = order[i + 1]

\* The linked queue implements the abstract FIFO: the node sph_queue_deq
\* returns is the oldest one inside.
Abstract == INSTANCE Fifo WITH items <- order, NoNode <- NullNode
FifoSpec == Abstract!Spec

=============================================================================
