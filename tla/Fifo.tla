-------------------------------- MODULE Fifo --------------------------------
(* What a queue promises to its users (queue.h:5 "a fifo queue"): the nodes  *)
(* come out in the order in which they went in, each at most once per        *)
(* insertion, and a node that is inside cannot be inserted again.            *)
EXTENDS Sequences, Functions

CONSTANTS Node,     \* the queue nodes, embedded in their owners' structures
          NoNode    \* the value of "out" before the first removal

VARIABLES items,    \* the nodes inside, oldest first
          out       \* the node the last removal returned

absVars == <<items, out>>

Init == items = <<>> /\ out = NoNode

Insert(n) ==
    /\ n \notin Range(items)
    /\ items' = Append(items, n)
    /\ UNCHANGED out

Remove ==
    /\ items # <<>>
    /\ out' = Head(items)
    /\ items' = Tail(items)

\* sph_queue_init on a queue in use forgets every node
Forget == items' = <<>> /\ UNCHANGED out

Next == (\E n \in Node : Insert(n)) \/ Remove \/ Forget

Spec == Init /\ [][Next]_absVars
=============================================================================
