-------------------------------- MODULE List -------------------------------
(* list.h: singly linked lists that own their nodes, and doubly linked lists *)
(* of nodes that belong to the program.                                      *)
EXTENDS Integers, Sequences, FiniteSets, SequencesExt

CONSTANTS
    Nodes, Null,
    Heads,           \* variables that hold a singly linked list
    AppendAnywhere,  \* append may be called for other nodes than the last
    UnlinkTwice      \* unlink may be called for a node that is not in the list

ASSUME ListAssumption ==
    /\ Null \notin Nodes /\ IsFiniteSet(Nodes)
    /\ AppendAnywhere \in BOOLEAN /\ UnlinkTwice \in BOOLEAN

VARIABLES
    next,       \* the links of a node
    previous,
    head,       \* the doubly linked list
    order,      \* the nodes the program has linked, in order
    heads,      \* the singly linked lists
    allocated,  \* nodes of these
    report      \* what the last validate printed

dlistVars == <<next, previous, head, order, report>>
slistVars == <<next, heads, allocated>>

\* the node that is n steps behind node h
After(h, n) ==
    LET at[i \in 0..n] ==
          IF i = 0 THEN h ELSE IF at[i - 1] = Null THEN Null ELSE next[at[i - 1]]
    IN at[n]

\* the nodes of the list that begins with h
Reachable(h) == {After(h, i) : i \in 0..Cardinality(Nodes)} \ {Null}
Ends(h) == After(h, Cardinality(Nodes)) = Null
LastNode(h) == IF h = Null THEN Null ELSE CHOOSE n \in Reachable(h) : next[n] = Null

-----------------------------------------------------------------------------
(* Singly linked lists                                                       *)

SlistInit ==
    /\ next = [n \in Nodes |-> Null]
    /\ heads = [h \in Heads |-> Null]
    /\ allocated = {}

\* the program keeps its list where the result is null
AddFront(h, n) ==
    /\ n \notin allocated
    /\ allocated' = allocated \cup {n}
    /\ next' = [next EXCEPT ![n] = heads[h]]
    /\ heads' = [heads EXCEPT ![h] = n]

\* Mutant of RemoveFront: the node is not freed.
RemoveFrontKeeps(h) ==
    /\ heads' = [heads EXCEPT ![h] = IF @ = Null THEN Null ELSE next[@]]
    /\ UNCHANGED <<next, allocated>>
RemoveFront(h) ==
    /\ heads' = [heads EXCEPT ![h] = IF @ = Null THEN Null ELSE next[@]]
    /\ allocated' = allocated \ {heads[h]}
    /\ UNCHANGED next

DestroyList(h) ==
    /\ Ends(heads[h])
    /\ allocated' = allocated \ Reachable(heads[h])
    /\ heads' = [heads EXCEPT ![h] = Null]
    /\ UNCHANGED next

\* node->next = tail: whatever followed the node is no longer in its list.
\* The program gives away the list that is appended.
AppendList(h, n, tail) ==
    /\ h # tail /\ n \in Reachable(heads[h])
    /\ next[n] = Null \/ AppendAnywhere
    /\ next' = [next EXCEPT ![n] = heads[tail]]
    /\ heads' = [heads EXCEPT ![tail] = Null]
    /\ UNCHANGED allocated

SlistNext ==
    \/ \E h \in Heads, n \in Nodes : AddFront(h, n)
    \/ \E h \in Heads : RemoveFront(h) \/ DestroyList(h)
    \/ \E h, tail \in Heads, n \in Nodes : AppendList(h, n, tail)

SlistSpec == SlistInit /\ [][SlistNext]_slistVars

-----------------------------------------------------------------------------
(* Doubly linked lists                                                       *)

DlistInit ==
    /\ next \in [Nodes -> Nodes \cup {Null}]
    /\ previous \in [Nodes -> Nodes \cup {Null}]
    /\ head \in Nodes \cup {Null}
    /\ order = <<>>
    /\ report = "none"

\* the program starts a list of its own, whatever the links were
Begin ==
    /\ head' = Null /\ order' = <<>> /\ report' = "none"
    /\ UNCHANGED <<next, previous>>

\* and puts nodes in front of it
LinkFront(n) ==
    /\ order # <<>> => head = order[1]
    /\ order = <<>> => head = Null
    /\ n \notin ToSet(order)
    /\ next' = [next EXCEPT ![n] = head]
    /\ previous' = [m \in Nodes |-> IF m = n THEN Null
                                    ELSE IF m = head THEN n ELSE previous[m]]
    /\ head' = n /\ order' = <<n>> \o order /\ report' = "none"

\* Mutant of Turned: only the links to the next node are turned around.
TurnedHalf(nodes) ==
    /\ next' = [n \in Nodes |-> IF n \in nodes THEN previous[n] ELSE next[n]]
    /\ UNCHANGED previous
\* each node's links are swapped
Turned(nodes) ==
    /\ next' = [n \in Nodes |-> IF n \in nodes THEN previous[n] ELSE next[n]]
    /\ previous' = [n \in Nodes |-> IF n \in nodes THEN next[n] ELSE previous[n]]

\* the loop ends at the node without a next one, which is the new head
ReverseList ==
    /\ order # <<>>
    /\ Ends(head)
    /\ Turned(Reachable(head))
    /\ head' = LastNode(head) /\ order' = Reverse(order) /\ report' = "none"

\* The links of the node itself stay as they are.
Unlink(n) ==
    /\ n \in ToSet(order) \/ (UnlinkTwice /\ order # <<>>)
    /\ LET before == previous[n]
           after == next[n] IN
       /\ next' = [m \in Nodes |-> IF m = before THEN after ELSE next[m]]
       /\ previous' = [m \in Nodes |-> IF m = after THEN before ELSE previous[m]]
       /\ head' = IF before = Null THEN after ELSE head
    /\ order' = RemoveFirst(order, n) /\ report' = "none"

\* Mutant of LinkError: the links back are not compared.
LinkErrorForward(n, before) == FALSE
\* whether the node that was reached from another one does not point back
LinkError(n, before) == previous[n] # before
\* a node that has neither, which is printed as a circular link
Lonely(n) == next[n] = previous[n] /\ next[n] = Null

\* validate from a node: it stops at the first error
Validated(h) ==
    LET before(i) == IF i = 0 THEN Null ELSE After(h, i - 1)
        wrong == {i \in 0..Cardinality(Nodes) :
                    /\ After(h, i) # Null
                    /\ LinkError(After(h, i), before(i)) \/ Lonely(After(h, i))}
        first == CHOOSE i \in wrong : \A j \in wrong : i <= j
    IN IF wrong = {} THEN IF Ends(h) THEN "ok" ELSE "endless"
       ELSE IF LinkError(After(h, first), before(first)) THEN "link" ELSE "circular"

Validate ==
    /\ report = "none"
    /\ report' = Validated(head)
    /\ UNCHANGED <<next, previous, head, order>>

DlistNext ==
    \/ \E n \in Nodes : LinkFront(n) \/ Unlink(n)
    \/ Begin \/ ReverseList \/ Validate

DlistSpec == DlistInit /\ [][DlistNext]_dlistVars

-----------------------------------------------------------------------------
\* No node of a singly linked list is lost, freed while it is in a list, or in
\* two lists, whatever lists are appended to others (list.h:13-51).
OwnedOnce ==
    /\ \A h \in Heads : Ends(heads[h])
    /\ allocated = UNION {Reachable(heads[h]) : h \in Heads}
    /\ \A g, h \in Heads : g # h => Reachable(heads[g]) \cap Reachable(heads[h]) = {}

\* the nodes of s are linked in that order, in both directions
Chained(s, h) ==
    /\ h = IF s = <<>> THEN Null ELSE s[1]
    /\ \A i \in DOMAIN s :
         /\ next[s[i]] = IF i = Len(s) THEN Null ELSE s[i + 1]
         /\ previous[s[i]] = IF i = 1 THEN Null ELSE s[i - 1]

\* A list that is reversed and unlinked from stays linked in both directions,
\* in the order the program counts on.  Before the first node is linked the
\* head may be anything.
Mirrored == order # <<>> => Chained(order, head)

\* validate reports a list if and only if something is wrong with its links,
\* for all links there can be; the list of a single node apart, which it
\* always reports (list.h:89).
ValidateExact ==
    report # "none" /\ (head # Null => next[head] # Null) =>
      (report = "ok" <=>
         \E s \in SetToAllKPermutations(Nodes) : Chained(s, head))
=============================================================================
