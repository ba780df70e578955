---------------------------- MODULE MCContainers ---------------------------
(* Small instances: programs that use a hash table, a set, or a queue.       *)
EXTENDS SetTable, Queue, TLC

VARIABLE kind

NoTable == SetInit /\ home = [k \in Keys |-> 0]

MCInit ==
    /\ kind \in {"table", "set", "queue"}
    /\ IF kind = "queue" THEN QueueInit /\ NoTable
       ELSE SetInit /\ QueueInit /\ next = [n \in Node |-> NullNode]

MCNext ==
    /\ UNCHANGED kind
    /\ \/ kind = "table" /\ Next /\ UNCHANGED <<nullable, queueVars>>
       \/ kind = "set" /\ SetNext /\ UNCHANGED queueVars
       \/ kind = "queue" /\ QueueNext /\ UNCHANGED setVars

MCSpec == MCInit /\ [][MCNext]_<<setVars, queueVars, kind>>

\* what no operation reads is not told apart: the old content of empty slots
View == <<home, flags, [s \in Slots |-> IF flags[s] THEN <<keys[s], values[s]>> ELSE None],
          ret, removeVars, nullable, queueVars, kind>>

Symmetry == Permutations(Keys)
=============================================================================
