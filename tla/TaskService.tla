----------------------------- MODULE TaskService ----------------------------
(* What the thread pool promises to whoever hands it tasks: a task is in the *)
(* pool at most once, tasks start in the order in which they were accepted,  *)
(* each acceptance starts the task at most once, and no task object is used  *)
(* by the pool after its function returned (thread-pool.h:17-18, 54-55).     *)
EXTENDS Sequences, Functions

CONSTANT Work          \* task objects

VARIABLES pending,     \* accepted tasks no worker has taken, oldest first
          running      \* tasks whose function is being executed

serviceVars == <<pending, running>>

Init == pending = <<>> /\ running = {}

Accept(w) ==
    /\ w \notin Range(pending) \cup running
    /\ pending' = Append(pending, w)
    /\ UNCHANGED running

Start ==
    /\ pending # <<>>
    /\ Head(pending) \notin running
    /\ running' = running \cup {Head(pending)}
    /\ pending' = Tail(pending)

Return(w) ==
    /\ w \in running
    /\ running' = running \ {w}
    /\ UNCHANGED pending

\* the tasks no worker has taken go back to their owners unexecuted
Discard == pending' = <<>> /\ UNCHANGED running

Next == (\E w \in Work : Accept(w) \/ Return(w)) \/ Start \/ Discard

Spec == Init /\ [][Next]_serviceVars
=============================================================================
