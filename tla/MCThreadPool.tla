---------------------------- MODULE MCThreadPool ----------------------------
(* Small instances of ThreadPool: the calls of each run.                     *)
EXTENDS ThreadPool, TLC

Resize(n, no_wait, discard) == [size |-> n, no_wait |-> no_wait, discard |-> discard]

\* every argument, sizes up to one above the limit
AllCalls == Call

\* grow, and finish as it is used in the readme and the tests: waiting
FinishCalls == {Resize(ThreadLimit, FALSE, FALSE), Resize(0, FALSE, FALSE),
                Resize(0, FALSE, TRUE)}

\* grow and shrink without waiting
ShrinkCalls == {Resize(n, TRUE, FALSE) : n \in 1..ThreadLimit}

\* finish(no_wait), later finish(wait)
FinishLaterCalls == {Resize(0, TRUE, FALSE), Resize(0, FALSE, FALSE)}

\* shrink and wait, again after a failure, then finish
ShrinkRetryCalls == {Resize(1, FALSE, FALSE), Resize(0, FALSE, FALSE)}

Symmetry == Permutations(Threads) \cup Permutations(Tasks) \cup Permutations(Pills)
=============================================================================
