------------------------------ MODULE Futures ------------------------------
(* futures.c: objects whose function a pool thread applies to an argument    *)
(* and whose result is polled for.  The pool is the one global pool of the   *)
(* file, seen as the task service that module ThreadPool implements, with    *)
(* its workers.  A function may itself make a future and touch it; a future  *)
(* object may be used again after it was touched.                            *)
EXTENDS Naturals, Sequences, FiniteSets, Functions

CONSTANTS
    Objects,     \* sph_future_t objects
    Workers,     \* the threads sph_future_init creates
    None,        \* no object
    Nested,      \* Nested[f]: the object the function of f uses, or None
    MaxRounds,   \* bound: how often an object is used
    MaxDeinits,  \* bound on the calls of sph_future_deinit
    DeinitEarly  \* deinit may be called while functions make futures

Inner == {Nested[f] : f \in Objects} \ {None}

ASSUME FuturesAssumption ==
    /\ IsFiniteSet(Workers) /\ Workers # {}
    /\ None \notin Objects
    /\ Nested \in [Objects -> Objects \cup {None}]
    /\ \A f, g \in Objects : Nested[f] = Nested[g] /\ Nested[f] # None => f = g
    /\ MaxRounds \in Nat /\ MaxDeinits \in Nat
    /\ DeinitEarly \in BOOLEAN

VARIABLES
    initialized, \* sph_futures_pool_is_initialized
    mpc,         \* "idle", or "deinit" inside of sph_future_deinit
    deinits,     \* calls of sph_future_deinit so far
    pending,     \* the pool's queue
    accepting,   \* whether the pool accepts tasks
    wpc,         \* where each worker is
    wfut,        \* the object a worker evaluates
    wval,        \* what it passes to, or got from, the function
    finished,    \* the field finished of each object
    data,        \* the field task.data of each object
    cpc,         \* where the user of each object is
    round,       \* which use of the object this is
    touched,     \* what sph_future_touch returned
    early        \* history: an object was used again before its function returned

mainVars == <<initialized, mpc, deinits, early>>
poolVars == <<pending, accepting>>
workerVars == <<wpc, wfut, wval>>
fieldVars == <<finished, data>>
userVars == <<cpc, round, touched>>
vars == <<mainVars, poolVars, workerVars, fieldVars, userVars>>

\* The content of a data field: the argument of some use of the object, and
\* how often the function was applied to it.
Value == [round : 0..MaxRounds, applied : 0..1]
Argument(r) == [round |-> r, applied |-> 0]
Apply(v) == [round |-> v.round, applied |-> v.applied + 1]

Init ==
    /\ initialized = FALSE /\ mpc = "idle" /\ deinits = 0
    /\ pending = <<>> /\ accepting = FALSE
    /\ wpc = [w \in Workers |-> "absent"]
    /\ wfut = [w \in Workers |-> None]
    /\ wval = [w \in Workers |-> Argument(0)]
    /\ finished \in [Objects -> BOOLEAN]        \* uninitialised memory
    /\ data = [f \in Objects |-> Argument(0)]
    /\ cpc = [f \in Objects |-> "idle"]
    /\ round = [f \in Objects |-> 0]
    /\ touched = [f \in Objects |-> Argument(0)]
    /\ early = FALSE

-----------------------------------------------------------------------------
(* sph_future_init and sph_future_deinit, called by one thread.              *)

\* a second call finds the flag set and changes nothing
FutureInit ==
    /\ mpc = "idle" /\ ~initialized
    /\ initialized' = TRUE
    /\ pending' = <<>> /\ accepting' = TRUE
    /\ wpc' = [w \in Workers |-> "free"]
    /\ UNCHANGED <<mpc, deinits, early, wfut, wval, fieldVars, userVars>>

\* The caller keeps to "must not enqueue new tasks once this call begins"
\* (thread-pool.h:51): none of its own threads is inside sph_future_new, and,
\* if it is careful, no function that makes futures is still to return.
NobodyEnqueues ==
    /\ \A f \in Objects \ Inner : cpc[f] # "prepared"
    /\ \A f \in Objects : Nested[f] # None /\ ~DeinitEarly =>
         cpc[f] \in {"idle", "returned"}

\* Mutant of DeinitBegin: the pool is not told to shut down.
DeinitBeginSilent ==
    /\ mpc = "idle" /\ initialized /\ deinits < MaxDeinits
    /\ NobodyEnqueues
    /\ mpc' = "deinit" /\ deinits' = deinits + 1
    /\ UNCHANGED <<initialized, early, poolVars, workerVars, fieldVars, userVars>>

\* sph_thread_pool_finish(&sph_futures_pool, 0, 0): requests the shutdown
DeinitBegin ==
    /\ mpc = "idle" /\ initialized /\ deinits < MaxDeinits
    /\ NobodyEnqueues
    /\ mpc' = "deinit" /\ deinits' = deinits + 1
    /\ accepting' = FALSE
    /\ UNCHANGED <<initialized, early, pending, workerVars, fieldVars, userVars>>

\* Mutant of AllJoined: deinit does not wait for the workers.
NoneJoined == TRUE
AllJoined == \A w \in Workers : wpc[w] = "absent"

\* every worker was joined and the pool destroyed
DeinitReturns ==
    /\ mpc = "deinit" /\ AllJoined
    /\ initialized' = FALSE /\ mpc' = "idle"
    /\ UNCHANGED <<deinits, early, poolVars, workerVars, fieldVars, userVars>>

-----------------------------------------------------------------------------
(* The user of a future: a thread of the program, or, for an inner future,   *)
(* the function that is being evaluated for the outer one.                   *)

InCall(f) == \E w \in Workers : wpc[w] = "call" /\ Nested[wfut[w]] = f

\* futures are made between init and deinit
MayMake(f) ==
    IF f \in Inner THEN InCall(f) /\ cpc[f] = "idle"
    ELSE initialized /\ mpc = "idle" /\ cpc[f] \in {"idle", "returned"}

\* Mutant of Prepare: finished keeps its old value.
PrepareNoReset(f) ==
    /\ data' = [data EXCEPT ![f] = Argument(round[f] + 1)]
    /\ UNCHANGED finished

\* the assignments of sph_future_new
Prepare(f) ==
    /\ data' = [data EXCEPT ![f] = Argument(round[f] + 1)]
    /\ finished' = [finished EXCEPT ![f] = FALSE]

\* The worker said finished and has still to return from the task function:
\* touch may have given the object back, but to the pool it is in use.
Returning(f) == \E w \in Workers : wpc[w] = "return" /\ wfut[w] = f

FutureNew(f) ==
    /\ MayMake(f) /\ round[f] < MaxRounds
    /\ Prepare(f)
    /\ round' = [round EXCEPT ![f] = @ + 1]
    /\ cpc' = [cpc EXCEPT ![f] = "prepared"]
    /\ early' = (early \/ Returning(f))
    /\ UNCHANGED <<initialized, mpc, deinits, poolVars, workerVars, touched>>

\* sph_thread_pool_enqueue: its result, EBUSY once the pool is shutting down,
\* is ignored
Enqueue(f) ==
    /\ cpc[f] = "prepared"
    /\ pending' = IF accepting THEN Append(pending, f) ELSE pending
    /\ cpc' = [cpc EXCEPT ![f] = "made"]
    /\ UNCHANGED <<mainVars, accepting, workerVars, fieldVars, round, touched>>

TouchBegin(f) ==
    /\ cpc[f] = "made"
    /\ cpc' = [cpc EXCEPT ![f] = "touching"]
    /\ UNCHANGED <<mainVars, poolVars, workerVars, fieldVars, round, touched>>

\* the acquiring load reads 1; a load that reads 0 is followed by a sleep
TouchSees(f) ==
    /\ cpc[f] = "touching" /\ finished[f]
    /\ cpc' = [cpc EXCEPT ![f] = "seen"]
    /\ UNCHANGED <<mainVars, poolVars, workerVars, fieldVars, round, touched>>

TouchReturns(f) ==
    /\ cpc[f] = "seen"
    /\ touched' = [touched EXCEPT ![f] = data[f]]
    /\ cpc' = [cpc EXCEPT ![f] = "returned"]
    /\ UNCHANGED <<mainVars, poolVars, workerVars, fieldVars, round>>

-----------------------------------------------------------------------------
(* A worker of the pool, in sph_future_eval from "call" to "return".         *)

Take(w) ==
    /\ wpc[w] = "free" /\ pending # <<>>
    /\ wpc' = [wpc EXCEPT ![w] = "call"]
    /\ wfut' = [wfut EXCEPT ![w] = Head(pending)]
    /\ wval' = [wval EXCEPT ![w] = data[Head(pending)]]
    /\ pending' = Tail(pending)
    /\ UNCHANGED <<mainVars, accepting, fieldVars, userVars>>

\* a->f returns: a future made inside of it has been touched, and its object
\* goes out of scope
FunctionReturns(w) ==
    /\ wpc[w] = "call"
    /\ LET own == Nested[wfut[w]] IN
         /\ own # None => cpc[own] = "returned"
         /\ cpc' = [f \in Objects |-> IF f = own THEN "idle" ELSE cpc[f]]
    /\ wval' = [wval EXCEPT ![w] = Apply(@)]
    /\ wpc' = [wpc EXCEPT ![w] = "store"]
    /\ UNCHANGED <<mainVars, poolVars, wfut, fieldVars, round, touched>>

\* Mutant of StoreResult: says finished before the last use of the object.
StoreAndPublish(w) ==
    /\ data' = [data EXCEPT ![wfut[w]] = wval[w]]
    /\ finished' = [finished EXCEPT ![wfut[w]] = TRUE]

StoreResult(w) ==
    /\ data' = [data EXCEPT ![wfut[w]] = wval[w]]
    /\ UNCHANGED finished

\* the releasing store
Publish(w) ==
    /\ finished' = [finished EXCEPT ![wfut[w]] = TRUE]
    /\ UNCHANGED data

Store(w) ==
    /\ wpc[w] = "store"
    /\ StoreResult(w)
    /\ wpc' = [wpc EXCEPT ![w] = "publish"]
    /\ UNCHANGED <<mainVars, poolVars, wfut, wval, userVars>>

Finish(w) ==
    /\ wpc[w] = "publish"
    /\ Publish(w)
    /\ wpc' = [wpc EXCEPT ![w] = "return"]
    /\ UNCHANGED <<mainVars, poolVars, wfut, wval, userVars>>

EvalReturns(w) ==
    /\ wpc[w] = "return"
    /\ wpc' = [wpc EXCEPT ![w] = "free"]
    /\ wfut' = [wfut EXCEPT ![w] = None]
    /\ UNCHANGED <<mainVars, poolVars, wval, fieldVars, userVars>>

\* Mutant of MayLeave: a worker leaves although futures are queued.
MayLeaveEarly == ~accepting
MayLeave == ~accepting /\ pending = <<>>

\* the worker ends after a shutdown request
Leave(w) ==
    /\ wpc[w] = "free" /\ MayLeave
    /\ wpc' = [wpc EXCEPT ![w] = "absent"]
    /\ UNCHANGED <<mainVars, poolVars, wfut, wval, fieldVars, userVars>>

WorkerStep(w) ==
    Take(w) \/ FunctionReturns(w) \/ Store(w) \/ Finish(w) \/ EvalReturns(w)
      \/ Leave(w)

\* the steps a user takes once it began; a function goes on by itself
UserStep(f) ==
    \/ Enqueue(f) \/ TouchSees(f) \/ TouchReturns(f)
    \/ f \in Inner /\ (FutureNew(f) \/ TouchBegin(f))

Next ==
    \/ FutureInit \/ DeinitBegin \/ DeinitReturns
    \/ \E f \in Objects : FutureNew(f) \/ TouchBegin(f) \/ UserStep(f)
    \/ \E w \in Workers : WorkerStep(w)

Spec == Init /\ [][Next]_vars

\* Every thread that can go on does, and functions return.  Nothing forces
\* a program to make or touch a future, or to call init and deinit.
Fairness ==
    /\ \A w \in Workers : WF_vars(WorkerStep(w))
    /\ \A f \in Objects : WF_vars(UserStep(f))
    /\ WF_vars(DeinitReturns)

FairSpec == Spec /\ Fairness

-----------------------------------------------------------------------------
UserPCs == {"idle", "prepared", "made", "touching", "seen", "returned"}
WorkerPCs == {"absent", "free", "call", "store", "publish", "return"}

\* Types; a data field never holds the result of applying a function twice.
TypeOK ==
    /\ initialized \in BOOLEAN /\ accepting \in BOOLEAN
    /\ mpc \in {"idle", "deinit"} /\ deinits \in 0..MaxDeinits
    /\ pending \in Seq(Objects)
    /\ wpc \in [Workers -> WorkerPCs]
    /\ wfut \in [Workers -> Objects \cup {None}]
    /\ wval \in [Workers -> Value]
    /\ finished \in [Objects -> BOOLEAN]
    /\ data \in [Objects -> Value]
    /\ cpc \in [Objects -> UserPCs]
    /\ round \in [Objects -> 0..MaxRounds]
    /\ touched \in [Objects -> Value]
    /\ early \in BOOLEAN

\* sph_future_touch returns what the function made of the argument of this
\* use of the object: never the argument, never the result of an earlier use.
ResultOfThisUse ==
    \A f \in Objects : cpc[f] = "returned" =>
        touched[f] = Apply(Argument(round[f]))

\* the workers that will still read or write the object they evaluate
Evaluating == {w \in Workers : wpc[w] \in {"call", "store", "publish"}}

\* Once touch saw it finished, the object belongs to its user: no worker
\* will read or write it, so it may be freed, go out of scope or be used again.
OwnedAfterTouch ==
    \A f \in Objects : cpc[f] \in {"seen", "returned"} =>
        f \notin Range(pending) \cup {wfut[w] : w \in Evaluating}

\* sph_future_deinit "waits till all active futures are finished"
\* (futures.c:48): afterwards every future that was made is finished.
DeinitWaits ==
    mpc = "idle" /\ ~initialized =>
        \A f \in Objects : cpc[f] \in {"made", "touching"} => finished[f]

\* the objects whose task function, sph_future_eval, has not returned
Executing ==
    {wfut[w] : w \in {v \in Workers : wpc[v] \in {"call", "store", "publish", "return"}}}

Service == INSTANCE TaskService WITH Work <- Objects, running <- Executing

\* Up to the first early reuse futures use the pool as its header asks
\* (thread-pool.h:17-18, 55): an object is handed over only when it is not
\* queued and its function, sph_future_eval, has returned, so what module
\* ThreadPool shows of the pool applies to them.  Early reuse means a use
\* that begins after touch gave the object back and before sph_future_eval
\* returned; FuturesReuse.cfg shows that it happens.
ServiceSpec ==
    Service!Init /\ [][early' \/ Service!Next]_(Service!serviceVars)

\* "each task node may be enqueued only once and not reused until its
\* function returns" (thread-pool.h:55), of every program that uses an
\* object again once touch gave it back.
ReuseSpec == Service!Spec

\* sph_future_touch "blocks until future is finished and returns its result"
\* (futures.c:56).
TouchEnds == \A f \in Objects : cpc[f] = "touching" ~> cpc[f] = "returned"

\* sph_future_deinit returns.
DeinitEnds == mpc = "deinit" ~> mpc = "idle"
=============================================================================
