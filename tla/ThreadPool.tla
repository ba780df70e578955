----------------------------- MODULE ThreadPool -----------------------------
(* thread-pool.c / thread-pool.h.  Worker threads take tasks from a queue    *)
(* guarded by a mutex and sleep on a condition variable; producers enqueue;  *)
(* one serialised control logic creates, resizes and finishes the pool.      *)
(*                                                                           *)
(* A critical section is one step.  Signals and broadcasts are steps of      *)
(* their own: the code sends them after it released the mutex.               *)
EXTENDS Naturals, Sequences, FiniteSets, Functions

CONSTANTS
    Threads,        \* the threads pthread_create can return
    Tasks,          \* task objects of the clients
    Pills,          \* task objects malloc'd to end a worker (sph_thread_finish)
    Producers,      \* client threads that enqueue
    Ctl,            \* the control logic: the caller of new, resize and finish
    None,           \* no thread, no task
    ThreadLimit,    \* sph_thread_pool_thread_limit
    NewSizes,       \* sizes passed to sph_thread_pool_new, which callers keep
                    \* within the limit: it compares them with nothing
    Calls,          \* arguments of the resize and finish calls
    MaxCalls,       \* bound on the number of resize and finish calls
    CreateMayFail,  \* pthread_create may fail
    MallocMayFail   \* malloc may fail

Work == Tasks \cup Pills
Callers == Producers \cup Threads \cup {Ctl}
Call == [size : 0..(ThreadLimit + 1), no_wait : BOOLEAN, discard : BOOLEAN]
NoCall == [size |-> 0, no_wait |-> TRUE, discard |-> FALSE]

ASSUME PoolAssumption ==
    /\ IsFiniteSet(Threads) /\ IsFiniteSet(Producers)
    /\ Tasks \cap Pills = {}
    /\ None \notin Threads /\ None \notin Work
    /\ Threads \cap Producers = {}
    /\ Ctl \notin Threads /\ Ctl \notin Producers
    /\ ThreadLimit \in Nat \ {0}
    /\ NewSizes \subseteq 0..ThreadLimit
    /\ Calls \subseteq Call
    /\ MaxCalls \in Nat
    /\ CreateMayFail \in BOOLEAN /\ MallocMayFail \in BOOLEAN

VARIABLES
    queue,          \* a->queue, the abstract FIFO that module Queue implements
    accepting,      \* a->accepting
    shutdown,       \* a->shutdown
    size,           \* a->size
    threads,        \* a->threads
    sync,           \* mutex and condition: "none", "live" or "destroyed"
    wpc,            \* where each worker thread is
    wtask,          \* the local variable task of each worker
    signals,        \* callers that unlocked but have not signalled yet
    cpc,            \* where the control logic is
    ret,            \* where it is once the current call returned
    call,           \* the arguments of the current call
    idx,            \* the loop variable i
    ncalls          \* resize and finish calls so far

poolVars == <<queue, accepting, shutdown, size, threads, sync>>
workerVars == <<wpc, wtask>>
ctlVars == <<cpc, ret, call, idx, ncalls>>
vars == <<poolVars, workerVars, signals, ctlVars>>

At(pc) == {th \in Threads : wpc[th] = pc}
Running == {wtask[th] : th \in At("run")}

Init ==
    /\ queue = <<>> /\ accepting = FALSE /\ shutdown = FALSE
    /\ size \in 0..ThreadLimit           \* uninitialised memory
    /\ threads = [i \in 0..(ThreadLimit - 1) |-> None]
    /\ sync = "none"
    /\ wpc = [th \in Threads |-> "absent"]
    /\ wtask = [th \in Threads |-> None]
    /\ signals = {}
    /\ cpc = "start" /\ ret = "idle" /\ call = NoCall /\ idx = 0 /\ ncalls = 0

-----------------------------------------------------------------------------
(* Enqueueing.                                                               *)

\* the owner of w may pass it: it is neither queued nor being executed
Free(w) == w \notin Range(queue) \cup Running

\* A client calls sph_thread_pool_enqueue: a producer, or a task running in a
\* worker.  Producers keep the contract of finish and resize: none of them is
\* inside enqueue during a call with size zero.
MayEnqueue(c) ==
    /\ sync = "live" /\ c \notin signals
    /\ \/ c \in Producers /\ cpc \notin {"create", "failed"}
                          /\ (cpc # "idle" => call.size # 0 /\ ret # "failed")
       \/ c \in Threads /\ wpc[c] = "run" /\ wtask[c] \in Tasks

\* Mutant of Push: signals only when the queue was empty.
PushIfEmpty(c, w) ==
    /\ queue' = Append(queue, w)
    /\ signals' = IF queue = <<>> THEN signals \cup {c} ELSE signals

\* Mutant of Push: never signals.
PushSilent(c, w) ==
    /\ queue' = Append(queue, w)
    /\ signals' = signals

\* the rest of sph_thread_pool_enqueue once it saw "accepting"
Push(c, w) ==
    /\ queue' = Append(queue, w)
    /\ signals' = signals \cup {c}

\* sph_thread_pool_enqueue by a client; a pool that is not accepting returns
\* EBUSY and changes nothing
Enqueue(c, w) ==
    /\ MayEnqueue(c) /\ Free(w)
    /\ accepting
    /\ Push(c, w)
    /\ UNCHANGED <<accepting, shutdown, size, threads, sync, workerVars, ctlVars>>

\* pthread_cond_signal and pthread_cond_broadcast
WakeOne ==
    IF At("wait") = {} THEN UNCHANGED wpc
    ELSE \E th \in At("wait") : wpc' = [wpc EXCEPT ![th] = "lock"]
WakeAll ==
    wpc' = [th \in Threads |-> IF wpc[th] = "wait" THEN "lock" ELSE wpc[th]]

\* the signal of sph_thread_pool_enqueue, after the mutex was released
Signal(c) ==
    /\ c \in signals /\ sync = "live"
    /\ signals' = signals \ {c}
    /\ WakeOne
    /\ UNCHANGED <<poolVars, wtask, ctlVars>>

-----------------------------------------------------------------------------
(* sph_thread_pool_worker.  "lock": about to acquire the mutex, at the top   *)
(* of the loop or on the way out of pthread_cond_wait.                       *)

\* Mutants of Dequeue: the task stays in the queue; the newest task first.
DequeueKeeps(th) ==
    queue' = queue /\ wtask' = [wtask EXCEPT ![th] = Head(queue)]
DequeueNewest(th) ==
    /\ queue' = SubSeq(queue, 1, Len(queue) - 1)
    /\ wtask' = [wtask EXCEPT ![th] = queue[Len(queue)]]

\* task = sph_queue_get(sph_queue_deq(&a->queue)): Deq of module Queue
Dequeue(th) ==
    queue' = Tail(queue) /\ wtask' = [wtask EXCEPT ![th] = Head(queue)]

Take(th) ==
    /\ wpc[th] = "lock" /\ sync = "live" /\ queue # <<>>
    /\ Dequeue(th)
    /\ wpc' = [wpc EXCEPT ![th] = "run"]
    /\ UNCHANGED <<accepting, shutdown, size, threads, sync, signals, ctlVars>>

\* Mutant of MayExit: a worker leaves although tasks are queued.
MayExitEarly == shutdown
MayExit == queue = <<>> /\ shutdown

Exit(th) ==
    /\ wpc[th] = "lock" /\ sync = "live" /\ MayExit
    /\ wpc' = [wpc EXCEPT ![th] = "exited"]
    /\ UNCHANGED <<poolVars, wtask, signals, ctlVars>>

\* pthread_cond_wait releases the mutex and sleeps in one step
Wait(th) ==
    /\ wpc[th] = "lock" /\ sync = "live" /\ queue = <<>> /\ ~shutdown
    /\ wpc' = [wpc EXCEPT ![th] = "wait"]
    /\ UNCHANGED <<poolVars, wtask, signals, ctlVars>>

\* POSIX allows pthread_cond_wait to return without a signal
SpuriousWakeup(th) ==
    /\ wpc[th] = "wait" /\ sync = "live"
    /\ wpc' = [wpc EXCEPT ![th] = "lock"]
    /\ UNCHANGED <<poolVars, wtask, signals, ctlVars>>

\* (task->f)(task) returns
TaskReturns(th) ==
    /\ wpc[th] = "run" /\ wtask[th] \in Tasks /\ th \notin signals
    /\ wpc' = [wpc EXCEPT ![th] = "lock"]
    /\ wtask' = [wtask EXCEPT ![th] = None]
    /\ UNCHANGED <<poolVars, signals, ctlVars>>

\* sph_thread_finish: frees its task and ends the thread
ThreadFinish(th) ==
    /\ wpc[th] = "run" /\ wtask[th] \in Pills
    /\ wpc' = [wpc EXCEPT ![th] = "exited"]
    /\ wtask' = [wtask EXCEPT ![th] = None]
    /\ UNCHANGED <<poolVars, signals, ctlVars>>

WorkerStep(th) ==
    Take(th) \/ Exit(th) \/ Wait(th) \/ TaskReturns(th) \/ ThreadFinish(th)

-----------------------------------------------------------------------------
(* The control logic.  A call is over when cpc is back at "idle", or at      *)
(* "failed" for a pool that sph_thread_pool_new could not create.            *)

Return == cpc' = ret /\ call' = NoCall /\ idx' = 0

NewBegin ==
    /\ cpc = "start"
    /\ \E s \in NewSizes : call' = [NoCall EXCEPT !.size = s]
    /\ queue' = <<>> /\ accepting' = TRUE /\ shutdown' = FALSE
    /\ sync' = "live"
    /\ cpc' = "create"
    /\ UNCHANGED <<size, threads, workerVars, signals, ret, idx, ncalls>>

\* Mutant of MoreToCreate: the loop runs once too often.
MoreToCreateOffByOne == idx <= call.size
MoreToCreate == idx < call.size

\* Mutant of Slot: growing stores every handle in the first free slot.
SlotFixed == size
Slot == idx

\* one round of the loops of new and of a growing resize: the new thread
\* starts in the worker's loop
Create ==
    /\ cpc \in {"create", "grow"} /\ MoreToCreate
    /\ \E th \in At("absent") :
         /\ threads' = [threads EXCEPT ![Slot] = th]
         /\ wpc' = [wpc EXCEPT ![th] = "lock"]
    /\ idx' = idx + 1
    /\ UNCHANGED <<queue, accepting, shutdown, size, sync, wtask, signals,
                   cpc, ret, call, ncalls>>

\* pthread_create fails in new: the threads created so far are told to end
\* through finish(a, 1, 0); with none created a->size is never written
CreateFails ==
    /\ CreateMayFail
    /\ cpc = "create" /\ idx < call.size
    /\ IF 0 < idx THEN size' = idx /\ cpc' = "shutdown"
                  ELSE size' = size /\ cpc' = "failed"
    /\ ret' = "failed" /\ call' = NoCall /\ idx' = 0
    /\ UNCHANGED <<queue, accepting, shutdown, threads, sync, workerVars,
                   signals, ncalls>>

NewReturns ==
    /\ cpc = "create" /\ idx = call.size
    /\ size' = call.size
    /\ Return
    /\ UNCHANGED <<queue, accepting, shutdown, threads, sync, workerVars,
                   signals, ret, ncalls>>

\* the order of the phases of sph_thread_pool_resize
AfterDiscard(c) == IF c.size # 0 THEN "pills" ELSE "settle"
AfterShutdown(c) == IF c.discard THEN "discard" ELSE AfterDiscard(c)
FirstPhase(c) == IF c.size > size THEN "grow"
                 ELSE IF c.size = 0 THEN "shutdown" ELSE AfterShutdown(c)

\* What the caller keeps to (thread-pool.h:43-44, 49-52, 61-62): calls are
\* serialised, nobody is enqueueing when a call with size zero begins, and a
\* pool that new could not create is only finished with no_wait.
CallAllowed(c) ==
    /\ c.size = 0 => signals \cap Producers = {}
    /\ cpc = "failed" => c.size = 0 /\ c.no_wait

\* sph_thread_pool_resize, and sph_thread_pool_finish with size zero.  A size
\* above the limit is refused (EINVAL) before anything happens.  Bounds:
\* MaxCalls, and enough thread objects to grow.
CallBegin(c) ==
    /\ cpc \in {"idle", "failed"} /\ ncalls < MaxCalls
    /\ CallAllowed(c)
    /\ c.size > size => Cardinality(At("absent")) >= c.size - size
    /\ ncalls' = ncalls + 1
    /\ IF c.size > ThreadLimit
       THEN UNCHANGED <<cpc, ret, call, idx>>
       ELSE /\ cpc' = FirstPhase(c) /\ ret' = cpc /\ call' = c
            /\ idx' = IF c.size > size THEN size ELSE c.size
    /\ UNCHANGED <<poolVars, workerVars, signals>>

\* pthread_create fails in resize: leaves the loop, result EAGAIN
GrowFails ==
    /\ CreateMayFail
    /\ cpc = "grow" /\ idx < call.size
    /\ size' = idx /\ idx' = call.size
    /\ UNCHANGED <<queue, accepting, shutdown, threads, sync, workerVars,
                   signals, cpc, ret, call, ncalls>>

GrowReturns ==
    /\ cpc = "grow" /\ idx = call.size
    /\ accepting' = TRUE /\ shutdown' = FALSE
    /\ size' = call.size
    /\ Return
    /\ UNCHANGED <<queue, threads, sync, workerVars, signals, ret, ncalls>>

RequestShutdown ==
    /\ cpc = "shutdown"
    /\ accepting' = FALSE /\ shutdown' = TRUE
    /\ cpc' = "wakeShutdown"
    /\ UNCHANGED <<queue, size, threads, sync, workerVars, signals, ret, call,
                   idx, ncalls>>

\* Mutant of Broadcast: signals only.
BroadcastOne ==
    /\ cpc \in {"wakeShutdown", "wakeDiscard"}
    /\ WakeOne
    /\ cpc' = IF cpc = "wakeShutdown" THEN AfterShutdown(call)
                                      ELSE AfterDiscard(call)
    /\ UNCHANGED <<poolVars, wtask, signals, ret, call, idx, ncalls>>

\* pthread_cond_broadcast after the shutdown request and after the discard
Broadcast ==
    /\ cpc \in {"wakeShutdown", "wakeDiscard"}
    /\ WakeAll
    /\ cpc' = IF cpc = "wakeShutdown" THEN AfterShutdown(call)
                                      ELSE AfterDiscard(call)
    /\ UNCHANGED <<poolVars, wtask, signals, ret, call, idx, ncalls>>

DiscardQueue ==
    /\ cpc = "discard"
    /\ queue' = <<>>
    /\ cpc' = "wakeDiscard"
    /\ UNCHANGED <<accepting, shutdown, size, threads, sync, workerVars,
                   signals, ret, call, idx, ncalls>>

\* one round of the shrinking loop; a refused pill ends the call with EBUSY
SendPill ==
    /\ cpc = "pills" /\ idx < size /\ Ctl \notin signals
    /\ \E p \in Pills :
         /\ Free(p)
         /\ IF accepting
            THEN Push(Ctl, p) /\ idx' = idx + 1 /\ UNCHANGED <<cpc, call>>
            ELSE Return /\ UNCHANGED <<queue, signals>>
    /\ UNCHANGED <<accepting, shutdown, size, threads, sync, workerVars, ret,
                   ncalls>>

\* malloc fails: ENOMEM, with the pills sent so far on their way
MallocFails ==
    /\ MallocMayFail
    /\ cpc = "pills" /\ idx < size /\ Ctl \notin signals
    /\ Return
    /\ UNCHANGED <<poolVars, workerVars, signals, ret, ncalls>>

PillsSent ==
    /\ cpc = "pills" /\ idx >= size /\ Ctl \notin signals
    /\ cpc' = "settle" /\ idx' = call.size
    /\ UNCHANGED <<poolVars, workerVars, signals, ret, call, ncalls>>

\* pthread_join: blocks until the thread ended.  Joining something that is
\* not a thread, or a thread joined before, is undefined.
Join ==
    /\ cpc = "settle" /\ ~call.no_wait /\ idx < size
    /\ LET th == threads[idx] IN
       IF th = None \/ (th \in Threads /\ wpc[th] = "joined")
       THEN cpc' = "undefined" /\ UNCHANGED <<wpc, idx>>
       ELSE /\ wpc[th] = "exited"
            /\ wpc' = [wpc EXCEPT ![th] = "joined"]
            /\ idx' = idx + 1 /\ UNCHANGED cpc
    /\ UNCHANGED <<poolVars, wtask, signals, ret, call, ncalls>>

\* Mutant of AllJoined: the last thread is not waited for.
AllButOneJoined == idx + 1 >= size
AllJoined == idx >= size

\* Mutant of Resized: the field is only written after joining.
ResizedIfJoined == IF call.no_wait THEN size ELSE call.size
Resized == call.size

SetSize ==
    /\ cpc = "settle" /\ (call.no_wait \/ AllJoined)
    /\ size' = Resized
    /\ IF ~call.no_wait /\ call.size = 0
       THEN cpc' = "destroy" /\ UNCHANGED <<call, idx>>
       ELSE Return
    /\ UNCHANGED <<queue, accepting, shutdown, threads, sync, workerVars,
                   signals, ret, ncalls>>

\* threads that have not ended
Active == At("lock") \cup At("wait") \cup At("run")

\* A client calls sph_thread_pool_destroy itself; it keeps "requires the pool
\* to be fully shut down and contain no active threads" (thread-pool.h:58).
DestroyBegin ==
    /\ cpc \in {"idle", "failed"} /\ ncalls < MaxCalls
    /\ shutdown => Active = {} /\ signals = {}
    /\ ncalls' = ncalls + 1
    /\ cpc' = "destroy" /\ ret' = cpc
    /\ UNCHANGED <<poolVars, workerVars, signals, call, idx>>

\* the critical section of sph_thread_pool_destroy
Destroy ==
    /\ cpc = "destroy"
    /\ IF size # 0 \/ ~shutdown THEN Return
       ELSE cpc' = "destroySync" /\ UNCHANGED <<call, idx>>
    /\ UNCHANGED <<poolVars, workerVars, signals, ret, ncalls>>

DestroySync ==
    /\ cpc = "destroySync"
    /\ sync' = "destroyed"
    /\ cpc' = "gone" /\ call' = NoCall /\ idx' = 0
    /\ UNCHANGED <<queue, accepting, shutdown, size, threads, workerVars,
                   signals, ret, ncalls>>

\* the steps of a call in progress
CtlStep ==
    \/ Create \/ CreateFails \/ NewReturns
    \/ GrowFails \/ GrowReturns
    \/ RequestShutdown \/ Broadcast \/ DiscardQueue
    \/ SendPill \/ MallocFails \/ PillsSent
    \/ Join \/ SetSize
    \/ Destroy \/ DestroySync

Next ==
    \/ \E c \in Callers : (\E w \in Tasks : Enqueue(c, w)) \/ Signal(c)
    \/ \E th \in Threads : WorkerStep(th) \/ SpuriousWakeup(th)
    \/ NewBegin
    \/ \E c \in Calls : CallBegin(c)
    \/ DestroyBegin
    \/ CtlStep

Spec == Init /\ [][Next]_vars

\* A thread that can go on does: the scheduler runs every thread, the mutex
\* is held only for the few instructions of a critical section, and task
\* functions return.  Nothing forces a client to enqueue or to call.
Fairness ==
    /\ \A th \in Threads : WF_vars(WorkerStep(th)) /\ SF_vars(TaskReturns(th))
    /\ \A c \in Callers : WF_vars(Signal(c))
    /\ WF_vars(CtlStep)

FairSpec == Spec /\ Fairness

-----------------------------------------------------------------------------
(* Properties of every use of the pool.                                      *)

WorkerPCs == {"absent", "lock", "wait", "run", "exited", "joined"}
CtlPCs == {"start", "create", "idle", "failed", "grow", "shutdown",
           "wakeShutdown", "discard", "wakeDiscard", "pills", "settle",
           "destroy", "destroySync", "gone", "undefined"}

\* Types, and the loop index never leaves the array of thread handles: of
\* resize because it compares with the limit, of new because its callers do
\* (PoolAssumption, thread-pool.c:70).
TypeOK ==
    /\ queue \in Seq(Work)
    /\ accepting \in BOOLEAN /\ shutdown \in BOOLEAN
    /\ size \in 0..ThreadLimit
    /\ threads \in [0..(ThreadLimit - 1) -> Threads \cup {None}]
    /\ sync \in {"none", "live", "destroyed"}
    /\ wpc \in [Threads -> WorkerPCs]
    /\ wtask \in [Threads -> Work \cup {None}]
    /\ signals \in SUBSET Callers
    /\ cpc \in CtlPCs /\ ret \in {"idle", "failed"}
    /\ call \in Call /\ call.size <= ThreadLimit
    /\ idx \in 0..ThreadLimit
    /\ ncalls \in 0..MaxCalls

\* A task object is in one place: once in the queue or with one worker.  A
\* node that were twice in the intrusive list would cut or loop the list, and
\* a task taken twice would run after its owner freed it.
OnePlace ==
    /\ \A i, j \in DOMAIN queue : queue[i] = queue[j] => i = j
    /\ \A th \in At("run") : wtask[th] \in Work /\ wtask[th] \notin Range(queue)
    /\ \A t1, t2 \in At("run") : wtask[t1] = wtask[t2] => t1 = t2

\* No wakeup is lost although enqueue signals after it released the mutex:
\* while a worker sleeps, every queued task has a worker on its way to the
\* mutex or a signal on its way to a sleeper.
NoLostWakeup ==
    At("wait") # {} =>
        Len(queue) <= Cardinality(At("lock")) + Cardinality(signals)

\* Nobody sleeps through a shutdown: between the request and the broadcast
\* workers may sleep, afterwards none does and none begins to.
ShutdownWakes ==
    shutdown /\ cpc # "wakeShutdown" => At("wait") = {}

\* The pool implements the task service: at most one start per acceptance,
\* in the order of acceptance, and nothing is lost but by a discard.
Service == INSTANCE TaskService WITH pending <- queue, running <- Running
ServiceSpec == Service!Spec

-----------------------------------------------------------------------------
(* Properties of pools that are not told to go on without waiting.           *)

\* threads that will still use the mutex and the condition: a worker with a
\* pill does not come back to them
Users == At("lock") \cup At("wait") \cup {th \in At("run") : wtask[th] \in Tasks}

\* No thread touches the mutex or the condition after their destruction.
NoUseAfterDestroy == sync = "destroyed" => Users = {} /\ signals = {}

\* resize and finish join only threads, each once.
NoUndefinedJoin == cpc # "undefined"

\* When finish destroys the pool no accepted task is left, queued or running.
Drained == cpc \in {"destroySync", "gone"} => queue = <<>> /\ Running = {}

\* Every accepted task is taken by a worker, or discarded.
AcceptedRuns == \A w \in Tasks : w \in Range(queue) ~> w \notin Range(queue)

\* new, resize and finish return.
CallReturns == cpc \notin {"start", "idle", "failed", "gone"} ~>
                   cpc \in {"idle", "failed", "gone"}

\* Between the calls the threads that have not ended are the requested ones
\* and one for each pill that no worker has swallowed.
Headcount ==
    cpc = "idle" /\ ~shutdown =>
        Cardinality(Active)
          = size + Cardinality(Pills \cap (Range(queue) \cup Running))

\* A shrinking call takes effect: as many workers end as were asked to.
ShrinkTakesEffect ==
    cpc = "idle" ~> cpc # "idle" \/ shutdown \/ Cardinality(Active) = size
=============================================================================
