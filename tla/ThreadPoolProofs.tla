-------------------------- MODULE ThreadPoolProofs --------------------------
(* Theorems of ThreadPool for every number of threads, tasks, producers and  *)
(* calls.  First the properties of "every use of the pool", with every       *)
(* failure; then, for programs that get their threads, that each is joined   *)
(* once; then, for programs in which no call fails, how many workers there   *)
(* are; last, what is left behind in programs whose calls wait, and in those *)
(* that never wait and destroy the pool themselves.                          *)
EXTENDS ThreadPool, FiniteSetTheorems, SequenceTheorems, TLAPS

\* The types hold before the pool exists.
LEMMA InitTypeOK == Init => TypeOK
<1> SUFFICES ASSUME Init PROVE TypeOK
  OBVIOUS
<1>1. NoCall \in Call /\ NoCall.size = 0
  BY PoolAssumption DEF NoCall, Call
<1>2. queue \in Seq(Work)
  BY EmptySeq DEF Init
<1> QED BY <1>1, <1>2, PoolAssumption DEF Init, TypeOK, WorkerPCs, CtlPCs

\* Every step keeps the types.
LEMMA NextTypeOK == TypeOK /\ [Next]_vars => TypeOK'
<1> SUFFICES ASSUME TypeOK, [Next]_vars PROVE TypeOK'
  OBVIOUS
<1> USE PoolAssumption DEF TypeOK, WorkerPCs, CtlPCs
<1>0. NoCall \in Call /\ NoCall.size = 0
  BY DEF NoCall, Call
<1>1. ASSUME NEW c \in Callers, NEW w \in Tasks, Enqueue(c, w) PROVE TypeOK'
  <2>1. queue' \in Seq(Work)
    BY <1>1, AppendProperties DEF Enqueue, Push, Work
  <2> QED BY <1>1, <2>1 DEF Enqueue, Push, workerVars, ctlVars
<1>2. ASSUME NEW c \in Callers, Signal(c) PROVE TypeOK'
  BY <1>2 DEF Signal, WakeOne, At, poolVars, ctlVars
<1>3. ASSUME NEW th \in Threads, Take(th) PROVE TypeOK'
  <2>1. Tail(queue) \in Seq(Work) /\ Head(queue) \in Work
    BY <1>3, HeadTailProperties DEF Take
  <2> QED BY <1>3, <2>1 DEF Take, Dequeue, ctlVars
<1>4. ASSUME NEW th \in Threads, Exit(th) \/ Wait(th) \/ SpuriousWakeup(th) PROVE TypeOK'
  BY <1>4 DEF Exit, Wait, SpuriousWakeup, poolVars, ctlVars
<1>5. ASSUME NEW th \in Threads, TaskReturns(th) \/ ThreadFinish(th) PROVE TypeOK'
  <2>1. wpc' \in [Threads -> WorkerPCs] /\ wtask' \in [Threads -> Work \cup {None}]
    BY <1>5 DEF TaskReturns, ThreadFinish
  <2>2. UNCHANGED <<queue, accepting, shutdown, size, threads, sync, signals>>
    BY <1>5 DEF TaskReturns, ThreadFinish, poolVars
  <2>3. UNCHANGED <<cpc, ret, call, idx, ncalls>>
    BY <1>5 DEF TaskReturns, ThreadFinish, ctlVars
  <2> QED BY <2>1, <2>2, <2>3
<1>6. ASSUME NewBegin PROVE TypeOK'
  <2>1. PICK s \in NewSizes : call' = [NoCall EXCEPT !.size = s]
    BY <1>6 DEF NewBegin
  <2>2. call' \in Call /\ call'.size <= ThreadLimit
    <3>1. s \in 0..ThreadLimit
      OBVIOUS
    <3>2. call' = [size |-> s, no_wait |-> TRUE, discard |-> FALSE]
      BY <2>1 DEF NoCall
    <3> QED BY <3>1, <3>2 DEF Call
  <2>3. queue' \in Seq(Work)
    BY <1>6, EmptySeq DEF NewBegin
  <2> QED BY <1>6, <2>2, <2>3 DEF NewBegin, workerVars
<1>7. ASSUME Create PROVE TypeOK'
  <2>1. PICK th \in Threads : /\ threads' = [threads EXCEPT ![idx] = th]
                              /\ wpc' = [wpc EXCEPT ![th] = "lock"]
    BY <1>7 DEF Create, Slot, At
  <2>2. idx + 1 <= ThreadLimit /\ idx' = idx + 1
    BY <1>7 DEF Create, MoreToCreate, Call
  <2> QED BY <1>7, <2>1, <2>2 DEF Create
<1>8. ASSUME CreateFails PROVE TypeOK'
  BY <1>0, <1>8 DEF CreateFails, workerVars
<1>9. ASSUME NewReturns PROVE TypeOK'
  BY <1>0, <1>9 DEF NewReturns, Return, workerVars, Call
<1>10. ASSUME NEW c \in Calls, CallBegin(c) PROVE TypeOK'
  <2>1. c \in Call
    OBVIOUS
  <2>2. CASE c.size > ThreadLimit
    BY <1>10, <2>2 DEF CallBegin, poolVars, workerVars, Call
  <2>3. CASE ~(c.size > ThreadLimit)
    BY <1>10, <2>1, <2>3 DEF CallBegin, poolVars, workerVars, Call,
       FirstPhase, AfterShutdown, AfterDiscard
  <2> QED BY <2>2, <2>3
<1>11. ASSUME GrowFails PROVE TypeOK'
  <2>1. idx \in 0..ThreadLimit /\ call.size \in 0..ThreadLimit
    BY DEF Call
  <2> QED BY <1>11, <2>1 DEF GrowFails, workerVars
<1>12. ASSUME GrowReturns PROVE TypeOK'
  <2>1. size' \in 0..ThreadLimit
    BY <1>12 DEF GrowReturns, Call
  <2>2. /\ cpc' \in CtlPCs /\ call' \in Call /\ call'.size <= ThreadLimit
        /\ idx' \in 0..ThreadLimit
    BY <1>0, <1>12 DEF GrowReturns, Return
  <2>3. accepting' \in BOOLEAN /\ shutdown' \in BOOLEAN
    BY <1>12 DEF GrowReturns
  <2>4. UNCHANGED <<queue, threads, sync, wpc, wtask, signals, ret, ncalls>>
    BY <1>12 DEF GrowReturns, workerVars
  <2> QED BY <2>1, <2>2, <2>3, <2>4
<1>13. ASSUME RequestShutdown \/ DiscardQueue PROVE TypeOK'
  <2>1. queue \in Seq(Work) /\ <<>> \in Seq(Work)
    BY EmptySeq
  <2>2. queue' \in Seq(Work)
    BY <1>13, <2>1, Zenon DEF RequestShutdown, DiscardQueue
  <2>3. accepting' \in BOOLEAN /\ shutdown' \in BOOLEAN /\ cpc' \in CtlPCs
    BY <1>13 DEF RequestShutdown, DiscardQueue
  <2>4. UNCHANGED <<size, threads, sync, wpc, wtask, signals, ret, call, idx, ncalls>>
    BY <1>13 DEF RequestShutdown, DiscardQueue, workerVars
  <2> QED BY <2>2, <2>3, <2>4
<1>14. ASSUME Broadcast PROVE TypeOK'
  <2>1. wpc' \in [Threads -> WorkerPCs]
    BY <1>14 DEF Broadcast, WakeAll
  <2>2. cpc' \in CtlPCs
    BY <1>14 DEF Broadcast, AfterShutdown, AfterDiscard
  <2> QED BY <1>14, <2>1, <2>2 DEF Broadcast, poolVars
<1>15. ASSUME SendPill PROVE TypeOK'
  <2>1. PICK p \in Pills : IF accepting
            THEN Push(Ctl, p) /\ idx' = idx + 1 /\ UNCHANGED <<cpc, call>>
            ELSE Return /\ UNCHANGED <<queue, signals>>
    BY <1>15 DEF SendPill
  <2>2. Append(queue, p) \in Seq(Work)
    BY AppendProperties DEF Work
  <2>3. /\ queue' \in Seq(Work) /\ signals' \in SUBSET Callers
        /\ idx' \in 0..ThreadLimit /\ cpc' \in CtlPCs
        /\ call' \in Call /\ call'.size <= ThreadLimit
    <3>1. CASE accepting
      <4>1. /\ queue' = Append(queue, p) /\ signals' = signals \cup {Ctl}
            /\ idx' = idx + 1 /\ UNCHANGED <<cpc, call>>
        BY <2>1, <3>1 DEF Push
      <4>2. idx + 1 \in 0..ThreadLimit
        BY <1>15 DEF SendPill
      <4>3. signals' \in SUBSET Callers
        BY <4>1 DEF Callers
      <4> QED BY <2>2, <4>1, <4>2, <4>3
    <3>2. CASE ~accepting
      BY <1>0, <2>1, <3>2 DEF Return
    <3> QED BY <3>1, <3>2
  <2> QED BY <1>15, <2>3 DEF SendPill, workerVars
<1>16. ASSUME MallocFails \/ PillsSent PROVE TypeOK'
  BY <1>0, <1>16 DEF MallocFails, PillsSent, Return, poolVars, workerVars, Call
<1>17. ASSUME Join PROVE TypeOK'
  BY <1>17 DEF Join, poolVars
<1>18. ASSUME SetSize PROVE TypeOK'
  BY <1>0, <1>18 DEF SetSize, Resized, Return, workerVars, Call
<1>19. ASSUME DestroyBegin \/ Destroy \/ DestroySync PROVE TypeOK'
  BY <1>0, <1>19 DEF DestroyBegin, Destroy, DestroySync, Return, poolVars, workerVars
<1>20. CASE UNCHANGED vars
  BY <1>20 DEF vars, poolVars, workerVars, ctlVars
<1> QED
  BY <1>1, <1>2, <1>3, <1>4, <1>5, <1>6, <1>7, <1>8, <1>9, <1>10, <1>11, <1>12,
     <1>13, <1>14, <1>15, <1>16, <1>17, <1>18, <1>19, <1>20
  DEF Next, WorkerStep, CtlStep

\* thread-pool.c, every operation and failure: the fields keep their types
\* and the loops over a->threads stay inside the array, that of new because
\* its callers ask for no more threads than the limit.
THEOREM PoolTyped == Spec => []TypeOK
BY InitTypeOK, NextTypeOK, PTL DEF Spec

-----------------------------------------------------------------------------
(* Where the task objects are.                                               *)

\* What a step leaves alone that moves no task and wakes nobody.
Quiet == UNCHANGED <<queue, wpc, wtask, signals>>

\* The steps of the control logic that touch neither the queue nor a worker.
LEMMA QuietSteps ==
  ASSUME \/ CreateFails \/ NewReturns \/ GrowFails \/ GrowReturns
         \/ RequestShutdown \/ MallocFails \/ PillsSent \/ SetSize
         \/ DestroyBegin \/ Destroy \/ DestroySync
         \/ \E c \in Calls : CallBegin(c)
         \/ UNCHANGED vars
  PROVE  Quiet
BY DEF CreateFails, NewReturns, GrowFails, GrowReturns, RequestShutdown,
   MallocFails, PillsSent, SetSize, DestroyBegin, Destroy, DestroySync,
   CallBegin, vars, poolVars, workerVars, Quiet

\* Steps that take no task and add none to the queue.
LEMMA OnePlaceKept ==
  ASSUME OnePlace, queue' = queue \/ queue' = <<>>,
         \A th \in Threads : wpc'[th] = "run" =>
            wpc[th] = "run" /\ wtask'[th] = wtask[th]
  PROVE  OnePlace'
BY DEF OnePlace, At, Range

\* Enqueueing a free task object keeps it in one place.
LEMMA OnePlacePush ==
  ASSUME TypeOK, OnePlace, NEW w \in Work, Free(w),
         queue' = Append(queue, w), UNCHANGED <<wpc, wtask>>
  PROVE  OnePlace'
<1>1. queue \in Seq(Work) /\ w \notin Range(queue) /\ w \notin Running
  BY DEF TypeOK, Free
<1>2. /\ Len(queue) \in Nat /\ DOMAIN queue = 1..Len(queue)
      /\ DOMAIN queue' = 1..(Len(queue) + 1)
      /\ \A i \in 1..Len(queue) : queue'[i] = queue[i]
      /\ queue'[Len(queue) + 1] = w
  BY <1>1, AppendProperties, LenProperties
<1>3. \A i \in 1..Len(queue) : queue[i] # w
  BY <1>1, <1>2 DEF Range
<1>4. \A i \in DOMAIN queue' : i \in 1..Len(queue) \/ i = Len(queue) + 1
  BY <1>2
<1>5. \A i, j \in DOMAIN queue' : queue'[i] = queue'[j] => i = j
  BY <1>2, <1>3, <1>4 DEF OnePlace
<1>6. Range(queue') = Range(queue) \cup {w}
  <2>1. Range(queue') \subseteq Range(queue) \cup {w}
    BY <1>2, <1>4 DEF Range
  <2>2. Range(queue) \subseteq Range(queue')
    BY <1>2 DEF Range
  <2>3. w \in Range(queue')
    BY <1>2 DEF Range
  <2> QED BY <2>1, <2>2, <2>3
<1>7. \A th \in At("run") : wtask[th] # w
  BY <1>1 DEF Running
<1> QED BY <1>5, <1>6, <1>7 DEF OnePlace, At

\* Removing the oldest element of a sequence without repetitions.
LEMMA TailRange ==
  ASSUME NEW S, NEW q \in Seq(S), q # <<>>,
         \A i, j \in DOMAIN q : q[i] = q[j] => i = j
  PROVE  /\ Head(q) \in S /\ Head(q) \in Range(q)
         /\ Range(Tail(q)) = Range(q) \ {Head(q)}
         /\ \A i, j \in DOMAIN Tail(q) : Tail(q)[i] = Tail(q)[j] => i = j
         /\ Len(Tail(q)) = Len(q) - 1 /\ Len(q) \in Nat \ {0}
<1>1. /\ Head(q) \in S /\ Tail(q) \in Seq(S)
      /\ Len(Tail(q)) = Len(q) - 1
      /\ \A i \in 1..Len(Tail(q)) : Tail(q)[i] = q[i + 1]
  BY HeadTailProperties
<1>2. Len(q) \in Nat \ {0} /\ DOMAIN q = 1..Len(q) /\ Head(q) = q[1]
  BY EmptySeq, LenProperties
<1>3. DOMAIN Tail(q) = 1..(Len(q) - 1)
  BY <1>1, LenProperties
<1>4. \A i \in 1..(Len(q) - 1) : i + 1 \in 1..Len(q) /\ i + 1 # 1
  BY <1>2
<1>5. \A i, j \in DOMAIN Tail(q) : Tail(q)[i] = Tail(q)[j] => i = j
  <2> SUFFICES ASSUME NEW i \in 1..(Len(q) - 1), NEW j \in 1..(Len(q) - 1),
                      q[i + 1] = q[j + 1]
               PROVE  i = j
    BY <1>1, <1>3
  <2>1. i + 1 = j + 1
    BY <1>2, <1>4
  <2> QED BY <2>1
<1>6. Range(Tail(q)) \subseteq Range(q) \ {Head(q)}
  <2> SUFFICES ASSUME NEW i \in 1..(Len(q) - 1)
               PROVE  q[i + 1] \in Range(q) \ {Head(q)}
    BY <1>1, <1>3 DEF Range
  <2> QED BY <1>2, <1>4 DEF Range
<1>7. Range(q) \ {Head(q)} \subseteq Range(Tail(q))
  <2> SUFFICES ASSUME NEW i \in 1..Len(q), q[i] # q[1]
               PROVE  q[i] \in Range(Tail(q))
    BY <1>2 DEF Range
  <2>1. i - 1 \in 1..(Len(q) - 1) /\ (i - 1) + 1 = i
    BY <1>2
  <2>2. Tail(q)[i - 1] = q[i]
    BY <1>1, <2>1
  <2> QED BY <1>3, <2>1, <2>2 DEF Range
<1> QED BY <1>1, <1>2, <1>5, <1>6, <1>7 DEF Range

\* What a worker does to the pool by taking a task.
LEMMA TakeFacts ==
  ASSUME TypeOK, OnePlace, NEW th \in Threads, Take(th)
  PROVE  /\ Head(queue) \in Work /\ Head(queue) \notin Running
         /\ Range(queue') = Range(queue) \ {Head(queue)}
         /\ \A i, j \in DOMAIN queue' : queue'[i] = queue'[j] => i = j
         /\ Len(queue') = Len(queue) - 1 /\ Len(queue) \in Nat \ {0}
         /\ At("run")' = At("run") \cup {th} /\ th \notin At("run")
         /\ wtask'[th] = Head(queue)
         /\ \A t \in At("run") : wtask'[t] = wtask[t]
<1>1. queue \in Seq(Work) /\ queue # <<>> /\ queue' = Tail(queue)
  BY DEF TypeOK, Take, Dequeue
<1>2. /\ Head(queue) \in Work /\ Head(queue) \in Range(queue)
      /\ Range(queue') = Range(queue) \ {Head(queue)}
      /\ \A i, j \in DOMAIN queue' : queue'[i] = queue'[j] => i = j
      /\ Len(queue') = Len(queue) - 1 /\ Len(queue) \in Nat \ {0}
  BY <1>1, TailRange DEF OnePlace
<1>3. Head(queue) \notin Running
  BY <1>2 DEF OnePlace, Running
<1>4. /\ wpc' = [wpc EXCEPT ![th] = "run"] /\ wpc[th] = "lock"
      /\ wtask' = [wtask EXCEPT ![th] = Head(queue)]
      /\ wpc \in [Threads -> WorkerPCs] /\ wtask \in [Threads -> Work \cup {None}]
  BY DEF Take, Dequeue, TypeOK
<1>5. At("run")' = At("run") \cup {th} /\ th \notin At("run")
  BY <1>4 DEF At
<1>6. wtask'[th] = Head(queue) /\ \A t \in At("run") : wtask'[t] = wtask[t]
  BY <1>4 DEF At
<1> QED BY <1>2, <1>3, <1>5, <1>6

\* Every step keeps task objects in one place.
LEMMA NextOnePlace == TypeOK /\ OnePlace /\ [Next]_vars => OnePlace'
<1> SUFFICES ASSUME TypeOK, OnePlace, [Next]_vars PROVE OnePlace'
  OBVIOUS
<1>0. /\ wpc \in [Threads -> WorkerPCs]
      /\ wtask \in [Threads -> Work \cup {None}]
  BY DEF TypeOK
<1>1. ASSUME NEW c \in Callers, NEW w \in Tasks, Enqueue(c, w) PROVE OnePlace'
  BY <1>1, OnePlacePush DEF Enqueue, Push, Work, workerVars
<1>2. ASSUME NEW c \in Callers, Signal(c) PROVE OnePlace'
  BY <1>0, <1>2, OnePlaceKept DEF Signal, WakeOne, At, poolVars
<1>3. ASSUME NEW th \in Threads, Take(th) PROVE OnePlace'
  <2>1. \A t \in At("run") : wtask[t] \in Range(queue) \cup Running /\ wtask[t] \in Running
    BY DEF Running
  <2>2. \A t \in At("run") : wtask[t] # Head(queue)
    BY <1>3, <2>1, TakeFacts
  <2>3. \A t \in At("run")' : wtask'[t] \in Work /\ wtask'[t] \notin Range(queue')
    BY <1>3, TakeFacts DEF OnePlace
  <2>4. \A t1, t2 \in At("run")' : wtask'[t1] = wtask'[t2] => t1 = t2
    BY <1>3, <2>2, TakeFacts DEF OnePlace
  <2> QED BY <1>3, <2>3, <2>4, TakeFacts DEF OnePlace
<1>4. ASSUME NEW th \in Threads, Exit(th) \/ Wait(th) \/ SpuriousWakeup(th) PROVE OnePlace'
  BY <1>0, <1>4, OnePlaceKept DEF Exit, Wait, SpuriousWakeup, poolVars
<1>5. ASSUME NEW th \in Threads, TaskReturns(th) \/ ThreadFinish(th) PROVE OnePlace'
  BY <1>0, <1>5, OnePlaceKept DEF TaskReturns, ThreadFinish, poolVars
<1>6. ASSUME NewBegin \/ DiscardQueue PROVE OnePlace'
  BY <1>6, OnePlaceKept DEF NewBegin, DiscardQueue, workerVars
<1>7. ASSUME Create PROVE OnePlace'
  BY <1>0, <1>7, OnePlaceKept DEF Create, At
<1>8. ASSUME Broadcast PROVE OnePlace'
  BY <1>0, <1>8, OnePlaceKept DEF Broadcast, WakeAll, poolVars
<1>9. ASSUME SendPill PROVE OnePlace'
  <2>1. PICK p \in Pills : /\ Free(p)
                           /\ IF accepting
                              THEN Push(Ctl, p) /\ idx' = idx + 1 /\ UNCHANGED <<cpc, call>>
                              ELSE Return /\ UNCHANGED <<queue, signals>>
    BY <1>9 DEF SendPill
  <2>2. UNCHANGED <<wpc, wtask>>
    BY <1>9 DEF SendPill, workerVars
  <2>3. CASE accepting
    BY <2>1, <2>2, <2>3, OnePlacePush DEF Push, Work
  <2>4. CASE ~accepting
    BY <2>1, <2>2, <2>4, OnePlaceKept
  <2> QED BY <2>3, <2>4
<1>10. ASSUME Join PROVE OnePlace'
  BY <1>0, <1>10, OnePlaceKept DEF Join, poolVars
<1>11. ASSUME Quiet PROVE OnePlace'
  BY <1>11, OnePlaceKept DEF Quiet
<1> QED
  BY <1>1, <1>2, <1>3, <1>4, <1>5, <1>6, <1>7, <1>8, <1>9, <1>10, <1>11, QuietSteps
  DEF Next, WorkerStep, CtlStep

\* No task is anywhere before the pool exists.
LEMMA InitOnePlace == Init => OnePlace
BY DEF Init, OnePlace, At, Range

\* thread-pool.c, every operation: a task object is once in the queue or with
\* one worker, never in two places.
THEOREM TasksInOnePlace == Spec => []OnePlace
<1>1. TypeOK /\ OnePlace /\ [Next]_vars => (TypeOK /\ OnePlace)'
  BY NextTypeOK, NextOnePlace
<1> QED BY <1>1, InitTypeOK, InitOnePlace, PTL DEF Spec

-----------------------------------------------------------------------------
(* Wakeups.                                                                  *)

\* The sets that are counted are finite.
LEMMA FiniteCounts ==
  ASSUME TypeOK
  PROVE  /\ \A pc : IsFiniteSet(At(pc)) /\ Cardinality(At(pc)) \in Nat
         /\ IsFiniteSet(signals) /\ Cardinality(signals) \in Nat
<1>1. IsFiniteSet(Threads) /\ IsFiniteSet(Producers)
  BY PoolAssumption
<1>2. \A pc : At(pc) \in SUBSET Threads
  BY DEF At
<1>3. \A pc : IsFiniteSet(At(pc))
  BY <1>1, <1>2, FS_Subset
<1>4. IsFiniteSet(Producers \cup Threads)
  BY <1>1, FS_Union
<1>5. IsFiniteSet(Callers)
  BY <1>4, FS_AddElement DEF Callers
<1>6. IsFiniteSet(signals)
  BY <1>5, FS_Subset DEF TypeOK
<1> QED BY <1>3, <1>6, FS_CardinalityType

\* One more thread on its way to the mutex, or one less.
LEMMA LockerMoves ==
  ASSUME TypeOK, NEW th \in Threads, NEW pc \in WorkerPCs,
         wpc' = [wpc EXCEPT ![th] = pc]
  PROVE  /\ wpc[th] # "lock" /\ pc = "lock" =>
               Cardinality(At("lock")') = Cardinality(At("lock")) + 1
         /\ wpc[th] = "lock" /\ pc # "lock" =>
               Cardinality(At("lock")') = Cardinality(At("lock")) - 1
         /\ wpc[th] # "lock" /\ pc # "lock" => At("lock")' = At("lock")
         /\ wpc[th] # "wait" /\ pc # "wait" => At("wait")' = At("wait")
<1>1. IsFiniteSet(At("lock"))
  BY FiniteCounts
<1>2. wpc \in [Threads -> WorkerPCs]
  BY DEF TypeOK
<1>3. ASSUME wpc[th] # "lock", pc = "lock"
      PROVE  Cardinality(At("lock")') = Cardinality(At("lock")) + 1
  <2>1. At("lock")' = At("lock") \cup {th} /\ th \notin At("lock")
    BY <1>2, <1>3 DEF At
  <2> QED BY <1>1, <2>1, FS_AddElement
<1>4. ASSUME wpc[th] = "lock", pc # "lock"
      PROVE  Cardinality(At("lock")') = Cardinality(At("lock")) - 1
  <2>1. At("lock")' = At("lock") \ {th} /\ th \in At("lock")
    BY <1>2, <1>4 DEF At
  <2> QED BY <1>1, <2>1, FS_RemoveElement
<1>5. /\ wpc[th] # "lock" /\ pc # "lock" => At("lock")' = At("lock")
      /\ wpc[th] # "wait" /\ pc # "wait" => At("wait")' = At("wait")
  BY <1>2 DEF At
<1> QED BY <1>3, <1>4, <1>5

\* enqueue: one more task, one more signal.
LEMMA PushNoLostWakeup ==
  ASSUME TypeOK, NoLostWakeup, NEW c \in Callers, NEW w \in Work,
         c \notin signals, Push(c, w), UNCHANGED <<wpc, wtask>>
  PROVE  NoLostWakeup'
<1>1. queue \in Seq(Work) /\ IsFiniteSet(signals) /\ Cardinality(signals) \in Nat
  BY FiniteCounts DEF TypeOK
<1>2. Len(queue') = Len(queue) + 1 /\ Len(queue) \in Nat
  BY <1>1, AppendProperties, LenProperties DEF Push
<1>3. Cardinality(signals') = Cardinality(signals) + 1
  BY <1>1, FS_AddElement DEF Push
<1>4. At("wait")' = At("wait") /\ At("lock")' = At("lock") /\ Cardinality(At("lock")) \in Nat
  BY FiniteCounts DEF At
<1> QED BY <1>1, <1>2, <1>3, <1>4 DEF NoLostWakeup

\* Every step keeps enough workers or signals on their way.
LEMMA NextNoLostWakeup == TypeOK /\ NoLostWakeup /\ [Next]_vars => NoLostWakeup'
<1> SUFFICES ASSUME TypeOK, NoLostWakeup, [Next]_vars PROVE NoLostWakeup'
  OBVIOUS
<1>0. /\ wpc \in [Threads -> WorkerPCs] /\ queue \in Seq(Work) /\ Len(queue) \in Nat
      /\ Cardinality(At("lock")) \in Nat
      /\ IsFiniteSet(signals) /\ Cardinality(signals) \in Nat
      /\ {"lock", "wait", "run", "exited", "joined"} \subseteq WorkerPCs
  BY FiniteCounts, LenProperties DEF TypeOK, WorkerPCs
<1>1. ASSUME NEW c \in Callers, NEW w \in Tasks, Enqueue(c, w) PROVE NoLostWakeup'
  BY <1>1, PushNoLostWakeup DEF Enqueue, MayEnqueue, Work, workerVars
<1>2. ASSUME NEW c \in Callers, Signal(c) PROVE NoLostWakeup'
  <2>1. signals' = signals \ {c} /\ c \in signals /\ queue' = queue
    BY <1>2 DEF Signal, poolVars
  <2>2. Cardinality(signals') = Cardinality(signals) - 1
    BY <1>0, <2>1, FS_RemoveElement
  <2>3. CASE At("wait") = {}
    BY <1>2, <2>3 DEF Signal, WakeOne, NoLostWakeup, At
  <2>4. CASE At("wait") # {}
    <3>1. PICK th \in At("wait") : wpc' = [wpc EXCEPT ![th] = "lock"]
      BY <1>2, <2>4 DEF Signal, WakeOne
    <3>2. th \in Threads /\ wpc[th] = "wait"
      BY <3>1 DEF At
    <3>3. Cardinality(At("lock")') = Cardinality(At("lock")) + 1
      BY <1>0, <3>1, <3>2, LockerMoves
    <3>4. Len(queue) <= Cardinality(At("lock")) + Cardinality(signals)
      BY <2>4 DEF NoLostWakeup
    <3> QED BY <1>0, <2>1, <2>2, <3>3, <3>4 DEF NoLostWakeup
  <2> QED BY <2>3, <2>4
<1>3. ASSUME NEW th \in Threads, Take(th) PROVE NoLostWakeup'
  <2>1. Len(queue') = Len(queue) - 1 /\ signals' = signals
    BY <1>0, <1>3, HeadTailProperties DEF Take, Dequeue
  <2>2. wpc[th] = "lock" /\ wpc' = [wpc EXCEPT ![th] = "run"]
    BY <1>3 DEF Take
  <2>3. Cardinality(At("lock")') = Cardinality(At("lock")) - 1 /\ At("wait")' = At("wait")
    BY <1>0, <2>2, LockerMoves
  <2> QED BY <1>0, <2>1, <2>3 DEF NoLostWakeup
<1>4. ASSUME queue' = <<>>, TypeOK' PROVE NoLostWakeup'
  <2>1. Len(queue') = 0 /\ Cardinality(At("lock")') \in Nat /\ Cardinality(signals') \in Nat
    <3>1. IsFiniteSet(At("lock")') /\ IsFiniteSet(signals')
      <4>1. At("lock")' \in SUBSET Threads /\ IsFiniteSet(Threads)
        BY PoolAssumption DEF At
      <4>2. IsFiniteSet(Producers \cup Threads)
        BY PoolAssumption, FS_Union
      <4>3. IsFiniteSet(Callers)
        BY <4>2, FS_AddElement DEF Callers
      <4>4. signals' \in SUBSET Callers
        BY <1>4 DEF TypeOK
      <4> QED BY <4>1, <4>3, <4>4, FS_Subset
    <3>2. Cardinality(At("lock")') \in Nat /\ Cardinality(signals') \in Nat
      BY <3>1, FS_CardinalityType
    <3> QED BY <1>4, <3>2, EmptySeq
  <2> QED BY <2>1 DEF NoLostWakeup
<1>5. ASSUME NEW th \in Threads, Exit(th) \/ Wait(th) PROVE NoLostWakeup'
  BY <1>4, <1>5, NextTypeOK DEF Exit, Wait, MayExit, poolVars
<1>6. ASSUME NEW th \in Threads, SpuriousWakeup(th) PROVE NoLostWakeup'
  <2>1. wpc[th] = "wait" /\ wpc' = [wpc EXCEPT ![th] = "lock"] /\ UNCHANGED <<queue, signals>>
    BY <1>6 DEF SpuriousWakeup, poolVars
  <2>2. Cardinality(At("lock")') = Cardinality(At("lock")) + 1 /\ At("wait") # {}
    BY <1>0, <2>1, LockerMoves DEF At
  <2> QED BY <1>0, <2>1, <2>2 DEF NoLostWakeup
<1>7. ASSUME NEW th \in Threads, TaskReturns(th) PROVE NoLostWakeup'
  <2>1. wpc[th] = "run" /\ wpc' = [wpc EXCEPT ![th] = "lock"] /\ UNCHANGED <<queue, signals>>
    BY <1>7 DEF TaskReturns, poolVars
  <2>2. Cardinality(At("lock")') = Cardinality(At("lock")) + 1 /\ At("wait")' = At("wait")
    BY <1>0, <2>1, LockerMoves
  <2> QED BY <1>0, <2>1, <2>2 DEF NoLostWakeup
<1>8. ASSUME NEW th \in Threads, ThreadFinish(th) PROVE NoLostWakeup'
  <2>1. wpc[th] = "run" /\ wpc' = [wpc EXCEPT ![th] = "exited"] /\ UNCHANGED <<queue, signals>>
    BY <1>8 DEF ThreadFinish, poolVars
  <2>2. At("lock")' = At("lock") /\ At("wait")' = At("wait")
    BY <1>0, <2>1, LockerMoves
  <2> QED BY <2>1, <2>2 DEF NoLostWakeup
<1>9. ASSUME NewBegin \/ DiscardQueue PROVE NoLostWakeup'
  BY <1>4, <1>9, NextTypeOK DEF NewBegin, DiscardQueue
<1>10. ASSUME Create PROVE NoLostWakeup'
  <2>1. PICK th \in At("absent") : wpc' = [wpc EXCEPT ![th] = "lock"]
    BY <1>10 DEF Create
  <2>2. th \in Threads /\ wpc[th] = "absent" /\ UNCHANGED <<queue, signals>>
    BY <1>10, <2>1 DEF Create, At
  <2>3. Cardinality(At("lock")') = Cardinality(At("lock")) + 1 /\ At("wait")' = At("wait")
    BY <1>0, <2>1, <2>2, LockerMoves
  <2> QED BY <1>0, <2>2, <2>3 DEF NoLostWakeup
<1>11. ASSUME Broadcast PROVE NoLostWakeup'
  <2>1. At("wait")' = {}
    BY <1>11 DEF Broadcast, WakeAll, At
  <2> QED BY <2>1 DEF NoLostWakeup
<1>12. ASSUME SendPill PROVE NoLostWakeup'
  <2>1. PICK p \in Pills : IF accepting
                              THEN Push(Ctl, p) /\ idx' = idx + 1 /\ UNCHANGED <<cpc, call>>
                              ELSE Return /\ UNCHANGED <<queue, signals>>
    BY <1>12 DEF SendPill
  <2>2. UNCHANGED <<wpc, wtask>> /\ Ctl \notin signals /\ Ctl \in Callers
    BY <1>12 DEF SendPill, workerVars, Callers
  <2>3. CASE accepting
    BY <2>1, <2>2, <2>3, PushNoLostWakeup DEF Work
  <2>4. CASE ~accepting
    BY <2>1, <2>2, <2>4 DEF NoLostWakeup, At
  <2> QED BY <2>3, <2>4
<1>13. ASSUME Join PROVE NoLostWakeup'
  <2>1. UNCHANGED <<queue, signals>>
    BY <1>13 DEF Join, poolVars
  <2>2. CASE UNCHANGED wpc
    BY <2>1, <2>2 DEF NoLostWakeup, At
  <2>3. CASE ~UNCHANGED wpc
    <3>1. wpc[threads[idx]] = "exited" /\ wpc' = [wpc EXCEPT ![threads[idx]] = "joined"]
      BY <1>13, <2>3 DEF Join
    <3>2. At("lock")' = At("lock") /\ At("wait")' = At("wait")
      BY <1>0, <3>1 DEF At
    <3> QED BY <2>1, <3>2 DEF NoLostWakeup
  <2> QED BY <2>2, <2>3
<1>14. ASSUME Quiet PROVE NoLostWakeup'
  BY <1>14 DEF Quiet, NoLostWakeup, At
<1> QED
  BY <1>1, <1>2, <1>3, <1>5, <1>6, <1>7, <1>8, <1>9, <1>10, <1>11, <1>12, <1>13,
     <1>14, QuietSteps
  DEF Next, WorkerStep, CtlStep

\* Nobody sleeps before the pool exists.
LEMMA InitNoLostWakeup == Init => NoLostWakeup
<1> SUFFICES ASSUME Init PROVE NoLostWakeup
  OBVIOUS
<1>1. At("wait") = {}
  BY DEF Init, At
<1> QED BY <1>1 DEF NoLostWakeup

\* sph_thread_pool_enqueue and sph_thread_pool_worker: although the signal is
\* sent after the unlock, no task waits while nobody is on the way to it.
THEOREM WakeupsNotLost == Spec => []NoLostWakeup
<1>1. TypeOK /\ NoLostWakeup /\ [Next]_vars => (TypeOK /\ NoLostWakeup)'
  BY NextTypeOK, NextNoLostWakeup
<1> QED BY <1>1, InitTypeOK, InitNoLostWakeup, PTL DEF Spec

\* Every step keeps sleepers away once the broadcast was sent.
LEMMA NextShutdownWakes == TypeOK /\ ShutdownWakes /\ [Next]_vars => ShutdownWakes'
<1> SUFFICES ASSUME TypeOK, ShutdownWakes, [Next]_vars PROVE ShutdownWakes'
  OBVIOUS
<1> USE DEF ShutdownWakes, At
<1>0. wpc \in [Threads -> WorkerPCs]
  BY DEF TypeOK
\* the only ways into "wait" and into a shutdown
<1>1. ASSUME NEW th \in Threads, Wait(th) PROVE ShutdownWakes'
  BY <1>1 DEF Wait, poolVars, ctlVars
<1>2. ASSUME RequestShutdown PROVE ShutdownWakes'
  BY <1>2 DEF RequestShutdown
<1>3. ASSUME Broadcast PROVE ShutdownWakes'
  BY <1>3 DEF Broadcast, WakeAll
\* steps that wake threads or move them between other places
<1>4. ASSUME NEW c \in Callers, Signal(c) PROVE ShutdownWakes'
  BY <1>0, <1>4 DEF Signal, WakeOne, poolVars, ctlVars
<1>5. ASSUME NEW th \in Threads, Take(th) \/ Exit(th) \/ SpuriousWakeup(th)
                                 \/ TaskReturns(th) \/ ThreadFinish(th)
      PROVE  ShutdownWakes'
  BY <1>0, <1>5 DEF Take, Exit, SpuriousWakeup, TaskReturns, ThreadFinish,
     poolVars, ctlVars
<1>6. ASSUME Create PROVE ShutdownWakes'
  BY <1>0, <1>6 DEF Create
<1>7. ASSUME Join PROVE ShutdownWakes'
  BY <1>0, <1>7 DEF Join, poolVars
\* steps that leave every thread where it is
<1>8. ASSUME NewBegin \/ GrowReturns PROVE ShutdownWakes'
  BY <1>8 DEF NewBegin, GrowReturns
<1>9. ASSUME \/ CreateFails \/ NewReturns \/ GrowFails \/ DiscardQueue
             \/ SendPill \/ MallocFails \/ PillsSent \/ SetSize
             \/ DestroyBegin \/ Destroy \/ DestroySync
             \/ \E c \in Calls : CallBegin(c)
      PROVE  ShutdownWakes'
  <2>1. UNCHANGED <<wpc, shutdown>> /\ cpc # "wakeShutdown"
    BY <1>9 DEF CreateFails, NewReturns, GrowFails, DiscardQueue, SendPill,
       MallocFails, PillsSent, SetSize, DestroyBegin, Destroy, DestroySync,
       CallBegin, poolVars, workerVars
  <2> QED BY <2>1
<1>10. ASSUME NEW c \in Callers, NEW w \in Tasks, Enqueue(c, w) PROVE ShutdownWakes'
  BY <1>10 DEF Enqueue, workerVars, ctlVars
<1>11. CASE UNCHANGED vars
  BY <1>11 DEF vars, poolVars, workerVars, ctlVars
<1> QED
  BY <1>1, <1>2, <1>3, <1>4, <1>5, <1>6, <1>7, <1>8, <1>9, <1>10, <1>11
  DEF Next, WorkerStep, CtlStep

\* sph_thread_pool_request_shutdown and sph_thread_pool_worker: no worker
\* sleeps through a shutdown, so none keeps pthread_join waiting by sleeping.
THEOREM NobodySleepsThroughShutdown == Spec => []ShutdownWakes
<1>1. TypeOK /\ ShutdownWakes /\ [Next]_vars => (TypeOK /\ ShutdownWakes)'
  BY NextTypeOK, NextShutdownWakes
<1>2. Init => ShutdownWakes
  BY DEF Init, ShutdownWakes
<1> QED BY <1>1, <1>2, InitTypeOK, PTL DEF Spec

-----------------------------------------------------------------------------
(* The pool implements the task service.                                     *)

\* A pool that does not exist is an empty service.
LEMMA InitService == Init => Service!Init
BY DEF Init, Service!Init, Running, At

\* Steps after which the same tasks are running.
LEMMA RunningKept ==
  ASSUME \A th \in Threads : wpc'[th] = "run" <=> wpc[th] = "run",
         \A th \in Threads : wpc[th] = "run" => wtask'[th] = wtask[th]
  PROVE  Running' = Running
<1>1. At("run")' = At("run")
  BY DEF At
<1> QED BY <1>1 DEF Running, At

\* Every step of the pool is a step of the task service, or none.
LEMMA NextService ==
  TypeOK /\ OnePlace /\ [Next]_vars => [Service!Next]_(Service!serviceVars)
<1> SUFFICES ASSUME TypeOK, OnePlace, [Next]_vars
             PROVE  Service!Next \/ UNCHANGED <<queue, Running>>
  BY DEF Service!serviceVars
<1>0. /\ wpc \in [Threads -> WorkerPCs]
      /\ wtask \in [Threads -> Work \cup {None}]
  BY DEF TypeOK
<1>1. ASSUME NEW w \in Work, Free(w), queue' = Append(queue, w), UNCHANGED <<wpc, wtask>>
      PROVE  Service!Next
  <2>1. Running' = Running
    BY <1>1, RunningKept
  <2>2. w \notin Service!Range(queue) \cup Running
    BY <1>1 DEF Free, Range, Service!Range
  <2>3. Service!Accept(w)
    BY <1>1, <2>1, <2>2 DEF Service!Accept
  <2> QED BY <2>3 DEF Service!Next
<1>2. ASSUME NEW c \in Callers, NEW w \in Tasks, Enqueue(c, w) PROVE Service!Next
  BY <1>1, <1>2 DEF Enqueue, Push, Work, workerVars
<1>3. ASSUME NEW th \in Threads, Take(th) PROVE Service!Next
  <2>1. Running' = {wtask'[t] : t \in At("run")'}
    BY DEF Running, At
  <2>2. Running' = Running \cup {Head(queue)}
    BY <1>3, <2>1, TakeFacts DEF Running
  <2>3. Service!Start
    BY <1>3, <2>2, TakeFacts DEF Service!Start, Take, Dequeue
  <2> QED BY <2>3 DEF Service!Next
<1>4. ASSUME NEW th \in Threads, wpc[th] = "run", NEW pc \in {"lock", "exited"},
             wpc' = [wpc EXCEPT ![th] = pc], wtask' = [wtask EXCEPT ![th] = None],
             queue' = queue
      PROVE  Service!Next
  <2>1. At("run")' = At("run") \ {th} /\ th \in At("run")
    BY <1>0, <1>4 DEF At
  <2>2. \A t \in At("run")' : wtask'[t] = wtask[t]
    BY <1>0, <1>4, <2>1
  <2>3. Running' = {wtask[t] : t \in At("run") \ {th}}
    BY <2>1, <2>2 DEF Running, At
  <2>4. wtask[th] \in Work /\ \A t \in At("run") \ {th} : wtask[t] # wtask[th]
    BY <2>1 DEF OnePlace
  <2>5. Running' = Running \ {wtask[th]} /\ wtask[th] \in Running
    BY <2>1, <2>3, <2>4 DEF Running
  <2>6. Service!Return(wtask[th])
    BY <1>4, <2>5 DEF Service!Return
  <2> QED BY <2>4, <2>6 DEF Service!Next
<1>5. ASSUME NEW th \in Threads, TaskReturns(th) \/ ThreadFinish(th) PROVE Service!Next
  BY <1>4, <1>5 DEF TaskReturns, ThreadFinish, poolVars
<1>6. ASSUME NewBegin \/ DiscardQueue PROVE Service!Next
  <2>1. queue' = <<>> /\ Running' = Running
    BY <1>6, RunningKept DEF NewBegin, DiscardQueue, workerVars
  <2> QED BY <2>1 DEF Service!Next, Service!Discard
<1>7. ASSUME SendPill PROVE Service!Next \/ UNCHANGED <<queue, Running>>
  <2>1. PICK p \in Pills : /\ Free(p)
                           /\ IF accepting
                              THEN Push(Ctl, p) /\ idx' = idx + 1 /\ UNCHANGED <<cpc, call>>
                              ELSE Return /\ UNCHANGED <<queue, signals>>
    BY <1>7 DEF SendPill
  <2>2. UNCHANGED <<wpc, wtask>>
    BY <1>7 DEF SendPill, workerVars
  <2>3. CASE accepting
    BY <1>1, <2>1, <2>2, <2>3 DEF Push, Work
  <2>4. CASE ~accepting
    BY <2>1, <2>2, <2>4, RunningKept
  <2> QED BY <2>3, <2>4
<1>8. ASSUME NEW c \in Callers, Signal(c) PROVE UNCHANGED <<queue, Running>>
  BY <1>0, <1>8, RunningKept DEF Signal, WakeOne, At, poolVars
<1>9. ASSUME NEW th \in Threads, Exit(th) \/ Wait(th) \/ SpuriousWakeup(th)
      PROVE  UNCHANGED <<queue, Running>>
  BY <1>0, <1>9, RunningKept DEF Exit, Wait, SpuriousWakeup, poolVars
<1>10. ASSUME Create PROVE UNCHANGED <<queue, Running>>
  BY <1>0, <1>10, RunningKept DEF Create, At
<1>11. ASSUME Broadcast PROVE UNCHANGED <<queue, Running>>
  BY <1>0, <1>11, RunningKept DEF Broadcast, WakeAll, poolVars
<1>12. ASSUME Join PROVE UNCHANGED <<queue, Running>>
  BY <1>0, <1>12, RunningKept DEF Join, poolVars
<1>13. ASSUME Quiet PROVE UNCHANGED <<queue, Running>>
  BY <1>13, RunningKept DEF Quiet
<1> QED
  BY <1>2, <1>3, <1>5, <1>6, <1>7, <1>8, <1>9, <1>10, <1>11, <1>12, <1>13, QuietSteps
  DEF Next, WorkerStep, CtlStep

\* thread-pool.c implements TaskService: tasks start in the order in which
\* they were accepted, once per acceptance, and are given back when they
\* returned, whatever is called and whatever fails.
THEOREM PoolImplementsService == Spec => ServiceSpec
<1>1. TypeOK /\ OnePlace /\ [Next]_vars => (TypeOK /\ OnePlace)'
  BY NextTypeOK, NextOnePlace
<1>2. Spec => [](TypeOK /\ OnePlace)
  BY <1>1, InitTypeOK, InitOnePlace, PTL DEF Spec
<1> QED BY <1>2, InitService, NextService, PTL DEF Spec, ServiceSpec, Service!Spec

-----------------------------------------------------------------------------
(* Programs that get their threads: where the control logic is, and what the *)
(* handles in a->threads are.                                                *)

\* the phases of resize and finish
InCall == {"grow", "shutdown", "wakeShutdown", "discard", "wakeDiscard", "pills", "settle"}

\* Which call is in progress, and what its arguments and its loop index are.
CallInv ==
    /\ cpc \notin {"failed", "undefined"} /\ ret = "idle"
    /\ IF cpc \in InCall THEN call \in Calls ELSE cpc = "create" \/ call.size = 0
    /\ cpc = "start" => idx = 0
    /\ cpc \in {"grow", "pills"} => call.size # 0
    /\ cpc \in {"shutdown", "wakeShutdown"} => call.size = 0
    /\ cpc = "discard" => call.discard
    /\ cpc \in InCall \ {"grow"} => call.size <= idx /\ idx <= size
    /\ cpc \in {"shutdown", "wakeShutdown", "discard", "wakeDiscard"} => idx = call.size

\* What the flags say: a request to shut down goes with the end of acceptance.
FlagInv ==
    /\ accepting <=> ~shutdown /\ cpc # "start"
    /\ cpc \in {"wakeShutdown", "discard", "wakeDiscard", "settle"} /\ call.size = 0 => shutdown
    /\ cpc \in {"destroySync", "gone"} => shutdown
    /\ cpc = "start" => sync = "none" /\ \A th \in Threads : wpc[th] = "absent"
    /\ sync = "destroyed" => cpc = "gone"

\* the handles that are in use: those stored so far, or those up to a->size
Made == IF cpc = "start" THEN 0 ELSE IF cpc \in {"create", "grow"} THEN idx ELSE size

\* the slots that the call in progress has joined
Joined(i) == cpc = "settle" /\ ~call.no_wait /\ call.size <= i /\ i < idx

\* They are handles of different threads, joined only by the call in progress.
Handles ==
    /\ \A i \in 0..(Made - 1) :
         /\ threads[i] \in Threads /\ wpc[threads[i]] # "absent"
         /\ wpc[threads[i]] = "joined" <=> Joined(i)
    /\ \A i, j \in 0..(Made - 1) : threads[i] = threads[j] => i = j

JoinInv == CallInv /\ FlagInv /\ Handles

\* Nothing was done before the pool exists.
LEMMA JoinInitial == Init => JoinInv
<1> SUFFICES ASSUME Init PROVE JoinInv
  OBVIOUS
<1>1. call.size = 0 /\ Made = 0
  BY DEF Init, NoCall, Made
<1>2. CallInv /\ FlagInv
  BY <1>1 DEF Init, CallInv, FlagInv, InCall
<1>3. Handles
  BY <1>1 DEF Init, Handles
<1> QED BY <1>2, <1>3 DEF JoinInv

\* Steps in which no thread is made or joined.
LEMMA HandlesKept ==
  ASSUME Handles, Made' = Made, UNCHANGED threads,
         \A i \in 0..(Made - 1) : Joined(i)' <=> Joined(i),
         \A th \in Threads : (wpc'[th] = "absent" <=> wpc[th] = "absent")
                          /\ (wpc'[th] = "joined" <=> wpc[th] = "joined")
  PROVE  Handles'
BY DEF Handles

\* Steps of the others leave the control logic where it is.
LEMMA CtlKept ==
  ASSUME JoinInv, UNCHANGED <<accepting, shutdown, size, threads, sync, cpc, ret, call, idx>>,
         \A th \in Threads : (wpc'[th] = "absent" <=> wpc[th] = "absent")
                          /\ (wpc'[th] = "joined" <=> wpc[th] = "joined")
  PROVE  JoinInv'
<1>1. CallInv'
  BY DEF JoinInv, CallInv, InCall
<1>2. FlagInv'
  BY DEF JoinInv, FlagInv
<1>3. Made' = Made /\ \A i \in 0..(Made - 1) : Joined(i)' <=> Joined(i)
  BY DEF Made, Joined
<1>4. Handles'
  BY <1>3, HandlesKept DEF JoinInv
<1> QED BY <1>1, <1>2, <1>4 DEF JoinInv

\* What clients and workers do.
LEMMA OthersJoin ==
  ASSUME TypeOK, JoinInv,
         \/ \E c \in Callers : (\E w \in Tasks : Enqueue(c, w)) \/ Signal(c)
         \/ \E th \in Threads : WorkerStep(th) \/ SpuriousWakeup(th)
         \/ UNCHANGED vars
  PROVE  /\ UNCHANGED <<accepting, shutdown, size, threads, sync, cpc, ret, call, idx>>
         /\ cpc # "start"  \/ UNCHANGED <<wpc, queue, wtask>>
         /\ JoinInv'
<1>0. wpc \in [Threads -> WorkerPCs]
  BY DEF TypeOK
<1>1. UNCHANGED <<accepting, shutdown, size, threads, sync, cpc, ret, call, idx>>
  BY DEF Enqueue, Signal, WorkerStep, Take, Exit, Wait, TaskReturns, ThreadFinish,
     SpuriousWakeup, vars, poolVars, ctlVars
<1>2. \A th \in Threads : (wpc'[th] = "absent" <=> wpc[th] = "absent")
                       /\ (wpc'[th] = "joined" <=> wpc[th] = "joined")
  BY <1>0 DEF Enqueue, Signal, WakeOne, WorkerStep, Take, Exit, Wait, TaskReturns,
     ThreadFinish, SpuriousWakeup, At, vars, workerVars
<1>3. ASSUME cpc = "start" PROVE UNCHANGED <<wpc, queue, wtask>>
  <2>1. ~accepting /\ sync = "none" /\ \A th \in Threads : wpc[th] = "absent"
    BY <1>3 DEF JoinInv, FlagInv
  <2> QED
    BY <2>1 DEF Enqueue, Signal, WorkerStep, Take, Exit, Wait, TaskReturns, ThreadFinish,
       SpuriousWakeup, vars, workerVars, poolVars
<1>4. JoinInv'
  BY <1>1, <1>2, CtlKept
<1> QED BY <1>1, <1>3, <1>4

\* The steps of new and of growing.
LEMMA GrowthJoin ==
  ASSUME TypeOK, JoinInv, NewBegin \/ Create \/ NewReturns \/ GrowReturns
  PROVE  JoinInv'
<1>0. /\ wpc \in [Threads -> WorkerPCs] /\ threads \in [0..(ThreadLimit - 1) -> Threads \cup {None}]
      /\ call \in Call /\ call.size \in 0..ThreadLimit /\ idx \in 0..ThreadLimit /\ size \in 0..ThreadLimit
      /\ ThreadLimit \in Nat \ {0} /\ NewSizes \subseteq 0..ThreadLimit
      /\ shutdown \in BOOLEAN /\ accepting \in BOOLEAN
      /\ NoCall.size = 0
  BY PoolAssumption DEF TypeOK, Call, NoCall
<1> USE <1>0
<1>1. CASE NewBegin
  <2>1. PICK s \in NewSizes : call' = [NoCall EXCEPT !.size = s]
    BY <1>1 DEF NewBegin
  <2>2. /\ cpc = "start" /\ cpc' = "create" /\ ~shutdown' /\ sync' = "live" /\ accepting'
        /\ UNCHANGED <<size, threads, wpc, ret, idx>> /\ idx = 0 /\ ret = "idle"
    BY <1>1 DEF NewBegin, workerVars, JoinInv, CallInv
  <2>3. CallInv' /\ FlagInv'
    BY <2>2 DEF CallInv, FlagInv, InCall
  <2>4. Made = 0 /\ Made' = 0
    BY <2>2 DEF Made
  <2>5. Handles'
    BY <2>4 DEF Handles
  <2> QED BY <2>3, <2>5 DEF JoinInv
<1>2. CASE Create
  <2>1. PICK th \in At("absent") : /\ threads' = [threads EXCEPT ![idx] = th]
                                   /\ wpc' = [wpc EXCEPT ![th] = "lock"]
    BY <1>2 DEF Create, Slot
  <2>2. /\ th \in Threads /\ wpc[th] = "absent" /\ idx < call.size /\ idx' = idx + 1
        /\ cpc \in {"create", "grow"}
        /\ UNCHANGED <<accepting, shutdown, size, sync, cpc, ret, call>>
    BY <1>2, <2>1 DEF Create, MoreToCreate, At
  <2>3. CallInv' /\ FlagInv'
    BY <2>2 DEF JoinInv, CallInv, FlagInv, InCall
  <2>4. Made = idx /\ Made' = idx + 1 /\ \A i : ~Joined(i) /\ ~Joined(i)'
    BY <2>2 DEF Made, Joined
  <2>5. \A i \in 0..(idx - 1) : /\ threads'[i] = threads[i] /\ threads[i] \in Threads
                                /\ threads[i] # th /\ wpc'[threads[i]] = wpc[threads[i]]
    BY <2>1, <2>2, <2>4 DEF JoinInv, Handles
  <2>6. threads'[idx] = th /\ wpc'[th] = "lock"
    BY <2>1, <2>2
  <2>7. \A i \in 0..(Made' - 1) : i \in 0..(idx - 1) \/ i = idx
    BY <2>4
  <2>8. \A i \in 0..(Made' - 1) :
          /\ threads'[i] \in Threads /\ wpc'[threads'[i]] # "absent"
          /\ wpc'[threads'[i]] = "joined" <=> Joined(i)'
    BY <2>2, <2>4, <2>5, <2>6, <2>7 DEF JoinInv, Handles
  <2>9. \A i, j \in 0..(Made' - 1) : threads'[i] = threads'[j] => i = j
    BY <2>4, <2>5, <2>6, <2>7 DEF JoinInv, Handles
  <2> QED BY <2>3, <2>8, <2>9 DEF JoinInv, Handles
<1>3. CASE NewReturns \/ GrowReturns
  <2>1. /\ cpc \in {"create", "grow"} /\ idx = call.size /\ size' = call.size
        /\ cpc' = ret /\ call' = NoCall /\ idx' = 0 /\ ret = "idle"
        /\ UNCHANGED <<threads, wpc, ret, sync>>
        /\ (accepting' <=> ~shutdown')
    BY <1>3 DEF NewReturns, GrowReturns, Return, workerVars, JoinInv, CallInv, FlagInv
  <2>2. CallInv' /\ FlagInv'
    BY <2>1 DEF JoinInv, CallInv, FlagInv, InCall
  <2>3. Made' = Made /\ \A i : Joined(i)' <=> Joined(i)
    BY <2>1 DEF Made, Joined
  <2>4. Handles'
    BY <2>1, <2>3, HandlesKept DEF JoinInv
  <2> QED BY <2>2, <2>4 DEF JoinInv
<1> QED BY <1>1, <1>2, <1>3

\* A call begins, and its phases until workers are to be joined.
LEMMA PhasesJoin ==
  ASSUME TypeOK, JoinInv,
         \/ \E c \in Calls : CallBegin(c)
         \/ RequestShutdown \/ Broadcast \/ DiscardQueue \/ SendPill \/ MallocFails \/ PillsSent
  PROVE  JoinInv'
<1>0. /\ wpc \in [Threads -> WorkerPCs]
      /\ call \in Call /\ call.size \in 0..ThreadLimit /\ idx \in 0..ThreadLimit /\ size \in 0..ThreadLimit
      /\ ThreadLimit \in Nat \ {0} /\ shutdown \in BOOLEAN /\ accepting \in BOOLEAN /\ NoCall.size = 0
  BY PoolAssumption DEF TypeOK, Call, NoCall
<1> USE <1>0
<1>1. /\ UNCHANGED <<threads, size, sync>>
      /\ \A th \in Threads : (wpc'[th] = "absent" <=> wpc[th] = "absent")
                          /\ (wpc'[th] = "joined" <=> wpc[th] = "joined")
      /\ cpc # "start"
  BY DEF CallBegin, RequestShutdown, Broadcast, WakeAll, DiscardQueue, SendPill, MallocFails,
     PillsSent, poolVars, workerVars
<1>2. ASSUME CallInv', FlagInv', cpc' # "start", cpc # "settle",
             Made' = Made, cpc' = "settle" => idx' = call'.size
      PROVE  JoinInv'
  <2>1. \A i \in 0..(Made - 1) : Joined(i)' <=> Joined(i)
    <3>1. TypeOK'
      BY NextTypeOK DEF Next, CtlStep
    <3>2. idx' \in Nat
      BY <3>1 DEF TypeOK
    <3> QED BY <1>2, <3>2 DEF Joined
  <2>2. Handles'
    BY <1>1, <1>2, <2>1, HandlesKept DEF JoinInv
  <2> QED BY <1>2, <2>2 DEF JoinInv
<1>3. ASSUME NEW c \in Calls, CallBegin(c) PROVE JoinInv'
  <2>1. cpc = "idle" /\ ret = "idle" /\ UNCHANGED <<accepting, shutdown, size>>
    BY <1>3 DEF CallBegin, JoinInv, CallInv, poolVars
  <2>2. c \in Call /\ c.size \in Nat
    BY PoolAssumption DEF Call
  <2>3. CASE c.size > ThreadLimit
    <3>1. UNCHANGED <<cpc, ret, call, idx>>
      BY <1>3, <2>3 DEF CallBegin
    <3> QED BY <1>1, <2>1, <3>1, CtlKept
  <2>4. CASE ~(c.size > ThreadLimit)
    <3>1. /\ cpc' = IF c.size > size THEN "grow" ELSE IF c.size = 0 THEN "shutdown"
                    ELSE IF c.discard THEN "discard" ELSE "pills"
          /\ ret' = "idle" /\ call' = c
          /\ idx' = IF c.size > size THEN size ELSE c.size
      BY <1>3, <2>1, <2>2, <2>4 DEF CallBegin, FirstPhase, AfterShutdown, AfterDiscard
    <3>2. CallInv'
      BY <2>1, <2>2, <3>1 DEF CallInv, InCall
    <3>3. FlagInv'
      BY <1>1, <2>1, <2>2, <3>1 DEF JoinInv, FlagInv
    <3>4. Made' = Made
      BY <2>1, <3>1 DEF Made
    <3> QED BY <1>2, <2>1, <3>1, <3>2, <3>3, <3>4
  <2> QED BY <2>3, <2>4
<1>4. CASE RequestShutdown \/ DiscardQueue \/ PillsSent
  <2>1. /\ UNCHANGED <<ret, call>>
        /\ \/ cpc = "shutdown" /\ cpc' = "wakeShutdown" /\ ~accepting' /\ shutdown' /\ idx' = idx
           \/ cpc = "discard" /\ cpc' = "wakeDiscard" /\ UNCHANGED <<accepting, shutdown, idx>>
           \/ /\ cpc = "pills" /\ cpc' = "settle" /\ UNCHANGED <<accepting, shutdown>>
              /\ idx' = call.size
    BY <1>4 DEF RequestShutdown, DiscardQueue, PillsSent, poolVars
  <2>2. CallInv'
    BY <1>1, <2>1 DEF JoinInv, CallInv, InCall
  <2>3. FlagInv'
    BY <1>1, <2>1 DEF JoinInv, CallInv, FlagInv
  <2>4. Made' = Made
    BY <1>1, <2>1 DEF Made
  <2> QED BY <1>2, <2>1, <2>2, <2>3, <2>4
<1>5. CASE Broadcast
  <2>1. /\ UNCHANGED <<ret, call, accepting, shutdown, idx>>
        /\ \/ cpc = "wakeShutdown" /\ cpc' = IF call.discard THEN "discard"
                                             ELSE IF call.size # 0 THEN "pills" ELSE "settle"
           \/ cpc = "wakeDiscard" /\ cpc' = IF call.size # 0 THEN "pills" ELSE "settle"
    BY <1>5 DEF Broadcast, AfterShutdown, AfterDiscard, poolVars
  <2>2. CallInv'
    BY <1>1, <2>1 DEF JoinInv, CallInv, InCall
  <2>3. FlagInv'
    BY <1>1, <2>1 DEF JoinInv, CallInv, FlagInv
  <2>4. Made' = Made
    BY <1>1, <2>1 DEF Made
  <2>5. cpc' = "settle" => idx' = call'.size
    BY <2>1 DEF JoinInv, CallInv
  <2> QED BY <1>2, <2>1, <2>2, <2>3, <2>4, <2>5
<1>6. CASE SendPill \/ MallocFails
  <2>1. /\ cpc = "pills" /\ idx < size /\ UNCHANGED <<accepting, shutdown, ret>>
        /\ \/ cpc' = "pills" /\ idx' = idx + 1 /\ call' = call
           \/ cpc' = ret /\ idx' = 0 /\ call' = NoCall
    BY <1>6 DEF SendPill, MallocFails, Return, Push, poolVars
  <2>2. CallInv'
    BY <1>1, <2>1 DEF JoinInv, CallInv, InCall
  <2>3. ret = "idle"
    BY DEF JoinInv, CallInv
  <2>4. FlagInv'
    BY <1>1, <2>1, <2>3 DEF JoinInv, FlagInv
  <2>5. Made' = Made
    BY <1>1, <2>1, <2>3 DEF Made
  <2> QED BY <1>2, <2>1, <2>2, <2>3, <2>4, <2>5
<1> QED BY <1>3, <1>4, <1>5, <1>6

\* Joining, the end of a call, and destroy.
LEMMA EndsJoin ==
  ASSUME TypeOK, JoinInv, Join \/ SetSize \/ DestroyBegin \/ Destroy \/ DestroySync
  PROVE  JoinInv'
<1>0. /\ wpc \in [Threads -> WorkerPCs] /\ threads \in [0..(ThreadLimit - 1) -> Threads \cup {None}]
      /\ call.size \in 0..ThreadLimit /\ idx \in 0..ThreadLimit /\ size \in 0..ThreadLimit
      /\ ThreadLimit \in Nat \ {0} /\ shutdown \in BOOLEAN /\ None \notin Threads
      /\ NoCall.size = 0
  BY PoolAssumption DEF TypeOK, Call, NoCall
<1> USE <1>0
<1>1. CASE Join
  <2>1. /\ cpc = "settle" /\ ~call.no_wait /\ idx < size /\ call.size <= idx
        /\ UNCHANGED <<accepting, shutdown, size, threads, sync, ret, call>>
    BY <1>1 DEF Join, JoinInv, CallInv, InCall, poolVars
  <2>2. Made = size /\ \A i : Joined(i) <=> call.size <= i /\ i < idx
    BY <2>1 DEF Made, Joined
  <2>3. threads[idx] \in Threads /\ wpc[threads[idx]] # "joined"
    BY <2>1, <2>2 DEF JoinInv, Handles
  <2>4. wpc' = [wpc EXCEPT ![threads[idx]] = "joined"] /\ idx' = idx + 1 /\ cpc' = cpc
    BY <1>1, <2>3 DEF Join
  <2>5. CallInv' /\ FlagInv'
    BY <2>1, <2>3, <2>4 DEF JoinInv, CallInv, FlagInv, InCall
  <2>6. Made' = size /\ \A i \in 0..(size - 1) : Joined(i)' <=> call.size <= i /\ i < idx + 1
    BY <2>1, <2>4 DEF Made, Joined
  <2>7. \A i \in 0..(size - 1) : threads[i] = threads[idx] => i = idx
    BY <2>1, <2>2 DEF JoinInv, Handles
  <2>8. \A i \in 0..(size - 1) : wpc'[threads[i]] = "joined" <=> Joined(i)'
    <3> SUFFICES ASSUME NEW i \in 0..(size - 1) PROVE wpc'[threads[i]] = "joined" <=> Joined(i)'
      OBVIOUS
    <3>1. threads[i] \in Threads /\ (wpc[threads[i]] = "joined" <=> call.size <= i /\ i < idx)
      BY <2>2 DEF JoinInv, Handles
    <3> QED BY <2>1, <2>3, <2>4, <2>6, <2>7, <3>1
  <2>9. \A i \in 0..(size - 1) : threads[i] \in Threads /\ wpc'[threads[i]] # "absent"
    BY <2>2, <2>3, <2>4 DEF JoinInv, Handles
  <2> QED BY <2>1, <2>2, <2>5, <2>6, <2>8, <2>9 DEF JoinInv, Handles
<1>2. CASE SetSize
  <2>1. /\ cpc = "settle" /\ size' = call.size /\ call.size <= size /\ ret = "idle"
        /\ UNCHANGED <<accepting, shutdown, threads, sync, ret, wpc>>
        /\ \/ cpc' = "destroy" /\ UNCHANGED <<call, idx>> /\ call.size = 0
           \/ cpc' = "idle" /\ call' = NoCall /\ idx' = 0
    BY <1>2 DEF SetSize, Resized, Return, workerVars, JoinInv, CallInv, InCall
  <2>2. CallInv' /\ FlagInv'
    BY <2>1 DEF JoinInv, CallInv, FlagInv, InCall
  <2>3. Made = size /\ Made' = call.size
    BY <2>1 DEF Made
  <2>4. \A i \in 0..(call.size - 1) : ~Joined(i) /\ ~Joined(i)' /\ i \in 0..(size - 1)
    BY <2>1 DEF Joined
  <2>5. Handles'
    BY <2>1, <2>3, <2>4 DEF JoinInv, Handles
  <2> QED BY <2>2, <2>5 DEF JoinInv
<1>3. CASE DestroyBegin \/ Destroy \/ DestroySync
  <2>1. /\ cpc \in {"idle", "destroy", "destroySync"}
        /\ cpc' \in {"idle", "destroy", "destroySync", "gone"}
        /\ UNCHANGED <<accepting, shutdown, size, threads, wpc>> /\ ret' = "idle"
        /\ cpc' = "destroySync" => cpc = "destroy" /\ shutdown
        /\ cpc' = "gone" => cpc = "destroySync"
        /\ sync' = sync \/ cpc' = "gone"
        /\ call' = call \/ call' = NoCall
    BY <1>3 DEF DestroyBegin, Destroy, DestroySync, Return, poolVars, workerVars, JoinInv, CallInv
  <2>2. CallInv' /\ FlagInv'
    BY <2>1 DEF JoinInv, CallInv, FlagInv, InCall
  <2>3. Made' = Made /\ \A i : Joined(i)' <=> Joined(i)
    BY <2>1 DEF Made, Joined
  <2>4. Handles'
    BY <2>1, <2>3, HandlesKept DEF JoinInv
  <2> QED BY <2>2, <2>4 DEF JoinInv
<1> QED BY <1>1, <1>2, <1>3

\* Every step of a program that gets its threads.
LEMMA JoinStep == ASSUME ~CreateMayFail, TypeOK, JoinInv, [Next]_vars PROVE JoinInv'
<1>1. ASSUME CreateFails \/ GrowFails PROVE FALSE
  BY <1>1 DEF CreateFails, GrowFails
<1> QED BY <1>1, OthersJoin, GrowthJoin, PhasesJoin, EndsJoin DEF Next, CtlStep

\* sph_thread_pool_resize (thread-pool.c:154-159): each pthread_join is given
\* a handle that pthread_create stored and that was not joined, whatever sizes
\* are asked for, with waiting and without, if threads can be created.
THEOREM ThreadsJoinedOnce == ASSUME ~CreateMayFail PROVE Spec => []NoUndefinedJoin
<1>1. (TypeOK /\ JoinInv) /\ [Next]_vars => (TypeOK /\ JoinInv)'
  BY NextTypeOK, JoinStep
<1>2. Init => TypeOK /\ JoinInv
  BY InitTypeOK, JoinInitial
<1>3. JoinInv => NoUndefinedJoin
  BY DEF JoinInv, CallInv, NoUndefinedJoin
<1> QED BY <1>1, <1>2, <1>3, PTL DEF Spec

-----------------------------------------------------------------------------
(* Programs in which no call fails: the workers, and the pills that will end *)
(* some of them.                                                             *)

\* The program gets its threads, and memory for its pills unless it never
\* shrinks the pool.
NeverFails ==
    /\ ~CreateMayFail
    /\ MallocMayFail => \A c \in Calls : c.size \in {0, ThreadLimit}

\* Each call waits, as in readme.md and the tests.
Waiting == NeverFails /\ \A c \in Calls : ~c.no_wait

\* A finish waits, and no other call discards the queue, in which pills of an
\* earlier call may be.
Counting ==
    /\ NeverFails
    /\ \A c \in Calls : IF c.size = 0 THEN ~c.no_wait ELSE ~c.discard

\* the pills that a worker has yet to swallow
OnTheWay == Pills \cap (Range(queue) \cup Running)

\* after the shutdown request of finish; after its last join
Finishing == call.size = 0 /\ cpc \in {"wakeShutdown", "discard", "wakeDiscard", "settle"}
Finished == cpc \in {"destroySync", "gone"} \/ (cpc = "destroy" /\ shutdown)

\* the workers there will be once all pills sent so far are swallowed
Remaining ==
    IF cpc \in {"create", "grow"} THEN idx
    ELSE IF cpc = "pills" THEN size - (idx - call.size)
    ELSE IF cpc = "settle" THEN call.size
    ELSE size

\* After a shutdown request the pool is destroyed; until then the workers are
\* accounted for.
Balanced ==
    /\ shutdown => Finishing \/ Finished
    /\ Finished => size = 0
    /\ ~shutdown /\ cpc # "start" =>
         Cardinality(Active) = Remaining + Cardinality(OnTheWay)

\* Both sets are finite.
LEMMA FiniteBalance ==
  ASSUME TypeOK
  PROVE  /\ IsFiniteSet(Active) /\ Cardinality(Active) \in Nat
         /\ IsFiniteSet(OnTheWay) /\ Cardinality(OnTheWay) \in Nat
<1>1. IsFiniteSet(Threads) /\ Active \in SUBSET Threads
  BY PoolAssumption DEF Active, At
<1>2. IsFiniteSet(Active)
  BY <1>1, FS_Subset
<1>3. IsFiniteSet(Range(queue))
  <2>1. DOMAIN queue = 1..Len(queue) /\ Len(queue) \in Nat
    BY LenProperties DEF TypeOK
  <2>2. IsFiniteSet(DOMAIN queue)
    BY <2>1, FS_Interval
  <2>3. queue \in Surjection(DOMAIN queue, Range(queue))
    BY DEF TypeOK, Surjection, Range
  <2> QED BY <2>2, <2>3, FS_Surjection
<1>4. IsFiniteSet(Running)
  <2>1. At("run") \in SUBSET Threads
    BY DEF At
  <2>2. IsFiniteSet(At("run"))
    BY <1>1, <2>1, FS_Subset
  <2> DEFINE held == [th \in At("run") |-> wtask[th]]
  <2>3. held \in Surjection(At("run"), Running)
    BY DEF Surjection, Running
  <2> QED BY <2>2, <2>3, FS_Surjection
<1>5. IsFiniteSet(Range(queue) \cup Running)
  BY <1>3, <1>4, FS_Union
<1>6. IsFiniteSet(OnTheWay)
  BY <1>5, FS_Subset DEF OnTheWay
<1> QED BY <1>2, <1>6, FS_CardinalityType

\* Steps that neither begin nor end a worker and move no task.
LEMMA SameWorkers ==
  ASSUME UNCHANGED <<queue, wtask>>,
         \A th \in Threads : \/ wpc'[th] = wpc[th]
                             \/ {wpc[th], wpc'[th]} \subseteq {"lock", "wait"}
                             \/ {wpc[th], wpc'[th]} \subseteq {"exited", "joined"}
  PROVE  Active' = Active /\ OnTheWay' = OnTheWay
<1>1. At("run")' = At("run")
  BY DEF At
<1>2. OnTheWay' = OnTheWay
  BY <1>1 DEF OnTheWay, Running
<1>3. Active' = Active
  BY DEF Active, At
<1> QED BY <1>2, <1>3

\* Appending a task object.
LEMMA RangeAppend ==
  ASSUME NEW S, NEW q \in Seq(S), NEW w \in S
  PROVE  Range(Append(q, w)) = Range(q) \cup {w}
<1>1. /\ Len(q) \in Nat /\ DOMAIN q = 1..Len(q)
      /\ DOMAIN Append(q, w) = 1..(Len(q) + 1)
      /\ \A i \in 1..Len(q) : Append(q, w)[i] = q[i]
      /\ Append(q, w)[Len(q) + 1] = w
  BY AppendProperties, LenProperties
<1>2. Range(Append(q, w)) \subseteq Range(q) \cup {w}
  BY <1>1 DEF Range
<1>3. Range(q) \subseteq Range(Append(q, w))
  BY <1>1 DEF Range
<1>4. w \in Range(Append(q, w))
  BY <1>1 DEF Range
<1> QED BY <1>2, <1>3, <1>4

\* Steps that change neither side of the balance.
LEMMA BalanceKept ==
  ASSUME Balanced, Active' = Active, OnTheWay' = OnTheWay, Remaining' = Remaining,
         shutdown' => Finishing' \/ Finished', Finished' => size' = 0,
         ~shutdown' /\ cpc' # "start" => ~shutdown /\ cpc # "start"
  PROVE  Balanced'
BY DEF Balanced

\* Clients and workers, which leave the control logic where it is.
LEMMA OthersBalance ==
  ASSUME TypeOK, OnePlace, JoinInv, Balanced,
         \/ \E c \in Callers : (\E w \in Tasks : Enqueue(c, w)) \/ Signal(c)
         \/ \E th \in Threads : WorkerStep(th) \/ SpuriousWakeup(th)
         \/ UNCHANGED vars
  PROVE  Balanced'
<1>0. /\ wpc \in [Threads -> WorkerPCs] /\ wtask \in [Threads -> Work \cup {None}]
      /\ queue \in Seq(Work) /\ Tasks \cap Pills = {} /\ Work = Tasks \cup Pills
  BY PoolAssumption DEF TypeOK, Work
<1>1. UNCHANGED <<shutdown, size, cpc, call, idx>>
  BY OthersJoin
<1>2. (shutdown' => Finishing' \/ Finished') /\ (Finished' => size' = 0)
  BY <1>1 DEF Balanced, Finishing, Finished
<1>3. Remaining' = Remaining
  BY <1>1 DEF Remaining
<1>4. ASSUME NEW c \in Callers, NEW w \in Tasks, Enqueue(c, w) PROVE Balanced'
  <2>1. queue' = Append(queue, w) /\ UNCHANGED <<wpc, wtask>>
    BY <1>4 DEF Enqueue, Push, workerVars
  <2>2. Range(queue') = Range(queue) \cup {w}
    BY <1>0, <2>1, RangeAppend
  <2>3. Active' = Active /\ Running' = Running
    BY <2>1 DEF Active, Running, At
  <2>4. OnTheWay' = OnTheWay
    BY <1>0, <2>2, <2>3 DEF OnTheWay
  <2> QED BY <1>1, <1>2, <1>3, <2>3, <2>4, BalanceKept
<1>5. ASSUME NEW c \in Callers, Signal(c) PROVE Balanced'
  <2>1. /\ UNCHANGED <<queue, wtask>>
        /\ \A th \in Threads : wpc'[th] = wpc[th] \/ {wpc[th], wpc'[th]} \subseteq {"lock", "wait"}
    BY <1>0, <1>5 DEF Signal, WakeOne, At, poolVars
  <2>2. Active' = Active /\ OnTheWay' = OnTheWay
    BY <2>1, SameWorkers
  <2> QED BY <1>1, <1>2, <1>3, <2>2, BalanceKept
<1>6. ASSUME NEW th \in Threads, Wait(th) \/ SpuriousWakeup(th) PROVE Balanced'
  <2>1. /\ UNCHANGED <<queue, wtask>>
        /\ \A t \in Threads : wpc'[t] = wpc[t] \/ {wpc[t], wpc'[t]} \subseteq {"lock", "wait"}
    BY <1>0, <1>6 DEF Wait, SpuriousWakeup, poolVars
  <2>2. Active' = Active /\ OnTheWay' = OnTheWay
    BY <2>1, SameWorkers
  <2> QED BY <1>1, <1>2, <1>3, <2>2, BalanceKept
<1>7. ASSUME NEW th \in Threads, Take(th) PROVE Balanced'
  <2>1. wpc[th] = "lock" /\ wpc' = [wpc EXCEPT ![th] = "run"]
    BY <1>7 DEF Take
  <2>2. Active' = Active
    BY <1>0, <2>1 DEF Active, At
  <2>3. /\ Range(queue') = Range(queue) \ {Head(queue)}
        /\ Head(queue) \in Range(queue)
        /\ At("run")' = At("run") \cup {th} /\ wtask'[th] = Head(queue)
        /\ \A t \in At("run") : wtask'[t] = wtask[t]
    <3>1. queue # <<>>
      BY <1>7 DEF Take
    <3>2. Head(queue) \in Range(queue)
      BY <1>0, <3>1, TailRange DEF OnePlace
    <3> QED BY <1>7, <3>2, TakeFacts
  <2>4. Running' = Running \cup {Head(queue)}
    <3>1. Running' = {wtask'[t] : t \in At("run") \cup {th}}
      BY <2>3 DEF Running
    <3> QED BY <2>3, <3>1 DEF Running
  <2>5. OnTheWay' = OnTheWay
    BY <2>3, <2>4 DEF OnTheWay
  <2> QED BY <1>1, <1>2, <1>3, <2>2, <2>5, BalanceKept
<1>8. ASSUME NEW th \in Threads, Exit(th) PROVE Balanced'
  BY <1>1, <1>2, <1>8 DEF Exit, MayExit, Balanced
<1>9. ASSUME NEW th \in Threads, TaskReturns(th) PROVE Balanced'
  <2>1. /\ wpc[th] = "run" /\ wpc' = [wpc EXCEPT ![th] = "lock"]
        /\ wtask' = [wtask EXCEPT ![th] = None] /\ queue' = queue /\ wtask[th] \in Tasks
    BY <1>9 DEF TaskReturns, poolVars
  <2>2. Active' = Active
    BY <1>0, <2>1 DEF Active, At
  <2>3. /\ At("run")' = At("run") \ {th}
        /\ \A t \in At("run") \ {th} : wtask'[t] = wtask[t]
    BY <1>0, <2>1 DEF At
  <2>4. Running' \subseteq Running /\ Running \ {wtask[th]} \subseteq Running'
    BY <2>3 DEF Running
  <2>5. OnTheWay' = OnTheWay
    BY <1>0, <2>1, <2>4 DEF OnTheWay
  <2> QED BY <1>1, <1>2, <1>3, <2>2, <2>5, BalanceKept
\* a worker ends, and the pill it swallowed is gone
<1>10. ASSUME NEW th \in Threads, ThreadFinish(th) PROVE Balanced'
  <2>1. /\ wpc[th] = "run" /\ wpc' = [wpc EXCEPT ![th] = "exited"]
        /\ wtask' = [wtask EXCEPT ![th] = None] /\ queue' = queue /\ wtask[th] \in Pills
    BY <1>10 DEF ThreadFinish, poolVars
  <2>2. Active' = Active \ {th} /\ th \in Active
    BY <1>0, <2>1 DEF Active, At
  <2>3. /\ th \in At("run") /\ At("run")' = At("run") \ {th}
        /\ \A t \in At("run") \ {th} : wtask'[t] = wtask[t]
    BY <1>0, <2>1 DEF At
  <2>4. Running' = Running \ {wtask[th]} /\ wtask[th] \in Running
    <3>1. \A t \in At("run") \ {th} : wtask[t] # wtask[th]
      BY <2>3 DEF OnePlace
    <3>2. Running' \subseteq Running \ {wtask[th]}
      BY <2>3, <3>1 DEF Running
    <3>3. Running \ {wtask[th]} \subseteq Running'
      BY <2>3 DEF Running
    <3> QED BY <2>3, <3>2, <3>3 DEF Running
  <2>5. wtask[th] \notin Range(queue)
    BY <2>3 DEF OnePlace
  <2>6. OnTheWay' = OnTheWay \ {wtask[th]} /\ wtask[th] \in OnTheWay
    BY <2>1, <2>4, <2>5 DEF OnTheWay
  <2>7. /\ Cardinality(Active') = Cardinality(Active) - 1
        /\ Cardinality(OnTheWay') = Cardinality(OnTheWay) - 1
    BY <2>2, <2>6, FiniteBalance, FS_RemoveElement
  <2>8. ASSUME ~shutdown, cpc # "start"
        PROVE  Cardinality(Active') = Remaining + Cardinality(OnTheWay')
    <3>1. Cardinality(Active) = Remaining + Cardinality(OnTheWay)
      BY <2>8 DEF Balanced
    <3>2. Remaining \in Int
      BY <2>8, PoolAssumption DEF Remaining, TypeOK, Call
    <3> QED BY <2>7, <3>1, <3>2, FiniteBalance
  <2> QED BY <1>1, <1>2, <1>3, <2>8 DEF Balanced
<1>11. CASE UNCHANGED vars
  <2>1. Active' = Active /\ OnTheWay' = OnTheWay
    BY <1>11, SameWorkers DEF vars, poolVars, workerVars
  <2> QED BY <1>1, <1>2, <1>3, <2>1, BalanceKept
<1> QED
  BY <1>4, <1>5, <1>6, <1>7, <1>8, <1>9, <1>10, <1>11 DEF WorkerStep

\* What the calls of a program whose finish waits have in common.
LEMMA CallsWait ==
  ASSUME Waiting \/ Counting
  PROVE  NeverFails /\ \A c \in Calls : c.size = 0 => ~c.no_wait
BY DEF Waiting, Counting

\* A call begins or ends, or a phase of it: nobody starts or ends, and no task
\* moves.
LEMMA PhasesBalance ==
  ASSUME Waiting \/ Counting, TypeOK, JoinInv, Balanced,
         \/ NewReturns \/ GrowReturns \/ RequestShutdown \/ Broadcast \/ PillsSent
         \/ Join \/ SetSize \/ DestroyBegin \/ Destroy \/ DestroySync
         \/ \E c \in Calls : CallBegin(c)
  PROVE  Balanced'
<1>0. /\ wpc \in [Threads -> WorkerPCs] /\ shutdown \in BOOLEAN
      /\ call.size \in 0..ThreadLimit /\ idx \in 0..ThreadLimit /\ size \in 0..ThreadLimit
      /\ ThreadLimit \in Nat /\ NoCall.size = 0 /\ None \notin Threads
      /\ threads \in [0..(ThreadLimit - 1) -> Threads \cup {None}]
  BY PoolAssumption DEF TypeOK, Call, NoCall
<1> USE <1>0
<1>1. cpc # "failed" /\ ret = "idle"
  BY DEF JoinInv, CallInv
<1>2. Active' = Active /\ OnTheWay' = OnTheWay
  <2>1. /\ UNCHANGED <<queue, wtask>>
        /\ \A th \in Threads : \/ wpc'[th] = wpc[th]
                               \/ {wpc[th], wpc'[th]} \subseteq {"lock", "wait"}
                               \/ {wpc[th], wpc'[th]} \subseteq {"exited", "joined"}
    <3>1. CASE Join
      BY <3>1 DEF Join, poolVars
    <3>2. CASE Broadcast
      BY <3>2 DEF Broadcast, WakeAll, poolVars
    <3>3. CASE Quiet
      BY <3>3 DEF Quiet
    <3> QED BY <3>1, <3>2, <3>3, QuietSteps
  <2> QED BY <2>1, SameWorkers
<1>3. CASE NewReturns \/ GrowReturns
  <2>1. /\ cpc' = "idle" /\ size' = call.size /\ idx = call.size /\ cpc \in {"create", "grow"}
        /\ ~shutdown /\ ~shutdown'
    BY <1>1, <1>3 DEF NewReturns, GrowReturns, Return, Balanced, Finishing, Finished
  <2>2. Remaining' = Remaining /\ ~Finished'
    BY <2>1 DEF Remaining, Finished
  <2> QED BY <1>2, <2>1, <2>2, BalanceKept
<1>4. CASE RequestShutdown
  <2>1. cpc' = "wakeShutdown" /\ shutdown' /\ call' = call /\ call.size = 0
    BY <1>4 DEF RequestShutdown, JoinInv, CallInv
  <2> QED BY <2>1 DEF Balanced, Finishing, Finished
<1>5. CASE Broadcast
  <2>1. /\ cpc \in {"wakeShutdown", "wakeDiscard"} /\ cpc' \in {"discard", "pills", "settle"}
        /\ cpc' = "pills" <=> cpc' # "discard" /\ call.size # 0
        /\ UNCHANGED <<shutdown, size, call, idx>>
        /\ idx = call.size
    BY <1>5 DEF Broadcast, AfterShutdown, AfterDiscard, JoinInv, CallInv, poolVars
  <2>2. shutdown => call.size = 0
    BY <2>1 DEF Balanced, Finishing, Finished
  <2>3. (shutdown' => Finishing') /\ ~Finished'
    BY <2>1, <2>2 DEF Finishing, Finished
  <2>4. ~shutdown => Remaining' = Remaining
    <3>1. ~shutdown => call.size # 0 /\ cpc = "wakeDiscard"
      BY <2>1 DEF JoinInv, CallInv, FlagInv
    <3>2. ~shutdown => cpc' = "pills"
      BY <1>5, <3>1 DEF Broadcast, AfterDiscard
    <3>3. ~shutdown => Remaining = size /\ Remaining' = size - (idx - call.size)
      BY <2>1, <3>1, <3>2 DEF Remaining
    <3> QED BY <2>1, <3>3
  <2> QED BY <1>2, <2>1, <2>3, <2>4 DEF Balanced
<1>6. CASE PillsSent
  <2>1. /\ cpc = "pills" /\ idx = size /\ cpc' = "settle" /\ idx' = call.size
        /\ UNCHANGED <<shutdown, size, call>>
    BY <1>6 DEF PillsSent, JoinInv, CallInv, InCall, poolVars
  <2>2. ~shutdown /\ ~Finished'
    BY <2>1 DEF Balanced, Finishing, Finished
  <2>3. Remaining' = Remaining
    BY <2>1 DEF Remaining
  <2> QED BY <1>2, <2>1, <2>2, <2>3, BalanceKept
<1>7. CASE Join
  <2>1. /\ cpc = "settle" /\ UNCHANGED <<shutdown, size, call>>
    BY <1>7 DEF Join, poolVars
  <2>2. cpc' = "settle"
    <3>1. idx < size /\ Made = size /\ ~Joined(idx)
      BY <1>7, <2>1 DEF Join, Made, Joined
    <3>2. threads[idx] \in Threads /\ wpc[threads[idx]] # "joined"
      BY <3>1 DEF JoinInv, Handles
    <3> QED BY <1>7, <2>1, <3>2 DEF Join
  <2>3. Remaining' = Remaining /\ (Finishing' <=> Finishing) /\ ~Finished' /\ ~Finished
    BY <2>1, <2>2 DEF Remaining, Finishing, Finished
  <2> QED BY <1>2, <2>1, <2>3 DEF Balanced
<1>8. CASE SetSize
  <2>1. call.size = 0 => ~call.no_wait /\ shutdown
    <3>1. cpc = "settle" /\ call \in Calls
      BY <1>8 DEF SetSize, JoinInv, CallInv, InCall
    <3> QED BY <3>1, CallsWait DEF JoinInv, FlagInv
  <2>2. /\ cpc = "settle" /\ size' = call.size /\ shutdown' = shutdown
        /\ cpc' = IF call.size = 0 THEN "destroy" ELSE "idle"
    BY <1>1, <1>8, <2>1 DEF SetSize, Resized, Return
  <2>3. shutdown => call.size = 0
    BY <2>2 DEF Balanced, Finishing, Finished
  <2>4. (shutdown' => Finished') /\ (Finished' => size' = 0)
    BY <2>2, <2>3 DEF Finished
  <2>5. ~shutdown => Remaining' = Remaining
    BY <2>1, <2>2 DEF Remaining
  <2> QED BY <1>2, <2>2, <2>4, <2>5 DEF Balanced
<1>9. CASE DestroyBegin \/ Destroy \/ DestroySync
  <2>1. /\ cpc \in {"idle", "destroy", "destroySync"}
        /\ cpc' \in {"idle", "destroy", "destroySync", "gone"}
        /\ UNCHANGED <<shutdown, size>>
        /\ cpc' = "idle" => (size # 0 \/ ~shutdown) /\ cpc = "destroy"
        /\ cpc' = "destroySync" => size = 0
        /\ cpc' = "gone" => cpc = "destroySync"
        /\ cpc' = "destroy" => cpc = "idle"
    BY <1>1, <1>9 DEF DestroyBegin, Destroy, DestroySync, Return, poolVars
  <2>2. /\ cpc = "idle" => ~shutdown
        /\ cpc = "destroySync" => size = 0
        /\ cpc = "destroy" /\ shutdown => size = 0
    BY DEF Balanced, Finishing, Finished
  <2>3. (shutdown' => Finished') /\ (Finished' => size' = 0)
    BY <2>1, <2>2 DEF Finished
  <2>4. Remaining' = Remaining
    BY <2>1 DEF Remaining
  <2> QED BY <1>2, <2>1, <2>3, <2>4, BalanceKept
<1>10. ASSUME NEW c \in Calls, CallBegin(c) PROVE Balanced'
  <2>1. cpc = "idle" /\ UNCHANGED <<shutdown, size>>
    BY <1>1, <1>10 DEF CallBegin, poolVars
  <2>2. ~shutdown
    BY <2>1 DEF Balanced, Finishing, Finished
  <2>3. c.size \in Nat
    BY PoolAssumption DEF Call
  <2>4. CASE c.size > ThreadLimit
    <3>1. UNCHANGED <<cpc, call, idx>>
      BY <1>10, <2>4 DEF CallBegin
    <3>2. Remaining' = Remaining /\ ~Finished'
      BY <2>1, <3>1 DEF Remaining, Finished
    <3> QED BY <1>2, <2>1, <2>2, <3>2, BalanceKept
  <2>5. CASE ~(c.size > ThreadLimit)
    <3>1. /\ cpc' = IF c.size > size THEN "grow" ELSE IF c.size = 0 THEN "shutdown"
                    ELSE IF c.discard THEN "discard" ELSE "pills"
          /\ call' = c
          /\ idx' = IF c.size > size THEN size ELSE c.size
      BY <1>10, <2>1, <2>3, <2>5 DEF CallBegin, FirstPhase, AfterShutdown, AfterDiscard
    <3>2. Remaining' = size /\ Remaining = size /\ ~Finished'
      BY <2>1, <2>3, <3>1 DEF Remaining, Finished
    <3> QED BY <1>2, <2>1, <2>2, <3>2, BalanceKept
  <2> QED BY <2>4, <2>5
<1> QED BY <1>3, <1>4, <1>5, <1>6, <1>7, <1>8, <1>9, <1>10

\* The steps that begin a worker, send a pill, or empty a queue without pills.
LEMMA MovesBalance ==
  ASSUME TypeOK, JoinInv, Balanced, NewBegin \/ Create \/ SendPill \/ DiscardQueue,
         cpc = "discard" /\ ~shutdown => OnTheWay = {}
  PROVE  Balanced'
<1>0. /\ wpc \in [Threads -> WorkerPCs] /\ shutdown \in BOOLEAN /\ accepting \in BOOLEAN
      /\ queue \in Seq(Work)
      /\ call.size \in 0..ThreadLimit /\ idx \in 0..ThreadLimit /\ size \in 0..ThreadLimit
      /\ ThreadLimit \in Nat
      /\ Cardinality(Active) \in Nat /\ Cardinality(OnTheWay) \in Nat
      /\ IsFiniteSet(Active) /\ IsFiniteSet(OnTheWay)
  BY PoolAssumption, FiniteBalance DEF TypeOK, Call
<1> USE <1>0
<1>1. CASE NewBegin
  <2>1. /\ cpc = "start" /\ cpc' = "create" /\ ~shutdown' /\ queue' = <<>>
        /\ UNCHANGED <<idx, wpc, wtask>> /\ idx = 0
    BY <1>1 DEF NewBegin, workerVars, JoinInv, CallInv
  <2>2. \A th \in Threads : wpc[th] = "absent"
    BY <2>1 DEF JoinInv, FlagInv
  <2>3. Active' = {} /\ OnTheWay' = {}
    BY <2>1, <2>2 DEF Active, OnTheWay, Running, At, Range
  <2>4. Cardinality(Active') = 0 /\ Cardinality(OnTheWay') = 0 /\ Remaining' = 0
    BY <2>1, <2>3, FS_EmptySet DEF Remaining
  <2> QED BY <2>1, <2>4 DEF Balanced, Finished
<1>2. CASE Create
  <2>1. PICK th \in At("absent") : wpc' = [wpc EXCEPT ![th] = "lock"]
    BY <1>2 DEF Create
  <2>2. /\ cpc \in {"create", "grow"} /\ idx' = idx + 1
        /\ UNCHANGED <<shutdown, size, cpc, call, queue, wtask>>
    BY <1>2 DEF Create
  <2>3. th \in Threads /\ wpc[th] = "absent"
    BY <2>1 DEF At
  <2>4. Active' = Active \cup {th} /\ th \notin Active
    BY <2>1, <2>3 DEF Active, At
  <2>5. OnTheWay' = OnTheWay
    <3>1. At("run")' = At("run")
      BY <2>1, <2>3 DEF At
    <3> QED BY <2>2, <3>1 DEF OnTheWay, Running
  <2>6. Cardinality(Active') = Cardinality(Active) + 1
    BY <2>4, FS_AddElement
  <2>7. Remaining = idx /\ Remaining' = idx + 1
    BY <2>2 DEF Remaining
  <2> QED BY <2>2, <2>5, <2>6, <2>7 DEF Balanced, Finishing, Finished
<1>3. CASE SendPill
  <2>1. cpc = "pills" /\ idx < size /\ UNCHANGED <<shutdown, size, wpc, wtask>>
    BY <1>3 DEF SendPill, workerVars
  <2>2. ~shutdown /\ accepting
    BY <2>1 DEF JoinInv, FlagInv, Balanced, Finishing, Finished
  <2>3. PICK p \in Pills : /\ Free(p) /\ queue' = Append(queue, p)
                           /\ idx' = idx + 1 /\ UNCHANGED <<cpc, call>>
    BY <1>3, <2>2 DEF SendPill, Push
  <2>4. Active' = Active /\ Running' = Running
    BY <2>1 DEF Active, Running, At
  <2>5. Range(queue') = Range(queue) \cup {p}
    BY <2>3, RangeAppend DEF Work
  <2>6. OnTheWay' = OnTheWay \cup {p} /\ p \notin OnTheWay
    BY <2>3, <2>4, <2>5 DEF OnTheWay, Free
  <2>7. Cardinality(OnTheWay') = Cardinality(OnTheWay) + 1
    BY <2>6, FS_AddElement
  <2>8. Remaining = size - (idx - call.size) /\ Remaining' = size - ((idx + 1) - call.size)
    BY <2>1, <2>3 DEF Remaining
  <2>9. Cardinality(Active) = Remaining + Cardinality(OnTheWay)
    BY <2>1, <2>2 DEF Balanced
  <2>10. Cardinality(Active') = Remaining' + Cardinality(OnTheWay')
    <3>1. Cardinality(Active') = Cardinality(Active)
      BY <2>4
    <3>2. /\ size - ((idx + 1) - call.size) = (size - (idx - call.size)) - 1
          /\ size - (idx - call.size) \in Int
      OBVIOUS
    <3>3. Remaining' = Remaining - 1 /\ Remaining \in Int
      BY <2>8, <3>2
    <3> QED BY <2>7, <2>9, <3>1, <3>3
  <2> QED BY <2>1, <2>2, <2>3, <2>10 DEF Balanced, Finished
<1>4. CASE DiscardQueue
  <2>1. /\ cpc = "discard" /\ cpc' = "wakeDiscard" /\ queue' = <<>>
        /\ UNCHANGED <<shutdown, size, call, idx, wpc, wtask>>
    BY <1>4 DEF DiscardQueue, workerVars
  <2>2. Active' = Active /\ Running' = Running /\ Range(queue') = {}
    BY <2>1 DEF Active, Running, At, Range
  <2>3. (Finishing' <=> Finishing) /\ ~Finished /\ ~Finished' /\ Remaining' = Remaining
    BY <2>1 DEF Finishing, Finished, Remaining
  <2>4. ~shutdown => OnTheWay' = OnTheWay
    BY <2>1, <2>2 DEF OnTheWay
  <2> QED BY <2>1, <2>2, <2>3, <2>4 DEF Balanced
<1> QED BY <1>1, <1>2, <1>3, <1>4

\* Failures do not happen: the program gets its threads, and its memory when a
\* pill is to be sent.
LEMMA NothingFails ==
  ASSUME NeverFails, TypeOK, JoinInv, CreateFails \/ GrowFails \/ MallocFails PROVE FALSE
<1>1. MallocFails /\ MallocMayFail
  BY DEF CreateFails, GrowFails, MallocFails, NeverFails
<1>2. cpc = "pills" /\ idx < size /\ call \in Calls /\ call.size # 0 /\ call.size <= idx
  BY <1>1 DEF MallocFails, JoinInv, CallInv, InCall
<1>3. call.size = ThreadLimit
  BY <1>1, <1>2 DEF NeverFails
<1> QED BY <1>2, <1>3, PoolAssumption DEF TypeOK

\* Every step, if a discard during a resize drops no pill.
LEMMA BalanceStep ==
  ASSUME Waiting \/ Counting, TypeOK, OnePlace, JoinInv, Balanced, [Next]_vars,
         cpc = "discard" /\ ~shutdown => OnTheWay = {}
  PROVE  Balanced'
BY OthersBalance, PhasesBalance, MovesBalance, NothingFails, CallsWait DEF Next, CtlStep

\* The balance before the pool exists.
LEMMA BalanceInitial == Init => Balanced
BY DEF Init, Balanced, Finished

-----------------------------------------------------------------------------
(* Programs that wait.                                                       *)

\* Every worker that was not joined has its handle in use.
Reachable ==
    \A th \in Threads : wpc[th] \in {"absent", "joined"} \/ \E i \in 0..(Made - 1) : threads[i] = th

\* Who has still to send a signal: the control logic while it sends pills,
\* workers that are in a task, and producers until the finish begins.
SignalsInv ==
    /\ Ctl \in signals => cpc = "pills"
    /\ \A th \in Threads \cap signals : wpc[th] = "run" /\ wtask[th] \in Tasks
    /\ cpc = "shutdown" \/ Finishing \/ Finished => signals \cap Producers = {}

\* A pool that was created with workers has some until it is finished, and
\* while it is finished some as long as there is a task.
Staffed == 0 \notin NewSizes =>
    /\ cpc = "create" => call.size >= 1
    /\ cpc \notin {"start", "create"} /\ ~shutdown => size >= 1
    /\ shutdown /\ queue # <<>> => Active # {}

\* Pills are under way only while a call shrinks the pool.
Swallowed == cpc = "pills" \/ (cpc = "settle" /\ ~shutdown) \/ OnTheWay = {}

WaitInv == Reachable /\ SignalsInv /\ Staffed /\ Swallowed

\* In a program that waits: clients and workers.
LEMMA OthersWait ==
  ASSUME TypeOK, OnePlace, JoinInv, Balanced, WaitInv,
         \/ \E c \in Callers : (\E w \in Tasks : Enqueue(c, w)) \/ Signal(c)
         \/ \E th \in Threads : WorkerStep(th) \/ SpuriousWakeup(th)
         \/ UNCHANGED vars
  PROVE  WaitInv'
<1>0. /\ wpc \in [Threads -> WorkerPCs] /\ wtask \in [Threads -> Work \cup {None}]
      /\ queue \in Seq(Work) /\ Tasks \cap Pills = {} /\ Work = Tasks \cup Pills
  BY PoolAssumption DEF TypeOK, Work
<1>1. UNCHANGED <<accepting, shutdown, size, threads, cpc, call, idx>>
  BY OthersJoin
<1>2. Made' = Made /\ (Finishing' <=> Finishing) /\ (Finished' <=> Finished)
  BY <1>1 DEF Made, Finishing, Finished
<1>3. Reachable'
  <2>1. \A th \in Threads : wpc'[th] \notin {"absent", "joined"} => wpc[th] \notin {"absent", "joined"}
    BY <1>0 DEF Enqueue, Signal, WakeOne, WorkerStep, Take, Exit, Wait, TaskReturns,
       ThreadFinish, SpuriousWakeup, At, vars, workerVars
  <2> QED BY <1>1, <1>2, <2>1 DEF WaitInv, Reachable
<1>4. SignalsInv'
  <2>1. ASSUME NEW c \in Callers, NEW w \in Tasks, Enqueue(c, w) PROVE SignalsInv'
    <3>1. accepting /\ MayEnqueue(c) /\ signals' = signals \cup {c} /\ UNCHANGED <<wpc, wtask>>
      BY <2>1 DEF Enqueue, Push, workerVars
    <3>2. c # Ctl /\ (c \in Threads => wpc[c] = "run" /\ wtask[c] \in Tasks)
      BY <3>1, PoolAssumption DEF MayEnqueue
    <3>3. c \in Producers => ~(cpc = "shutdown" \/ Finishing \/ Finished)
      BY <3>1, PoolAssumption DEF MayEnqueue, JoinInv, CallInv, InCall, Finishing, Finished
    <3> QED BY <1>1, <1>2, <3>1, <3>2, <3>3 DEF WaitInv, SignalsInv
  <2>2. ASSUME signals' \subseteq signals,
               \A th \in Threads \cap signals' :
                  wpc[th] = "run" => wpc'[th] = "run" /\ wtask'[th] = wtask[th]
        PROVE  SignalsInv'
    BY <1>1, <1>2, <2>2 DEF WaitInv, SignalsInv
  <2>3. ASSUME NEW c \in Callers, Signal(c) PROVE SignalsInv'
    BY <1>0, <2>2, <2>3 DEF Signal, WakeOne, At
  <2>4. ASSUME NEW th \in Threads, Take(th) \/ Exit(th) \/ Wait(th) \/ SpuriousWakeup(th) \/ TaskReturns(th)
        PROVE  SignalsInv'
    BY <1>0, <2>2, <2>4 DEF Take, Dequeue, Exit, Wait, SpuriousWakeup, TaskReturns
  <2>5. ASSUME NEW th \in Threads, ThreadFinish(th) PROVE SignalsInv'
    <3>1. th \notin signals
      BY <1>0, <2>5 DEF ThreadFinish, WaitInv, SignalsInv
    <3> QED BY <1>0, <2>2, <2>5, <3>1 DEF ThreadFinish
  <2>6. CASE UNCHANGED vars
    BY <2>2, <2>6 DEF vars, workerVars
  <2> QED BY <2>1, <2>3, <2>4, <2>5, <2>6 DEF WorkerStep
<1>5. OnTheWay' \subseteq OnTheWay
  <2>1. ASSUME NEW c \in Callers, NEW w \in Tasks, Enqueue(c, w) PROVE OnTheWay' = OnTheWay
    <3>1. queue' = Append(queue, w) /\ UNCHANGED <<wpc, wtask>>
      BY <2>1 DEF Enqueue, Push, workerVars
    <3>2. Range(queue') = Range(queue) \cup {w} /\ Running' = Running
      BY <1>0, <3>1, RangeAppend DEF Running, At
    <3> QED BY <1>0, <3>2 DEF OnTheWay
  <2>2. ASSUME NEW th \in Threads, Take(th) PROVE OnTheWay' \subseteq OnTheWay
    <3>1. /\ Range(queue') \subseteq Range(queue) /\ Head(queue) \in Range(queue)
          /\ At("run")' = At("run") \cup {th} /\ wtask'[th] = Head(queue)
          /\ \A t \in At("run") : wtask'[t] = wtask[t]
      BY <1>0, <2>2, TakeFacts, TailRange DEF Take, OnePlace
    <3>2. Running' \subseteq Running \cup {Head(queue)}
      BY <3>1 DEF Running
    <3> QED BY <3>1, <3>2 DEF OnTheWay
  <2>3. ASSUME queue' = queue, \A th \in At("run")' : th \in At("run") /\ wtask'[th] = wtask[th]
        PROVE  OnTheWay' \subseteq OnTheWay
    BY <2>3 DEF OnTheWay, Running
  <2>4. ASSUME NEW c \in Callers, Signal(c) PROVE OnTheWay' \subseteq OnTheWay
    BY <1>0, <2>3, <2>4 DEF Signal, WakeOne, At, poolVars
  <2>5. ASSUME NEW th \in Threads, \/ Exit(th) \/ Wait(th) \/ SpuriousWakeup(th)
                                   \/ TaskReturns(th) \/ ThreadFinish(th)
        PROVE  OnTheWay' \subseteq OnTheWay
    BY <1>0, <2>3, <2>5 DEF Exit, Wait, SpuriousWakeup, TaskReturns, ThreadFinish, At, poolVars
  <2>6. CASE UNCHANGED vars
    BY <2>3, <2>6 DEF vars, poolVars, workerVars, At
  <2> QED BY <2>1, <2>2, <2>4, <2>5, <2>6 DEF WorkerStep
<1>6. Swallowed'
  BY <1>1, <1>5 DEF WaitInv, Swallowed
<1>7. ASSUME shutdown, queue' # <<>>, queue # <<>> => Active # {} PROVE Active' # {}
  <2>1. OnTheWay = {} /\ ~accepting
    BY <1>7 DEF JoinInv, FlagInv, WaitInv, Swallowed, Balanced, Finishing, Finished
  <2>2. ASSUME NEW th \in Threads, ThreadFinish(th) PROVE FALSE
    <3>1. wtask[th] \in Pills /\ wtask[th] \in Running
      BY <2>2 DEF ThreadFinish, Running, At
    <3> QED BY <2>1, <3>1 DEF OnTheWay
  <2>3. queue # <<>>
    <3>1. queue' = queue \/ \E th \in Threads : Take(th)
      BY <2>1 DEF Enqueue, Signal, WorkerStep, Exit, Wait, TaskReturns, ThreadFinish,
         SpuriousWakeup, vars, poolVars
    <3> QED BY <1>7, <3>1 DEF Take
  <2>4. PICK t \in Threads : wpc[t] \in {"lock", "wait", "run"}
    BY <1>7, <2>3 DEF Active, At
  <2>5. wpc'[t] \in {"lock", "wait", "run"}
    BY <1>0, <2>1, <2>2, <2>3, <2>4
    DEF Enqueue, Signal, WakeOne, WorkerStep, Take, Exit, MayExit, Wait, TaskReturns,
        SpuriousWakeup, At, vars, workerVars
  <2> QED BY <2>4, <2>5 DEF Active, At
<1>8. Staffed'
  BY <1>1, <1>7 DEF WaitInv, Staffed
<1> QED BY <1>3, <1>4, <1>6, <1>8 DEF WaitInv

\* The phases in which nothing is shut down, or the pool is being finished.
LEMMA PhaseOfShutdown ==
  ASSUME Balanced, FlagInv
  PROVE  /\ cpc \in {"start", "create", "idle", "grow", "shutdown", "pills"} => ~shutdown
         /\ shutdown /\ cpc \in {"discard", "wakeDiscard", "settle"} => call.size = 0
         /\ shutdown => ~accepting
BY DEF Balanced, FlagInv, Finishing, Finished

\* The workers that have no pill to swallow are the ones whose handles stay.
LEMMA AllSwallowed ==
  ASSUME Waiting, TypeOK, JoinInv, Balanced, WaitInv, SetSize, ~shutdown
  PROVE  OnTheWay = {}
<1>0. /\ call.size \in Nat /\ idx \in Nat /\ size \in Nat
      /\ IsFiniteSet(OnTheWay) /\ Cardinality(OnTheWay) \in Nat /\ Cardinality(Active) \in Nat
  BY PoolAssumption, FiniteBalance DEF TypeOK, Call
<1>1. cpc = "settle" /\ ~call.no_wait /\ idx = size /\ call.size <= size
  BY <1>0 DEF SetSize, AllJoined, Waiting, JoinInv, CallInv, InCall
<1>2. /\ Made = size
      /\ \A i \in 0..(size - 1) : wpc[threads[i]] = "joined" <=> call.size <= i
  BY <1>0, <1>1 DEF Made, Joined, JoinInv, Handles
<1> DEFINE kept == [i \in 0..(call.size - 1) |-> threads[i]]
           left == {threads[i] : i \in 0..(call.size - 1)}
<1>3. Active \subseteq left
  <2> SUFFICES ASSUME NEW th \in Active PROVE th \in left
    OBVIOUS
  <2>1. th \in Threads /\ wpc[th] \notin {"absent", "joined"}
    BY DEF Active, At
  <2>2. PICK i \in 0..(size - 1) : threads[i] = th
    BY <1>2, <2>1 DEF WaitInv, Reachable
  <2>3. i \in 0..(call.size - 1)
    BY <1>0, <1>2, <2>1, <2>2
  <2> QED BY <2>2, <2>3
<1>4. kept \in Surjection(0..(call.size - 1), left)
  BY DEF Surjection
<1>5. IsFiniteSet(0..(call.size - 1)) /\ Cardinality(0..(call.size - 1)) = call.size
  <2>1. ASSUME NEW n \in Nat PROVE IsFiniteSet(0..(n - 1)) /\ Cardinality(0..(n - 1)) = n
    <3>1. 0 \in Int /\ n - 1 \in Int
      OBVIOUS
    <3>2. /\ IsFiniteSet(0..(n - 1))
          /\ Cardinality(0..(n - 1)) = IF 0 > n - 1 THEN 0 ELSE (n - 1) - 0 + 1
      BY <3>1, FS_Interval
    <3> QED BY <3>2
  <2> QED BY <1>0, <2>1
<1>6. IsFiniteSet(left) /\ Cardinality(left) <= call.size
  BY <1>4, <1>5, FS_Surjection
<1>7. Cardinality(Active) <= Cardinality(left) /\ Cardinality(left) \in Nat
  BY <1>3, <1>6, FS_Subset, FS_CardinalityType
<1>8. Cardinality(Active) = call.size + Cardinality(OnTheWay)
  BY <1>1 DEF Balanced, Remaining
<1>9. Cardinality(OnTheWay) = 0
  BY <1>0, <1>6, <1>7, <1>8
<1> QED BY <1>0, <1>9, FS_EmptySet

\* What the control logic does, but for a call that does not happen here.
CtlMoves ==
  \/ NewBegin \/ Create \/ NewReturns \/ GrowReturns
  \/ \E c \in Calls : CallBegin(c)
  \/ RequestShutdown \/ Broadcast \/ DiscardQueue \/ SendPill \/ PillsSent
  \/ Join \/ SetSize \/ DestroyBegin \/ Destroy \/ DestroySync

\* Handles of workers are forgotten only after they were joined.
LEMMA CtlReachable ==
  ASSUME Waiting, TypeOK, JoinInv, Reachable, CtlMoves PROVE Reachable'
<1>0. /\ wpc \in [Threads -> WorkerPCs] /\ threads \in [0..(ThreadLimit - 1) -> Threads \cup {None}]
      /\ call.size \in 0..ThreadLimit /\ idx \in 0..ThreadLimit /\ size \in 0..ThreadLimit
      /\ ThreadLimit \in Nat \ {0} /\ ret = "idle" /\ cpc # "failed"
  BY PoolAssumption DEF TypeOK, Call, JoinInv, CallInv
<1> USE <1>0
<1>1. ASSUME Made' = Made, UNCHANGED threads,
             \A th \in Threads : wpc'[th] \notin {"absent", "joined"} => wpc[th] \notin {"absent", "joined"}
      PROVE  Reachable'
  BY <1>1 DEF Reachable
<1>2. CASE Create
  <2>1. PICK th \in At("absent") : /\ threads' = [threads EXCEPT ![idx] = th]
                                   /\ wpc' = [wpc EXCEPT ![th] = "lock"]
    BY <1>2 DEF Create, Slot
  <2>2. /\ th \in Threads /\ idx < call.size /\ Made = idx /\ Made' = idx + 1
    BY <1>2, <2>1 DEF Create, MoreToCreate, At, Made
  <2> SUFFICES ASSUME NEW t \in Threads, wpc'[t] \notin {"absent", "joined"}
               PROVE  \E i \in 0..(Made' - 1) : threads'[i] = t
    BY DEF Reachable
  <2>3. CASE t = th
    BY <2>1, <2>2, <2>3
  <2>4. CASE t # th
    <3>1. PICK i \in 0..(idx - 1) : threads[i] = t
      BY <2>1, <2>2, <2>4 DEF Reachable
    <3>2. i \in 0..(Made' - 1) /\ threads'[i] = t
      BY <2>1, <2>2, <3>1
    <3> QED BY <3>2
  <2> QED BY <2>3, <2>4
<1>3. CASE SetSize
  <2>1. /\ cpc = "settle" /\ ~call.no_wait /\ idx = size /\ call.size <= size
        /\ UNCHANGED <<threads, wpc>> /\ size' = call.size
    BY <1>3 DEF SetSize, AllJoined, Resized, Waiting, JoinInv, CallInv, InCall, workerVars
  <2>2. Made = size /\ Made' = call.size
    BY <1>3, <2>1 DEF Made, SetSize, Return
  <2>3. \A i \in 0..(size - 1) : wpc[threads[i]] = "joined" <=> call.size <= i
    BY <2>1, <2>2 DEF Joined, JoinInv, Handles
  <2> SUFFICES ASSUME NEW t \in Threads, wpc[t] \notin {"absent", "joined"}
               PROVE  \E i \in 0..(call.size - 1) : threads[i] = t
    BY <2>1, <2>2 DEF Reachable
  <2>4. PICK i \in 0..(size - 1) : threads[i] = t
    BY <2>2 DEF Reachable
  <2>5. i \in 0..(call.size - 1)
    BY <2>3, <2>4
  <2> QED BY <2>4, <2>5
<1>4. CASE Join
  <2>1. \A th \in Threads : wpc'[th] \notin {"absent", "joined"} => wpc[th] \notin {"absent", "joined"}
    BY <1>4 DEF Join
  <2>2. cpc = "settle" /\ cpc' \in {"settle", "undefined"} /\ UNCHANGED <<threads, size>>
    BY <1>4 DEF Join, poolVars
  <2> QED BY <1>1, <2>1, <2>2 DEF Made
<1>5. CASE NewBegin \/ NewReturns \/ GrowReturns
  <2>1. Made' = Made
    BY <1>5 DEF NewBegin, NewReturns, GrowReturns, Return, Made, JoinInv, CallInv
  <2>2. UNCHANGED <<threads, wpc>>
    BY <1>5 DEF NewBegin, NewReturns, GrowReturns, workerVars
  <2> QED BY <1>1, <2>1, <2>2
<1>6. CASE \E c \in Calls : CallBegin(c)
  <2>1. PICK c \in Calls : CallBegin(c)
    BY <1>6
  <2>2. cpc = "idle" /\ UNCHANGED <<threads, wpc, size>> /\ c.size \in Nat
    BY <2>1, PoolAssumption DEF CallBegin, poolVars, workerVars, Call
  <2>3. Made' = Made
    BY <2>1, <2>2 DEF CallBegin, FirstPhase, AfterShutdown, AfterDiscard, Made
  <2> QED BY <1>1, <2>2, <2>3
<1>7. CASE \/ RequestShutdown \/ Broadcast \/ DiscardQueue \/ SendPill \/ PillsSent
           \/ DestroyBegin \/ Destroy \/ DestroySync
  <2>1. /\ UNCHANGED <<threads, size>> /\ {cpc, cpc'} \cap {"start", "create", "grow"} = {}
        /\ \A th \in Threads : wpc'[th] = wpc[th] \/ (wpc[th] = "wait" /\ wpc'[th] = "lock")
    BY <1>7 DEF RequestShutdown, Broadcast, WakeAll, AfterShutdown, AfterDiscard, DiscardQueue,
       SendPill, Return, PillsSent, DestroyBegin, Destroy, DestroySync, poolVars, workerVars
  <2> QED BY <1>1, <2>1 DEF Made
<1> QED BY <1>2, <1>3, <1>4, <1>5, <1>6, <1>7 DEF CtlMoves

\* The control logic signals its pills, and begins a finish when no producer
\* has to signal.
LEMMA CtlSignals ==
  ASSUME TypeOK, JoinInv, Balanced, SignalsInv, CtlMoves PROVE SignalsInv'
<1>0. /\ wpc \in [Threads -> WorkerPCs] /\ ret = "idle" /\ cpc # "failed"
      /\ Ctl \notin Threads /\ Ctl \notin Producers /\ shutdown \in BOOLEAN
  BY PoolAssumption DEF TypeOK, JoinInv, CallInv
<1> USE <1>0
<1>1. CASE SendPill
  <2>1. cpc = "pills" /\ UNCHANGED <<shutdown, wpc, wtask>>
    BY <1>1 DEF SendPill, workerVars
  <2>2. ~shutdown /\ accepting
    BY <2>1, PhaseOfShutdown DEF JoinInv, FlagInv
  <2>3. cpc' = "pills" /\ signals' = signals \cup {Ctl}
    BY <1>1, <2>1, <2>2 DEF SendPill, Push
  <2> QED BY <2>1, <2>2, <2>3 DEF SignalsInv, Finishing, Finished
<1>2. ASSUME ~SendPill PROVE SignalsInv'
  <2>1. UNCHANGED <<signals, wtask>>
    BY <1>2 DEF CtlMoves, NewBegin, Create, NewReturns, GrowReturns, CallBegin,
       RequestShutdown, Broadcast, DiscardQueue, PillsSent, Join, SetSize, DestroyBegin,
       Destroy, DestroySync, poolVars, workerVars
  <2>2. \A th \in Threads : wpc[th] = "run" => wpc'[th] = "run"
    BY <1>2 DEF CtlMoves, NewBegin, Create, NewReturns, GrowReturns, CallBegin,
       RequestShutdown, Broadcast, WakeAll, DiscardQueue, PillsSent, Join, SetSize,
       DestroyBegin, Destroy, DestroySync, At, poolVars, workerVars
  <2>3. Ctl \notin signals'
    BY <1>2, <2>1 DEF SignalsInv, CtlMoves, NewBegin, Create, NewReturns, GrowReturns,
       CallBegin, RequestShutdown, Broadcast, DiscardQueue, PillsSent, Join, SetSize,
       DestroyBegin, Destroy, DestroySync
  <2>4. ASSUME cpc' = "shutdown" \/ Finishing' \/ Finished'
        PROVE  \/ cpc = "shutdown" \/ Finishing \/ Finished
               \/ signals \cap Producers = {}
    <3>1. CASE NewBegin \/ Create \/ NewReturns \/ GrowReturns
      BY <2>4, <3>1 DEF NewBegin, Create, NewReturns, GrowReturns, Return, Finishing, Finished
    <3>2. ASSUME NEW c \in Calls, CallBegin(c) PROVE signals \cap Producers = {}
      <4>1. cpc = "idle" /\ ~shutdown /\ shutdown' = shutdown
        BY <3>2, PhaseOfShutdown DEF CallBegin, JoinInv, poolVars
      <4>2. c.size = 0
        <5>1. c.size \in Nat
          BY PoolAssumption DEF Call
        <5> QED
          BY <2>4, <3>2, <4>1, <5>1 DEF CallBegin, FirstPhase, AfterShutdown, AfterDiscard,
             Finishing, Finished
      <4> QED BY <3>2, <4>2 DEF CallBegin, CallAllowed
    <3>3. CASE RequestShutdown \/ Broadcast \/ DiscardQueue \/ PillsSent
      BY <2>4, <3>3 DEF RequestShutdown, Broadcast, AfterShutdown, AfterDiscard, DiscardQueue,
         PillsSent, JoinInv, CallInv, Finishing, Finished
    <3>4. CASE Join \/ SetSize
      BY <2>4, <3>4 DEF Join, SetSize, Return, Finishing, Finished, poolVars
    <3>5. CASE DestroyBegin \/ Destroy \/ DestroySync
      <4>1. cpc = "idle" => ~shutdown
        BY PhaseOfShutdown DEF JoinInv
      <4> QED
        BY <2>4, <3>5, <4>1 DEF DestroyBegin, Destroy, DestroySync, Return, Finishing,
           Finished, poolVars
    <3> QED BY <1>2, <3>1, <3>2, <3>3, <3>4, <3>5 DEF CtlMoves
  <2> QED BY <2>1, <2>2, <2>3, <2>4 DEF SignalsInv
<1> QED BY <1>1, <1>2

\* Steps that empty the queue, or move nothing.
LEMMA FewerOnTheWay ==
  ASSUME TypeOK, JoinInv, CtlMoves, ~SendPill
  PROVE  /\ OnTheWay' \subseteq OnTheWay
         /\ queue' = queue \/ queue' = <<>>
         /\ Active \subseteq Active'
<1>0. wpc \in [Threads -> WorkerPCs]
  BY DEF TypeOK
<1>1. queue' = queue \/ queue' = <<>>
  BY DEF CtlMoves, NewBegin, Create, NewReturns, GrowReturns, CallBegin, RequestShutdown,
     Broadcast, DiscardQueue, PillsSent, Join, SetSize, DestroyBegin, Destroy, DestroySync,
     poolVars
<1>2. wtask' = wtask
  BY DEF CtlMoves, NewBegin, Create, NewReturns, GrowReturns, CallBegin, RequestShutdown,
     Broadcast, DiscardQueue, PillsSent, Join, SetSize, DestroyBegin, Destroy, DestroySync,
     poolVars, workerVars
<1>3. \A th \in Threads : \/ wpc'[th] = wpc[th]
                          \/ wpc[th] = "wait" /\ wpc'[th] = "lock"
                          \/ wpc[th] = "absent" /\ wpc'[th] = "lock"
                          \/ wpc[th] = "exited" /\ wpc'[th] = "joined"
  <2>1. CASE Join
    BY <1>0, <2>1 DEF Join
  <2>2. CASE Create
    BY <1>0, <2>2 DEF Create, At
  <2>3. CASE ~Join /\ ~Create
    BY <2>3 DEF CtlMoves, NewBegin, NewReturns, GrowReturns, CallBegin, RequestShutdown,
       Broadcast, WakeAll, DiscardQueue, PillsSent, SetSize, DestroyBegin, Destroy,
       DestroySync, poolVars, workerVars
  <2> QED BY <2>1, <2>2, <2>3
<1>4. At("run")' = At("run") /\ Active \subseteq Active'
  BY <1>3 DEF Active, At
<1>5. Range(queue') \subseteq Range(queue)
  BY <1>1 DEF Range
<1>6. OnTheWay' \subseteq OnTheWay
  BY <1>2, <1>4, <1>5 DEF OnTheWay, Running
<1> QED BY <1>1, <1>4, <1>6

\* The phases in which a pill may be under way are passed in order.
LEMMA CtlSwallowed ==
  ASSUME Waiting, TypeOK, JoinInv, Balanced, WaitInv, CtlMoves PROVE Swallowed'
<1>0. ret = "idle" /\ shutdown \in BOOLEAN
  BY DEF TypeOK, JoinInv, CallInv
<1>1. CASE SendPill
  <2>1. cpc = "pills" /\ accepting
    BY <1>1, PhaseOfShutdown DEF SendPill, JoinInv, FlagInv
  <2> QED BY <1>1, <2>1 DEF SendPill, Swallowed
<1>2. CASE SetSize
  <2>1. OnTheWay = {}
    <3>1. cpc = "settle"
      BY <1>2 DEF SetSize
    <3> QED BY <1>2, <3>1, AllSwallowed DEF WaitInv, Swallowed
  <2>2. ~SendPill
    BY <1>2 DEF SetSize, SendPill
  <2> QED BY <2>1, <2>2, FewerOnTheWay DEF Swallowed
<1>3. CASE PillsSent
  BY <1>0, <1>3, PhaseOfShutdown DEF PillsSent, Swallowed, JoinInv, poolVars
<1>4. CASE Join
  <2>1. cpc = "settle" /\ cpc' \in {"settle", "undefined"} /\ shutdown' = shutdown
    BY <1>4 DEF Join, poolVars
  <2>2. cpc' = "settle"
    <3>1. idx < size /\ Made = size /\ ~Joined(idx) /\ idx \in Nat /\ size \in Nat
      BY <1>4, <2>1, PoolAssumption DEF Join, Made, Joined, TypeOK
    <3>2. threads[idx] \in Threads /\ wpc[threads[idx]] # "joined"
      BY <3>1 DEF JoinInv, Handles
    <3> QED BY <1>4, <2>1, <3>2, PoolAssumption DEF Join
  <2>3. ~SendPill
    BY <2>1 DEF SendPill
  <2> QED BY <2>1, <2>2, <2>3, FewerOnTheWay DEF WaitInv, Swallowed
<1>5. ASSUME ~SendPill, ~SetSize, ~PillsSent, ~Join PROVE Swallowed'
  <2>1. cpc \notin {"pills", "settle"}
    BY <1>5 DEF CtlMoves, NewBegin, Create, NewReturns, GrowReturns, CallBegin, RequestShutdown,
       Broadcast, DiscardQueue, DestroyBegin, Destroy, DestroySync
  <2> QED BY <1>5, <2>1, FewerOnTheWay DEF WaitInv, Swallowed
<1> QED BY <1>1, <1>2, <1>3, <1>4, <1>5

\* There are workers until they are all joined.
LEMMA CtlStaffed ==
  ASSUME Waiting, TypeOK, JoinInv, Balanced, WaitInv, CtlMoves PROVE Staffed'
<1>0. /\ call.size \in Nat /\ size \in Nat /\ shutdown \in BOOLEAN /\ ret = "idle"
      /\ Cardinality(Active) \in Nat /\ Cardinality(OnTheWay) \in Nat
  BY PoolAssumption, FiniteBalance DEF TypeOK, Call, JoinInv, CallInv
<1> USE <1>0
<1> SUFFICES ASSUME 0 \notin NewSizes
             PROVE  /\ cpc' = "create" => call'.size >= 1
                    /\ cpc' \notin {"start", "create"} /\ ~shutdown' => size' >= 1
                    /\ shutdown' /\ queue' # <<>> => Active' # {}
  BY DEF Staffed
<1>1. /\ cpc = "create" => call.size >= 1
      /\ cpc \notin {"start", "create"} /\ ~shutdown => size >= 1
      /\ shutdown /\ queue # <<>> => Active # {}
  BY DEF WaitInv, Staffed
<1>2. CASE NewBegin
  <2>1. PICK s \in NewSizes : call' = [NoCall EXCEPT !.size = s]
    BY <1>2 DEF NewBegin
  <2>2. call'.size = s /\ s \in Nat /\ s # 0
    <3>1. s \in Nat /\ s # 0
      BY PoolAssumption
    <3>2. call'.size = s
      BY <2>1 DEF NoCall
    <3> QED BY <3>1, <3>2
  <2> QED BY <1>2, <2>2 DEF NewBegin
<1>3. CASE NewReturns \/ GrowReturns
  <2>1. call.size >= 1 /\ size' = call.size /\ cpc' = "idle" /\ ~shutdown'
    BY <1>1, <1>3, PhaseOfShutdown DEF NewReturns, GrowReturns, Return, JoinInv, CallInv
  <2> QED BY <2>1
<1>4. CASE RequestShutdown
  <2>1. cpc = "shutdown" /\ ~shutdown /\ shutdown' /\ cpc' = "wakeShutdown" /\ wpc' = wpc
    BY <1>4, PhaseOfShutdown DEF RequestShutdown, JoinInv, workerVars
  <2>2. Cardinality(Active) = size + Cardinality(OnTheWay) /\ size >= 1
    BY <1>1, <2>1 DEF Balanced, Remaining
  <2>3. Active # {}
    BY <2>2, FS_EmptySet
  <2>4. Active' = Active
    BY <2>1 DEF Active, At
  <2> QED BY <2>1, <2>3, <2>4
<1>5. CASE SetSize
  <2>1. /\ cpc = "settle" /\ size' = call.size /\ shutdown' = shutdown /\ cpc' \in {"idle", "destroy"}
        /\ UNCHANGED <<queue, wpc>>
    BY <1>5 DEF SetSize, Resized, Return, workerVars
  <2>2. ~shutdown => call.size >= 1
    BY <2>1 DEF JoinInv, FlagInv
  <2> QED BY <1>1, <2>1, <2>2 DEF Active, At
<1>6. CASE SendPill
  <2>1. cpc = "pills" /\ ~shutdown /\ UNCHANGED <<shutdown, size>>
    BY <1>6, PhaseOfShutdown DEF SendPill, JoinInv
  <2>2. cpc' # "create"
    BY <1>6, <2>1 DEF SendPill, Return
  <2> QED BY <1>1, <2>1, <2>2
<1>7. ASSUME ~NewBegin, ~NewReturns, ~GrowReturns, ~RequestShutdown, ~SetSize, ~SendPill
      PROVE  /\ cpc' = "create" => call'.size >= 1
             /\ cpc' \notin {"start", "create"} /\ ~shutdown' => size' >= 1
             /\ shutdown' /\ queue' # <<>> => Active' # {}
  <2>1. /\ UNCHANGED <<shutdown, size>> /\ cpc # "start"
        /\ cpc' = "create" => cpc = "create" /\ call' = call
        /\ cpc = "create" => cpc' = "create"
    BY <1>7 DEF CtlMoves, Create, CallBegin, FirstPhase, AfterShutdown, AfterDiscard, Broadcast,
       DiscardQueue, PillsSent, Join, DestroyBegin, Destroy, DestroySync, Return, poolVars
  <2>2. (queue' = queue \/ queue' = <<>>) /\ Active \subseteq Active'
    BY <1>7, FewerOnTheWay
  <2> QED BY <1>1, <2>1, <2>2
<1> QED BY <1>2, <1>3, <1>4, <1>5, <1>6, <1>7

\* Every step of a program that waits.
LEMMA WaitStep ==
  ASSUME Waiting, TypeOK, OnePlace, JoinInv, Balanced, WaitInv, [Next]_vars
  PROVE  WaitInv'
<1>1. ASSUME CtlMoves PROVE WaitInv'
  BY <1>1, CtlReachable, CtlSignals, CtlSwallowed, CtlStaffed DEF WaitInv
<1>2. ASSUME CreateFails \/ GrowFails \/ MallocFails PROVE FALSE
  BY <1>2, NothingFails DEF Waiting
<1> QED BY <1>1, <1>2, OthersWait DEF Next, CtlStep, CtlMoves

\* Nothing is under way before the pool exists.
LEMMA WaitInitial == Init => WaitInv
<1> SUFFICES ASSUME Init PROVE WaitInv
  OBVIOUS
<1>1. Reachable /\ Staffed
  BY DEF Init, Reachable, Staffed
<1>2. SignalsInv
  BY DEF Init, SignalsInv
<1>3. OnTheWay = {}
  BY DEF Init, OnTheWay, Running, At, Range
<1> QED BY <1>1, <1>2, <1>3 DEF WaitInv, Swallowed

\* The invariant of the theorems about programs that wait.
LEMMA WaitHolds ==
  ASSUME Waiting PROVE Spec => [](TypeOK /\ OnePlace /\ JoinInv /\ Balanced /\ WaitInv)
<1> DEFINE Inv == TypeOK /\ OnePlace /\ JoinInv /\ Balanced /\ WaitInv
<1>1. ASSUME Inv, [Next]_vars PROVE Inv'
  <2>1. TypeOK' /\ OnePlace'
    BY <1>1, NextTypeOK, NextOnePlace
  <2>2. JoinInv'
    BY <1>1, JoinStep DEF Waiting, NeverFails
  <2>3. cpc = "discard" /\ ~shutdown => OnTheWay = {}
    BY <1>1 DEF WaitInv, Swallowed
  <2>4. Balanced'
    BY <1>1, <2>3, BalanceStep
  <2>5. WaitInv'
    BY <1>1, WaitStep
  <2> QED BY <2>1, <2>2, <2>4, <2>5
<1>2. Init => Inv
  BY InitTypeOK, InitOnePlace, JoinInitial, BalanceInitial, WaitInitial
<1> QED BY <1>1, <1>2, PTL DEF Spec

\* The same without waiting, where no resize discards.
LEMMA CountHolds ==
  ASSUME Counting PROVE Spec => [](TypeOK /\ OnePlace /\ JoinInv /\ Balanced)
<1> DEFINE Inv == TypeOK /\ OnePlace /\ JoinInv /\ Balanced
<1>1. ASSUME Inv, [Next]_vars PROVE Inv'
  <2>1. TypeOK' /\ OnePlace'
    BY <1>1, NextTypeOK, NextOnePlace
  <2>2. JoinInv'
    BY <1>1, JoinStep DEF Counting, NeverFails
  <2>3. ASSUME cpc = "discard", ~shutdown PROVE OnTheWay = {}
    <3>1. call \in Calls /\ call.discard /\ call.size # 0
      BY <1>1, <2>3 DEF JoinInv, CallInv, FlagInv, InCall
    <3> QED BY <3>1 DEF Counting
  <2>4. Balanced'
    BY <1>1, <2>3, BalanceStep
  <2> QED BY <2>1, <2>2, <2>4
<1>2. Init => Inv
  BY InitTypeOK, InitOnePlace, JoinInitial, BalanceInitial
<1> QED BY <1>1, <1>2, PTL DEF Spec

\* sph_thread_pool_resize (thread-pool.c:106-165): between the calls a->size is
\* the number of workers, and each one above it has its pill under way, also
\* while the pool shrinks without waiting and tasks run meanwhile.
THEOREM WorkersCounted == ASSUME Waiting \/ Counting PROVE Spec => []Headcount
<1>1. Balanced => Headcount
  BY DEF Balanced, Headcount, Remaining, OnTheWay
<1>2. Spec => []Balanced
  <2>1. CASE Waiting
    BY <2>1, WaitHolds, PTL
  <2>2. CASE Counting
    BY <2>2, CountHolds, PTL
  <2> QED BY <2>1, <2>2
<1> QED BY <1>1, <1>2, PTL

\* All threads were joined when the pool was finished.
LEMMA NobodyLeft ==
  ASSUME TypeOK, Balanced, WaitInv, Finished
  PROVE  \A th \in Threads : wpc[th] \in {"absent", "joined"}
<1>1. Made = 0
  BY DEF Made, Finished, Balanced
<1> QED BY <1>1 DEF WaitInv, Reachable

\* sph_thread_pool_finish that waits (thread-pool.c:130-165), after any growing
\* and shrinking that waits: when it destroys the mutex and the condition, no
\* worker and no enqueue in progress still uses them.
THEOREM WaitingOutlivesUsers == ASSUME Waiting PROVE Spec => []NoUseAfterDestroy
<1>1. TypeOK /\ JoinInv /\ Balanced /\ WaitInv => NoUseAfterDestroy
  <2> SUFFICES ASSUME TypeOK, JoinInv, Balanced, WaitInv, sync = "destroyed"
               PROVE  Users = {} /\ signals = {}
    BY DEF NoUseAfterDestroy
  <2>1. Finished /\ cpc = "gone"
    BY DEF JoinInv, FlagInv, Finished
  <2>2. \A th \in Threads : wpc[th] \in {"absent", "joined"}
    BY <2>1, NobodyLeft
  <2>3. Users = {}
    BY <2>2 DEF Users, At
  <2>4. signals \subseteq Producers \cup Threads \cup {Ctl}
    BY DEF TypeOK, Callers
  <2>5. signals = {}
    BY <2>1, <2>2, <2>4 DEF WaitInv, SignalsInv
  <2> QED BY <2>3, <2>5
<1> QED BY <1>1, WaitHolds, PTL

\* A worker that no pill ends leaves when the queue is empty and nothing is
\* accepted any more (thread-pool.c:46-49): if there is a worker, finish leaves
\* no task behind.
THEOREM WaitingDrains ==
  ASSUME Waiting, 0 \notin NewSizes PROVE Spec => []Drained
<1>1. TypeOK /\ JoinInv /\ Balanced /\ WaitInv => Drained
  <2> SUFFICES ASSUME TypeOK, JoinInv, Balanced, WaitInv, cpc \in {"destroySync", "gone"}
               PROVE  queue = <<>> /\ Running = {}
    BY DEF Drained
  <2>1. Finished /\ shutdown
    BY DEF Finished, JoinInv, FlagInv
  <2>2. Running = {} /\ Active = {}
    BY <2>1, NobodyLeft DEF Running, Active, At
  <2>3. queue = <<>>
    BY <2>1, <2>2 DEF WaitInv, Staffed
  <2> QED BY <2>2, <2>3
<1> QED BY <1>1, WaitHolds, PTL

-----------------------------------------------------------------------------
(* Programs that never wait, and destroy the pool themselves.                *)

\* No call waits: finish leaves the destruction to its caller.
NeverWaits == \A c \in Calls : c.no_wait

\* While the caller destroys a pool that is shut down, nobody is left to use it:
\* no thread and no signal was when it began, producers do not enqueue in a pool
\* that is shut down, and nobody else makes threads.
OwnDestroy ==
    /\ call.no_wait
    /\ cpc \in {"idle", "failed", "destroy", "destroySync", "gone"} => call = NoCall
    /\ cpc \in {"destroy", "destroySync", "gone"} /\ shutdown => Active = {} /\ signals = {}
    /\ cpc \in {"destroySync", "gone"} => shutdown
    /\ sync = "destroyed" => cpc = "gone"

\* Clients and workers: they change none of the fields, and while a pool that
\* is shut down is destroyed none of them can take a step.
LEMMA OthersOwnDestroy ==
  ASSUME TypeOK, OwnDestroy,
         \/ \E c \in Callers : (\E w \in Tasks : Enqueue(c, w)) \/ Signal(c)
         \/ \E th \in Threads : WorkerStep(th) \/ SpuriousWakeup(th)
         \/ UNCHANGED vars
  PROVE  OwnDestroy'
<1>1. UNCHANGED <<shutdown, sync, cpc, call>>
  BY DEF Enqueue, Signal, WorkerStep, Take, Exit, Wait, TaskReturns, ThreadFinish,
     SpuriousWakeup, vars, poolVars, ctlVars
<1>2. SUFFICES ASSUME cpc \in {"destroy", "destroySync", "gone"}, shutdown
               PROVE  UNCHANGED <<wpc, signals>>
  BY <1>1, <1>2 DEF OwnDestroy, Active, At
<1>3. Active = {} /\ signals = {} /\ call = NoCall
  BY <1>2 DEF OwnDestroy
<1>4. \A th \in Threads : wpc[th] \notin {"lock", "wait", "run"}
  BY <1>3 DEF Active, At
<1>5. \A c \in Callers : ~MayEnqueue(c)
  BY <1>2, <1>3, <1>4 DEF MayEnqueue, NoCall
<1> QED
  BY <1>3, <1>4, <1>5 DEF Enqueue, Signal, WorkerStep, Take, Exit, Wait, TaskReturns,
     ThreadFinish, SpuriousWakeup, vars, workerVars

\* Every step of a program that never waits.
LEMMA NextOwnDestroy ==
  ASSUME NeverWaits, TypeOK, OwnDestroy, [Next]_vars PROVE OwnDestroy'
<1> USE DEF OwnDestroy
<1>0. NoCall.no_wait
  BY DEF NoCall
\* a call begins, also one that is refused
<1>1. ASSUME NEW c \in Calls, CallBegin(c) PROVE OwnDestroy'
  <2>1. UNCHANGED <<shutdown, sync, signals, wpc>> /\ cpc \in {"idle", "failed"}
    BY <1>1 DEF CallBegin, poolVars, workerVars
  <2>2. CASE c.size > ThreadLimit
    BY <1>1, <2>1, <2>2 DEF CallBegin
  <2>3. CASE ~(c.size > ThreadLimit)
    <3>1. call' = c /\ cpc' = FirstPhase(c) /\ c.no_wait
      BY <1>1, <2>3 DEF CallBegin, NeverWaits
    <3>2. cpc' \in {"grow", "shutdown", "discard", "pills", "settle"}
      BY <3>1 DEF FirstPhase, AfterShutdown, AfterDiscard
    <3> QED BY <2>1, <3>1, <3>2
  <2> QED BY <2>2, <2>3
\* the destruction
<1>2. ASSUME DestroyBegin PROVE OwnDestroy'
  BY <1>2 DEF DestroyBegin, poolVars, workerVars, Active, At
<1>3. ASSUME Destroy PROVE OwnDestroy'
  <2>1. UNCHANGED <<shutdown, sync, signals, wpc>> /\ cpc = "destroy"
    BY <1>3 DEF Destroy, poolVars, workerVars
  <2>2. CASE size # 0 \/ ~shutdown
    <3>1. call' = NoCall /\ cpc' \in {"idle", "failed"}
      BY <1>3, <2>2 DEF Destroy, Return, TypeOK
    <3> QED BY <1>0, <2>1, <3>1
  <2>3. CASE ~(size # 0 \/ ~shutdown)
    <3>1. cpc' = "destroySync" /\ call' = call
      BY <1>3, <2>3 DEF Destroy
    <3> QED BY <2>1, <2>3, <3>1 DEF Active, At
  <2> QED BY <2>2, <2>3
<1>4. ASSUME DestroySync PROVE OwnDestroy'
  BY <1>0, <1>4 DEF DestroySync, workerVars, Active, At
\* every other step of the control logic is part of a call, which ends by
\* returning and never by destroying the pool
<1>5. ASSUME \/ NewBegin \/ Create \/ CreateFails \/ NewReturns \/ GrowFails \/ GrowReturns
             \/ RequestShutdown \/ Broadcast \/ DiscardQueue
             \/ SendPill \/ MallocFails \/ PillsSent \/ Join \/ SetSize
      PROVE  OwnDestroy'
  <2>1. /\ cpc \notin {"idle", "failed", "destroy", "destroySync", "gone"}
        /\ sync' \in {sync, "live"}
    BY <1>5 DEF NewBegin, Create, CreateFails, NewReturns, GrowFails, GrowReturns,
       RequestShutdown, Broadcast, DiscardQueue, SendPill, MallocFails, PillsSent,
       Join, SetSize, poolVars
  <2>2. ~Join
    <3>1. call.no_wait
      OBVIOUS
    <3> QED BY <3>1 DEF Join
  <2>3. CASE cpc' \in {"idle", "failed"} /\ call' = NoCall
    BY <1>0, <2>1, <2>3 DEF TypeOK
  <2>4. CASE /\ cpc' \in {"create", "grow", "shutdown", "wakeShutdown", "discard",
                          "wakeDiscard", "pills", "settle"}
             /\ call'.no_wait
    BY <2>1, <2>4
  <2>5. (cpc' \in {"idle", "failed"} /\ call' = NoCall)
        \/ (cpc' \in {"create", "grow", "shutdown", "wakeShutdown", "discard",
                      "wakeDiscard", "pills", "settle"} /\ call'.no_wait)
    <3>1. CASE NewBegin
      BY <3>1 DEF NewBegin, NoCall
    <3>2. CASE Create \/ GrowFails
      BY <3>2 DEF Create, GrowFails
    <3>3. CASE CreateFails
      BY <1>0, <3>3 DEF CreateFails
    <3>4. CASE NewReturns \/ GrowReturns \/ MallocFails
      BY <3>4 DEF NewReturns, GrowReturns, MallocFails, Return, TypeOK
    <3>5. CASE RequestShutdown \/ DiscardQueue \/ PillsSent
      BY <3>5 DEF RequestShutdown, DiscardQueue, PillsSent
    <3>6. CASE Broadcast
      BY <3>6 DEF Broadcast, AfterShutdown, AfterDiscard
    <3>7. CASE SendPill
      BY <3>7 DEF SendPill, Return, TypeOK
    <3>8. CASE SetSize
      BY <3>8 DEF SetSize, Return, TypeOK
    <3> QED BY <1>5, <2>2, <3>1, <3>2, <3>3, <3>4, <3>5, <3>6, <3>7, <3>8
  <2> QED BY <2>3, <2>4, <2>5
\* clients and workers
<1>6. ASSUME \/ \E c \in Callers : (\E w \in Tasks : Enqueue(c, w)) \/ Signal(c)
             \/ \E th \in Threads : WorkerStep(th) \/ SpuriousWakeup(th)
             \/ UNCHANGED vars
      PROVE  OwnDestroy'
  BY <1>6, OthersOwnDestroy
<1> QED BY <1>1, <1>2, <1>3, <1>4, <1>5, <1>6 DEF Next, CtlStep

\* sph_thread_pool_destroy called by the program (thread-pool.c:8-18,
\* thread-pool.h:58): with any failures, shrinking and growing in between, a
\* program that never waits and destroys the pool itself, as the header
\* requires, has no worker and no enqueue left that uses the mutex or the
\* condition afterwards.
THEOREM CallerDestroysLast == ASSUME NeverWaits PROVE Spec => []NoUseAfterDestroy
<1>1. TypeOK /\ OwnDestroy /\ [Next]_vars => (TypeOK /\ OwnDestroy)'
  BY NextTypeOK, NextOwnDestroy
<1>2. Init => TypeOK /\ OwnDestroy
  BY InitTypeOK DEF Init, OwnDestroy, NoCall
<1>3. OwnDestroy => NoUseAfterDestroy
  BY DEF OwnDestroy, NoUseAfterDestroy, Users, Active
<1> QED BY <1>1, <1>2, <1>3, PTL DEF Spec

\* Of the calls the program makes only finish.
OnlyFinishes == \A c \in Calls : c.size = 0

\* While tasks are queued or accepted a worker is left to take them: none gets a
\* pill, and none leaves before the queue is empty and the pool is shut down.
StaffLeft ==
    /\ cpc \notin {"grow", "pills"}
    /\ cpc # "create" => call.size = 0
    /\ cpc = "create" => ~shutdown /\ call.size # 0 /\ (idx # 0 => Active # {})
    /\ cpc \in {"wakeShutdown", "discard", "wakeDiscard", "settle"} => shutdown
    /\ cpc # "start" => (accepting <=> ~shutdown)
    /\ cpc \in {"create", "idle"} => ret = "idle"
    /\ cpc = "start" => ret = "idle" /\ idx = 0
    /\ cpc \in {"idle", "destroy"} /\ ret = "idle" /\ ~shutdown => Active # {}
    /\ queue # <<>> => Active # {}
    /\ Range(queue) \cap Pills = {} /\ Running \cap Pills = {}

\* Clients and workers: what enqueues has a worker, and only an empty queue of a
\* pool that is shut down is left.
LEMMA OthersStaffLeft ==
  ASSUME TypeOK, StaffLeft,
         \/ \E c \in Callers : (\E w \in Tasks : Enqueue(c, w)) \/ Signal(c)
         \/ \E th \in Threads : WorkerStep(th) \/ SpuriousWakeup(th)
         \/ UNCHANGED vars
  PROVE  StaffLeft'
<1>0. /\ wpc \in [Threads -> WorkerPCs] /\ wtask \in [Threads -> Work \cup {None}]
      /\ queue \in Seq(Work) /\ Tasks \cap Pills = {} /\ Work = Tasks \cup Pills
  BY PoolAssumption DEF TypeOK, Work
<1>1. UNCHANGED <<accepting, shutdown, cpc, ret, call, idx>>
  BY DEF Enqueue, Signal, WorkerStep, Take, Exit, Wait, TaskReturns, ThreadFinish,
     SpuriousWakeup, vars, poolVars, ctlVars
\* it is enough that the workers and the queue fit
<1>2. SUFFICES ASSUME TRUE
               PROVE  /\ Active # {} => Active' # {} \/ (queue' = <<>> /\ shutdown)
                      /\ queue' # <<>> => Active' # {}
                      /\ Range(queue') \cap Pills = {} /\ Running' \cap Pills = {}
  BY <1>1, <1>2 DEF StaffLeft
<1>3. ASSUME NEW c \in Callers, NEW w \in Tasks, Enqueue(c, w)
      PROVE  /\ Active' = Active /\ Active # {}
             /\ Range(queue') \cap Pills = {} /\ Running' \cap Pills = {}
  <2>1. UNCHANGED <<wpc, wtask>> /\ queue' = Append(queue, w) /\ accepting /\ MayEnqueue(c)
    BY <1>3 DEF Enqueue, Push, workerVars
  <2>2. Active # {}
    <3>1. CASE c \in Threads /\ wpc[c] = "run"
      BY <3>1 DEF Active, At
    <3>2. CASE c \in Producers /\ cpc \notin {"create", "failed"}
                               /\ (cpc # "idle" => call.size # 0 /\ ret # "failed")
      <4>1. cpc = "idle"
        BY <3>2 DEF StaffLeft
      <4> QED BY <2>1, <4>1 DEF StaffLeft
    <3> QED BY <2>1, <3>1, <3>2 DEF MayEnqueue
  <2>3. Range(queue') = Range(queue) \cup {w}
    BY <1>0, <2>1, RangeAppend
  <2> QED BY <1>0, <2>1, <2>2, <2>3 DEF Active, At, Running, StaffLeft
<1>4. ASSUME NEW th \in Threads, Take(th)
      PROVE  /\ Active' # {}
             /\ Range(queue') \cap Pills = {} /\ Running' \cap Pills = {}
  <2>1. /\ queue # <<>> /\ queue' = Tail(queue)
        /\ wpc' = [wpc EXCEPT ![th] = "run"] /\ wtask' = [wtask EXCEPT ![th] = Head(queue)]
    BY <1>4 DEF Take, Dequeue
  <2>2. th \in Active'
    BY <1>0, <2>1 DEF Active, At
  <2>3. Range(queue') \subseteq Range(queue) /\ Head(queue) \in Range(queue)
    BY <1>0, <2>1, HeadTailProperties DEF Range
  <2>4. Running' \subseteq Running \cup {Head(queue)}
    BY <1>0, <2>1 DEF Running, At
  <2> QED BY <2>2, <2>3, <2>4 DEF StaffLeft
<1>5. ASSUME NEW th \in Threads, Exit(th)
      PROVE  /\ queue' = <<>> /\ shutdown
             /\ Range(queue') \cap Pills = {} /\ Running' \cap Pills = {}
  <2>1. /\ queue = <<>> /\ shutdown /\ wpc' = [wpc EXCEPT ![th] = "exited"]
        /\ UNCHANGED <<queue, wtask>>
    BY <1>5 DEF Exit, MayExit, poolVars
  <2>2. Running' \subseteq Running
    BY <1>0, <2>1 DEF Running, At
  <2> QED BY <2>1, <2>2 DEF StaffLeft, Range
<1>6. ASSUME NEW th \in Threads, Wait(th) \/ SpuriousWakeup(th) \/ TaskReturns(th)
      PROVE  /\ UNCHANGED queue /\ Active' # {}
             /\ Range(queue') \cap Pills = {} /\ Running' \cap Pills = {}
  <2>1. /\ UNCHANGED queue /\ wpc' \in {[wpc EXCEPT ![th] = "wait"], [wpc EXCEPT ![th] = "lock"]}
        /\ wtask' \in {wtask, [wtask EXCEPT ![th] = None]}
    BY <1>6 DEF Wait, SpuriousWakeup, TaskReturns, poolVars
  <2>2. th \in Active'
    BY <1>0, <2>1 DEF Active, At
  <2>3. Running' \subseteq Running
    BY <1>0, <2>1 DEF Running, At
  <2> QED BY <2>1, <2>2, <2>3 DEF StaffLeft, Range
<1>7. ASSUME NEW th \in Threads, ThreadFinish(th) PROVE FALSE
  <2>1. wtask[th] \in Running \cap Pills
    BY <1>7 DEF ThreadFinish, Running, At
  <2> QED BY <2>1 DEF StaffLeft
<1>8. ASSUME NEW c \in Callers, Signal(c)
      PROVE  /\ UNCHANGED queue /\ Active' = Active
             /\ Range(queue') \cap Pills = {} /\ Running' \cap Pills = {}
  <2>1. UNCHANGED <<queue, wtask>> /\ WakeOne
    BY <1>8 DEF Signal, poolVars
  <2>2. Active' = Active /\ Running' = Running
    BY <1>0, <2>1 DEF WakeOne, Active, Running, At
  <2> QED BY <2>1, <2>2 DEF StaffLeft, Range
<1>9. CASE UNCHANGED vars
  BY <1>9 DEF vars, poolVars, workerVars, StaffLeft, Active, Running, At, Range
<1> QED
  BY <1>3, <1>4, <1>5, <1>6, <1>7, <1>8, <1>9 DEF WorkerStep, StaffLeft

\* The control logic of a program that only finishes.
LEMMA NextStaffLeft ==
  ASSUME NeverWaits, OnlyFinishes, 0 \notin NewSizes,
         TypeOK, OwnDestroy, StaffLeft, [Next]_vars
  PROVE  StaffLeft'
<1>0. /\ wpc \in [Threads -> WorkerPCs] /\ wtask \in [Threads -> Work \cup {None}]
      /\ queue \in Seq(Work) /\ NoCall.size = 0 /\ size \in Nat /\ idx \in Nat
      /\ call.size \in Nat
  BY PoolAssumption DEF TypeOK, NoCall, Call
<1>1. ASSUME \/ \E c \in Callers : (\E w \in Tasks : Enqueue(c, w)) \/ Signal(c)
             \/ \E th \in Threads : WorkerStep(th) \/ SpuriousWakeup(th)
             \/ UNCHANGED vars
      PROVE  StaffLeft'
  BY <1>1, OthersStaffLeft
\* steps that leave the queue and the workers alone
<1> DEFINE Same == UNCHANGED <<queue, wpc, wtask>>
<1>2. Same => Active' = Active /\ Running' = Running /\ Range(queue') = Range(queue)
  BY DEF Active, Running, At
<1>3. ASSUME NewBegin PROVE StaffLeft'
  <2>1. PICK s \in NewSizes : call' = [NoCall EXCEPT !.size = s]
    BY <1>3 DEF NewBegin
  <2>2. call'.size = s /\ s # 0
    BY <2>1 DEF NoCall
  <2>3. queue' = <<>> /\ Range(queue') = {} /\ Running' = Running
    BY <1>3 DEF NewBegin, workerVars, Range, Running, At
  <2>4. accepting' /\ ~shutdown' /\ cpc' = "create" /\ ret' = ret /\ idx' = idx /\ cpc = "start"
    BY <1>3 DEF NewBegin
  <2> QED BY <2>2, <2>3, <2>4 DEF StaffLeft
<1>4. ASSUME Create PROVE StaffLeft'
  <2>1. cpc = "create" /\ cpc' = cpc
    BY <1>4 DEF Create, StaffLeft
  <2>2. PICK th \in Threads : wpc[th] = "absent" /\ wpc' = [wpc EXCEPT ![th] = "lock"]
    BY <1>4 DEF Create, At
  <2>3. UNCHANGED <<queue, accepting, shutdown, wtask, ret, call>>
    BY <1>4 DEF Create
  <2>4. th \in Active'
    BY <1>0, <2>2 DEF Active, At
  <2>5. Running' = Running /\ Range(queue') = Range(queue)
    BY <1>0, <2>2, <2>3 DEF Running, At
  <2> QED BY <2>1, <2>3, <2>4, <2>5 DEF StaffLeft
<1>5. ASSUME CreateFails PROVE StaffLeft'
  <2>1. Same /\ UNCHANGED <<accepting, shutdown>> /\ cpc = "create"
    BY <1>5 DEF CreateFails, workerVars
  <2>2. cpc' \in {"shutdown", "failed"} /\ ret' = "failed" /\ call' = NoCall
    BY <1>5 DEF CreateFails
  <2> QED BY <1>0, <1>2, <2>1, <2>2 DEF StaffLeft
<1>6. ASSUME NewReturns PROVE StaffLeft'
  <2>1. Same /\ UNCHANGED <<accepting, shutdown, ret>> /\ cpc = "create" /\ idx = call.size
    BY <1>6 DEF NewReturns, workerVars
  <2>2. cpc' = ret /\ call' = NoCall
    BY <1>6 DEF NewReturns, Return
  <2> QED BY <1>0, <1>2, <2>1, <2>2 DEF StaffLeft
<1>7. ASSUME NEW c \in Calls, CallBegin(c) PROVE StaffLeft'
  <2>1. /\ Same /\ UNCHANGED <<accepting, shutdown>> /\ cpc \in {"idle", "failed"}
        /\ c.size = 0 /\ ~(c.size > size)
    BY <1>0, <1>7 DEF CallBegin, poolVars, workerVars, OnlyFinishes
  <2>2. CASE c.size > ThreadLimit
    <3>1. UNCHANGED <<cpc, ret, call, idx>>
      BY <1>7, <2>2 DEF CallBegin
    <3> QED BY <1>2, <2>1, <3>1 DEF StaffLeft
  <2>3. CASE ~(c.size > ThreadLimit)
    <3>1. cpc' = "shutdown" /\ call' = c
      BY <1>7, <2>1, <2>3 DEF CallBegin, FirstPhase
    <3> QED BY <1>2, <2>1, <3>1 DEF StaffLeft
  <2> QED BY <2>2, <2>3
<1>8. ASSUME RequestShutdown PROVE StaffLeft'
  <2>1. /\ Same /\ ~accepting' /\ shutdown' /\ cpc' = "wakeShutdown"
        /\ UNCHANGED <<ret, call>> /\ cpc = "shutdown"
    BY <1>8 DEF RequestShutdown, workerVars
  <2> QED BY <1>2, <2>1 DEF StaffLeft
<1>9. ASSUME Broadcast PROVE StaffLeft'
  <2>1. /\ UNCHANGED <<queue, accepting, shutdown, wtask, ret, call>>
        /\ cpc \in {"wakeShutdown", "wakeDiscard"}
    BY <1>9 DEF Broadcast, poolVars
  <2>2. cpc' \in {"discard", "settle"}
    BY <1>9, <2>1 DEF Broadcast, AfterShutdown, AfterDiscard, StaffLeft
  <2>3. Active' = Active /\ Running' = Running
    BY <1>0, <1>9, <2>1 DEF Broadcast, WakeAll, Active, Running, At
  <2> QED BY <2>1, <2>2, <2>3 DEF StaffLeft, Range
<1>10. ASSUME DiscardQueue PROVE StaffLeft'
  <2>1. /\ UNCHANGED <<accepting, shutdown, wpc, wtask, ret, call>> /\ queue' = <<>>
        /\ cpc = "discard" /\ cpc' = "wakeDiscard"
    BY <1>10 DEF DiscardQueue, workerVars
  <2>2. Running' = Running /\ Range(queue') = {}
    BY <2>1 DEF Running, At, Range
  <2> QED BY <2>1, <2>2 DEF StaffLeft
<1>11. ASSUME SetSize PROVE StaffLeft'
  <2>1. Same /\ UNCHANGED <<accepting, shutdown, ret>> /\ cpc = "settle" /\ shutdown
    BY <1>11 DEF SetSize, workerVars, StaffLeft
  <2>2. cpc' = ret /\ call' = NoCall
    BY <1>11 DEF SetSize, Return, OwnDestroy
  <2> QED BY <1>0, <1>2, <2>1, <2>2 DEF StaffLeft, TypeOK
<1>12. ASSUME DestroyBegin PROVE StaffLeft'
  <2>1. /\ Same /\ UNCHANGED <<accepting, shutdown, call>> /\ cpc \in {"idle", "failed"}
        /\ cpc' = "destroy" /\ ret' = cpc
    BY <1>12 DEF DestroyBegin, poolVars, workerVars
  <2> QED BY <1>2, <2>1 DEF StaffLeft
<1>13. ASSUME Destroy \/ DestroySync PROVE StaffLeft'
  <2>1. /\ Same /\ UNCHANGED <<accepting, shutdown, ret>> /\ cpc \in {"destroy", "destroySync"}
        /\ call' \in {call, NoCall}
        /\ (cpc = "destroy" /\ cpc' = ret) \/ cpc' \in {"destroySync", "gone"}
    BY <1>13 DEF Destroy, DestroySync, Return, poolVars, workerVars
  <2> QED BY <1>0, <1>2, <2>1 DEF StaffLeft, TypeOK
\* what such a program never does
<1>14. ~(GrowFails \/ GrowReturns \/ SendPill \/ MallocFails \/ PillsSent \/ Join)
  BY DEF GrowFails, GrowReturns, SendPill, MallocFails, PillsSent, Join, StaffLeft, OwnDestroy
<1> QED
  BY <1>1, <1>3, <1>4, <1>5, <1>6, <1>7, <1>8, <1>9, <1>10, <1>11, <1>12, <1>13, <1>14
  DEF Next, CtlStep

\* sph_thread_pool_finish with no_wait (thread-pool.c:130-134), then
\* sph_thread_pool_destroy: with any failures of pthread_create, when the pool
\* is destroyed every task that it accepted was executed or discarded.
THEOREM CallerDestroysDrained ==
  ASSUME NeverWaits, OnlyFinishes, 0 \notin NewSizes PROVE Spec => []Drained
<1> DEFINE Inv == TypeOK /\ OwnDestroy /\ StaffLeft
<1>1. Inv /\ [Next]_vars => Inv'
  BY NextTypeOK, NextOwnDestroy, NextStaffLeft
<1>2. Init => Inv
  <2>1. Init => OwnDestroy
    BY DEF Init, OwnDestroy, NoCall
  <2>2. Init => StaffLeft
    BY DEF Init, StaffLeft, NoCall, Running, At, Range
  <2> QED BY <2>1, <2>2, InitTypeOK
<1>3. Inv => Drained
  <2> SUFFICES ASSUME Inv, cpc \in {"destroySync", "gone"}
               PROVE  queue = <<>> /\ Running = {}
    BY DEF Drained
  <2>1. Active = {}
    BY DEF OwnDestroy
  <2> QED BY <2>1 DEF StaffLeft, Running, Active
<1> QED BY <1>1, <1>2, <1>3, PTL DEF Spec
=============================================================================
