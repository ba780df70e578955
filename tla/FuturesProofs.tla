--------------------------- MODULE FuturesProofs ---------------------------
(* Theorems of Futures for every number of objects and workers and every     *)
(* nesting: the safety properties the runs check.                            *)
EXTENDS Futures, SequenceTheorems, TLAPS

(* The inductive invariant: where each object is, and what its fields hold   *)
(* there.                                                                    *)

\* the pool has the object
Accounted(o) == o \in Range(pending) \/ \E w \in Evaluating : wfut[w] = o

\* queued objects are distinct, and as sph_future_new left them
PendingOK ==
    /\ \A i, j \in DOMAIN pending : pending[i] = pending[j] => i = j
    /\ \A o \in Range(pending) :
         /\ cpc[o] \in {"made", "touching"} /\ ~finished[o]
         /\ data[o] = Argument(round[o])

\* an object is evaluated by one worker, which holds the value of this use
EvaluatingOK ==
    /\ \A w \in Evaluating :
         /\ wfut[w] \in Objects /\ wfut[w] \notin Range(pending)
         /\ cpc[wfut[w]] \in {"made", "touching"} /\ ~finished[wfut[w]]
         /\ wpc[w] = "call" => wval[w] = Argument(round[wfut[w]])
         /\ wpc[w] = "store" => wval[w] = Apply(Argument(round[wfut[w]]))
         /\ wpc[w] = "publish" => data[wfut[w]] = Apply(Argument(round[wfut[w]]))
    /\ \A v, w \in Evaluating : wfut[v] = wfut[w] => v = w

\* what a user of an object may rely on
UsersOK ==
    \A o \in Objects :
      /\ cpc[o] = "prepared" => ~finished[o] /\ data[o] = Argument(round[o])
      /\ (cpc[o] \in {"made", "touching"} /\ finished[o]) \/ cpc[o] = "seen"
           => data[o] = Apply(Argument(round[o]))
      /\ cpc[o] = "returned" => touched[o] = Apply(Argument(round[o]))

\* a worker ends only when nothing is or will be queued
ClosingOK ==
    /\ (\E w \in Workers : wpc[w] = "absent") => ~accepting /\ pending = <<>>
    /\ ~initialized => mpc = "idle" /\ AllJoined
    /\ \A o \in Objects \ Inner :
         cpc[o] = "prepared" => initialized /\ mpc = "idle"
    /\ initialized /\ mpc = "idle" => accepting

\* an object that is not finished is in the pool, or else its user is a
\* function that some worker is still evaluating
WaitedFor ==
    /\ \A o \in Inner : cpc[o] # "idle" => InCall(o)
    /\ \A o \in Objects : cpc[o] \in {"made", "touching"} /\ ~finished[o] =>
         Accounted(o) \/ InCall(o)

\* before the first early reuse, the object of a worker that has still to
\* return from its function is nowhere else in the pool, and not on its way
ReturningOK ==
    ~early => \A v \in Workers : wpc[v] = "return" =>
        /\ wfut[v] \in Objects /\ wfut[v] \notin Range(pending)
        /\ cpc[wfut[v]] # "prepared"
        /\ \A w \in Evaluating : wfut[w] # wfut[v]
        /\ \A w \in Workers : wpc[w] = "return" /\ wfut[w] = wfut[v] => w = v

IInv == /\ TypeOK
        /\ PendingOK
        /\ EvaluatingOK
        /\ UsersOK
        /\ ClosingOK
        /\ WaitedFor
        /\ ReturningOK

-----------------------------------------------------------------------------
\* A record of Value is one applied to at most once.
LEMMA Values ==
    ASSUME NEW r \in 0..MaxRounds
    PROVE  /\ Argument(r) \in Value /\ Apply(Argument(r)) \in Value
           /\ Argument(r) = [round |-> r, applied |-> 0]
           /\ Apply(Argument(r)) = [round |-> r, applied |-> 1]
BY DEF Argument, Apply, Value

\* What a sequence contains after an element is appended.
LEMMA RangeAppend ==
    ASSUME NEW S, NEW s \in Seq(S), NEW x \in S
    PROVE  Range(Append(s, x)) = Range(s) \cup {x}
<1>1. /\ Append(s, x) \in Seq(S) /\ Len(Append(s, x)) = Len(s) + 1
      /\ \A i \in 1..Len(s) : Append(s, x)[i] = s[i]
      /\ Append(s, x)[Len(s) + 1] = x
  BY AppendProperties
<1> QED BY <1>1, LenProperties DEF Range

\* What a sequence without repetitions contains once its head is taken.
LEMMA RangeTail ==
    ASSUME NEW S, NEW s \in Seq(S), s # <<>>,
           \A i, j \in DOMAIN s : s[i] = s[j] => i = j
    PROVE  /\ Head(s) \in Range(s)
           /\ Range(Tail(s)) = Range(s) \ {Head(s)}
           /\ \A i, j \in DOMAIN Tail(s) : Tail(s)[i] = Tail(s)[j] => i = j
<1>1. /\ Tail(s) \in Seq(S) /\ Len(Tail(s)) = Len(s) - 1 /\ Head(s) = s[1]
      /\ \A i \in 1..Len(Tail(s)) : Tail(s)[i] = s[i + 1]
  BY HeadTailProperties
<1>2. Len(s) \in Nat /\ Len(s) # 0 /\ DOMAIN s = 1..Len(s)
  BY LenProperties, EmptySeq
<1>3. DOMAIN Tail(s) = 1..(Len(s) - 1)
  BY <1>1, LenProperties
<1>4. \A x \in Range(s) : x # s[1] => x \in Range(Tail(s))
  <2> SUFFICES ASSUME NEW i \in 1..Len(s), s[i] # s[1] PROVE s[i] \in Range(Tail(s))
    BY <1>2 DEF Range
  <2>1. i - 1 \in 1..(Len(s) - 1) /\ Tail(s)[i - 1] = s[i]
    BY <1>1, <1>2, <1>3
  <2> QED BY <2>1, <1>3 DEF Range
<1>5. \A x \in Range(Tail(s)) : x \in Range(s) /\ x # s[1]
  BY <1>1, <1>2, <1>3 DEF Range
<1>6. s[1] \in Range(s)
  BY <1>2 DEF Range
<1>7. ASSUME NEW i \in DOMAIN Tail(s), NEW j \in DOMAIN Tail(s), Tail(s)[i] = Tail(s)[j]
      PROVE  i = j
  BY <1>1, <1>2, <1>3, <1>7
<1> QED BY <1>1, <1>4, <1>5, <1>6, <1>7

\* Only future objects are queued.
LEMMA QueuedAreObjects == TypeOK => Range(pending) \subseteq Objects
<1> SUFFICES ASSUME TypeOK PROVE Range(pending) \subseteq Objects
  OBVIOUS
<1>1. pending \in Seq(Objects)
  BY DEF TypeOK
<1>2. \A i \in DOMAIN pending : pending[i] \in Objects
  BY <1>1, ElementOfSeq, LenProperties
<1> QED BY <1>2 DEF Range

\* The invariant holds before sph_future_init.
LEMMA InitIInv == Init => IInv
<1> SUFFICES ASSUME Init PROVE IInv
  OBVIOUS
<1>1. 0 \in 0..MaxRounds /\ Argument(0) \in Value
  <2>1. 0 \in 0..MaxRounds
    BY FuturesAssumption
  <2> QED BY <2>1, Values
<1>2. TypeOK
  <2>1. pending \in Seq(Objects)
    BY EmptySeq DEF Init
  <2>2. deinits \in 0..MaxDeinits
    BY FuturesAssumption DEF Init
  <2> QED BY <1>1, <2>1, <2>2 DEF Init, TypeOK, UserPCs, WorkerPCs
<1>3. Range(pending) = {} /\ DOMAIN pending = {}
  BY DEF Init, Range
<1>4. Evaluating = {}
  BY DEF Init, Evaluating
<1>5. PendingOK /\ EvaluatingOK
  BY <1>3, <1>4 DEF PendingOK, EvaluatingOK
<1>6. UsersOK
  BY DEF Init, UsersOK
<1>7. ClosingOK
  BY DEF Init, ClosingOK, AllJoined
<1>8. WaitedFor
  BY FuturesAssumption DEF Init, WaitedFor, Inner
<1>9. ReturningOK
  BY DEF Init, ReturningOK
<1> QED BY <1>2, <1>5, <1>6, <1>7, <1>8, <1>9 DEF IInv

-----------------------------------------------------------------------------
(* Every action keeps the invariant: one lemma for each action, and in it    *)
(* one step for each part.                                                   *)

\* sph_future_init keeps the invariant.
LEMMA FutureInitKeeps ==
    ASSUME IInv, FutureInit PROVE IInv'
<1> USE FuturesAssumption DEF IInv, FutureInit,
      mainVars, poolVars, workerVars, fieldVars, userVars
<1>1. TypeOK'
  BY Values DEF TypeOK, UserPCs, WorkerPCs
<1>2. PendingOK'
  <2>1. DOMAIN pending' = {} /\ Range(pending') = {}
    BY DEF Range
  <2> QED BY <2>1 DEF PendingOK
<1>3. EvaluatingOK'
  BY DEF EvaluatingOK, TypeOK, Evaluating
<1>4. UsersOK'
  BY DEF UsersOK, TypeOK
<1>5. ClosingOK'
  BY DEF ClosingOK, TypeOK, AllJoined
<1>6. WaitedFor'
  <2>1. pending = <<>> /\ \A w \in Workers : wpc[w] = "absent"
    BY DEF ClosingOK, AllJoined
  <2>2. Evaluating = {} /\ \A o \in Objects : ~InCall(o)
    BY <2>1 DEF Evaluating, InCall
  <2>3. Range(pending) = {}
    BY <2>1 DEF Range
  <2>4. \A o \in Objects : ~Accounted(o)
    BY <2>2, <2>3 DEF Accounted
  <2>5. Inner \subseteq Objects
    BY DEF Inner
  <2> QED BY <2>2, <2>4, <2>5 DEF WaitedFor, TypeOK
<1>7. ReturningOK'
  BY DEF ReturningOK, Evaluating, TypeOK
<1> QED BY <1>1, <1>2, <1>3, <1>4, <1>5, <1>6, <1>7

\* The shutdown request of sph_future_deinit keeps the invariant.
LEMMA DeinitBeginKeeps ==
    ASSUME IInv, DeinitBegin PROVE IInv'
<1> USE FuturesAssumption DEF IInv, DeinitBegin, NobodyEnqueues,
      mainVars, poolVars, workerVars, fieldVars, userVars
<1>1. TypeOK'
  <2>1. deinits' \in 0..MaxDeinits
    BY DEF TypeOK
  <2> QED BY <2>1 DEF TypeOK
<1>2. PendingOK'
  BY DEF PendingOK, TypeOK
<1>3. EvaluatingOK'
  BY DEF EvaluatingOK, TypeOK, Evaluating
<1>4. UsersOK'
  BY DEF UsersOK, TypeOK
<1>5. ClosingOK'
  BY DEF ClosingOK, TypeOK, AllJoined
<1>6. WaitedFor'
  <2>1. Inner \subseteq Objects
    BY DEF Inner
  <2>2. \A x \in Objects : InCall(x)' = InCall(x) /\ Accounted(x)' = Accounted(x)
    BY DEF InCall, Accounted, Evaluating
  <2> QED BY <2>1, <2>2 DEF WaitedFor, TypeOK
<1>7. ReturningOK'
  BY DEF ReturningOK, Evaluating, TypeOK
<1> QED BY <1>1, <1>2, <1>3, <1>4, <1>5, <1>6, <1>7

\* The return of sph_future_deinit keeps the invariant.
LEMMA DeinitReturnsKeeps ==
    ASSUME IInv, DeinitReturns PROVE IInv'
<1> USE FuturesAssumption DEF IInv, DeinitReturns,
      mainVars, poolVars, workerVars, fieldVars, userVars
<1>1. TypeOK'
  BY Values DEF TypeOK, UserPCs, WorkerPCs
<1>2. PendingOK'
  BY DEF PendingOK, TypeOK
<1>3. EvaluatingOK'
  BY DEF EvaluatingOK, TypeOK, Evaluating
<1>4. UsersOK'
  BY DEF UsersOK, TypeOK
<1>5. ClosingOK'
  BY DEF ClosingOK, TypeOK, AllJoined
<1>6. WaitedFor'
  BY DEF WaitedFor, TypeOK, Accounted, Evaluating, InCall
<1>7. ReturningOK'
  BY DEF ReturningOK, Evaluating, TypeOK
<1> QED BY <1>1, <1>2, <1>3, <1>4, <1>5, <1>6, <1>7

\* The assignments of sph_future_new keep the invariant.
LEMMA FutureNewKeeps ==
    ASSUME IInv, NEW o \in Objects, FutureNew(o) PROVE IInv'
<1> USE FuturesAssumption DEF IInv, FutureNew, MayMake, Prepare,
      mainVars, poolVars, workerVars, fieldVars, userVars
<1>1. TypeOK'
  BY Values DEF TypeOK, UserPCs, WorkerPCs
<1>2. PendingOK'
  BY DEF PendingOK, TypeOK
<1>3. EvaluatingOK'
  BY DEF EvaluatingOK, TypeOK, Evaluating
<1>4. UsersOK'
  BY DEF UsersOK, TypeOK
<1>5. ClosingOK'
  BY DEF ClosingOK, TypeOK, AllJoined
<1>6. WaitedFor'
  <2>1. Inner \subseteq Objects
    BY DEF Inner
  <2>2. \A x \in Objects : InCall(x)' = InCall(x) /\ Accounted(x)' = Accounted(x)
    BY DEF InCall, Accounted, Evaluating
  <2>3. cpc'[o] = "prepared" /\ (o \in Inner => InCall(o))
    BY DEF TypeOK
  <2>4. \A x \in Objects : x # o => cpc'[x] = cpc[x] /\ finished'[x] = finished[x]
    BY DEF TypeOK
  <2> QED BY <2>1, <2>2, <2>3, <2>4 DEF WaitedFor
<1>7. ReturningOK'
  <2>1. ~early' => ~early /\ \A v \in Workers : wpc[v] = "return" => wfut[v] # o
    BY DEF Returning
  <2> QED BY <2>1 DEF ReturningOK, Evaluating, TypeOK
<1> QED BY <1>1, <1>2, <1>3, <1>4, <1>5, <1>6, <1>7

\* The enqueue of sph_future_new, accepted or refused, keeps the invariant.
LEMMA EnqueueKeeps ==
    ASSUME IInv, NEW o \in Objects, Enqueue(o) PROVE IInv'
<1> USE FuturesAssumption DEF IInv, Enqueue,
      mainVars, poolVars, workerVars, fieldVars, userVars
<1>1. TypeOK'
  BY Values DEF TypeOK, UserPCs, WorkerPCs
<1>2. PendingOK'
  <2>1. CASE ~accepting
    BY <2>1 DEF PendingOK, TypeOK
  <2>2. CASE accepting
    <3>1. \A i \in DOMAIN pending : pending[i] # o
      BY DEF PendingOK, Range
    <3>2. pending' = Append(pending, o) /\ pending \in Seq(Objects)
      BY <2>2 DEF TypeOK
    <3>3. \A i, j \in DOMAIN pending' : pending'[i] = pending'[j] => i = j
      <4>1. /\ DOMAIN pending' = 1..(Len(pending) + 1) /\ DOMAIN pending = 1..Len(pending)
            /\ \A i \in 1..Len(pending) : pending'[i] = pending[i]
            /\ pending'[Len(pending) + 1] = o /\ Len(pending) \in Nat
        BY <3>2, AppendProperties, LenProperties
      <4> QED BY <3>1, <4>1 DEF PendingOK
    <3>4. \A x \in Range(pending') : cpc'[x] \in {"made", "touching"}
      BY <3>2, RangeAppend, QueuedAreObjects DEF PendingOK, TypeOK
    <3>5. \A x \in Range(pending') : ~finished'[x] /\ data'[x] = Argument(round'[x])
      BY <3>2, RangeAppend DEF PendingOK, UsersOK
    <3> QED BY <3>3, <3>4, <3>5 DEF PendingOK
  <2> QED BY <2>1, <2>2
<1>3. EvaluatingOK'
  <2>1. \A w \in Evaluating : wfut[w] # o
    BY DEF EvaluatingOK
  <2>2. \A w \in Evaluating : wfut[w] \notin Range(pending')
    BY <2>1, RangeAppend DEF EvaluatingOK, TypeOK
  <2> QED BY <2>1, <2>2 DEF EvaluatingOK, TypeOK, Evaluating
<1>4. UsersOK'
  BY DEF UsersOK, TypeOK
<1>5. ClosingOK'
  BY DEF ClosingOK, TypeOK, AllJoined
<1>6. WaitedFor'
  <2>1. Inner \subseteq Objects
    BY DEF Inner
  <2>2. \A x \in Objects : InCall(x)' = InCall(x)
    BY DEF InCall
  <2>3. \A x \in Objects : Accounted(x) => Accounted(x)'
    BY RangeAppend DEF Accounted, Evaluating, TypeOK
  <2>4. accepting => Accounted(o)'
    BY RangeAppend DEF Accounted, TypeOK
  <2>5. ~accepting => o \in Inner
    BY DEF ClosingOK
  <2>6. cpc[o] # "idle"
    OBVIOUS
  <2>7. \A x \in Inner : cpc'[x] # "idle" => InCall(x)'
    BY <2>1, <2>2, <2>6 DEF WaitedFor, TypeOK
  <2>8. ASSUME NEW x \in Objects, cpc'[x] \in {"made", "touching"}, ~finished'[x]
        PROVE  Accounted(x)' \/ InCall(x)'
    <3>1. CASE x = o
      BY <3>1, <2>2, <2>4, <2>5, <2>6 DEF WaitedFor
    <3>2. CASE x # o
      BY <3>2, <2>2, <2>3, <2>8 DEF WaitedFor, TypeOK
    <3> QED BY <3>1, <3>2
  <2> QED BY <2>7, <2>8 DEF WaitedFor
<1>7. ReturningOK'
  <2>1. Range(pending') \subseteq Range(pending) \cup {o}
    BY RangeAppend DEF TypeOK
  <2> QED BY <2>1 DEF ReturningOK, Evaluating, TypeOK
<1> QED BY <1>1, <1>2, <1>3, <1>4, <1>5, <1>6, <1>7

\* The call of sph_future_touch keeps the invariant.
LEMMA TouchBeginKeeps ==
    ASSUME IInv, NEW o \in Objects, TouchBegin(o) PROVE IInv'
<1> USE FuturesAssumption DEF IInv, TouchBegin,
      mainVars, poolVars, workerVars, fieldVars, userVars
<1>1. TypeOK'
  BY Values DEF TypeOK, UserPCs, WorkerPCs
<1>2. PendingOK'
  BY DEF PendingOK, TypeOK
<1>3. EvaluatingOK'
  BY DEF EvaluatingOK, TypeOK, Evaluating
<1>4. UsersOK'
  BY DEF UsersOK, TypeOK
<1>5. ClosingOK'
  BY DEF ClosingOK, TypeOK, AllJoined
<1>6. WaitedFor'
  <2>1. Inner \subseteq Objects
    BY DEF Inner
  <2>2. \A x \in Objects : InCall(x)' = InCall(x) /\ Accounted(x)' = Accounted(x)
    BY DEF InCall, Accounted, Evaluating
  <2> QED BY <2>1, <2>2 DEF WaitedFor, TypeOK
<1>7. ReturningOK'
  BY DEF ReturningOK, Evaluating, TypeOK
<1> QED BY <1>1, <1>2, <1>3, <1>4, <1>5, <1>6, <1>7

\* The acquiring load that reads 1 keeps the invariant.
LEMMA TouchSeesKeeps ==
    ASSUME IInv, NEW o \in Objects, TouchSees(o) PROVE IInv'
<1> USE FuturesAssumption DEF IInv, TouchSees,
      mainVars, poolVars, workerVars, fieldVars, userVars
<1>1. TypeOK'
  BY Values DEF TypeOK, UserPCs, WorkerPCs
<1>2. PendingOK'
  BY DEF PendingOK, TypeOK
<1>3. EvaluatingOK'
  BY DEF EvaluatingOK, TypeOK, Evaluating
<1>4. UsersOK'
  BY DEF UsersOK, TypeOK
<1>5. ClosingOK'
  BY DEF ClosingOK, TypeOK, AllJoined
<1>6. WaitedFor'
  <2>1. Inner \subseteq Objects
    BY DEF Inner
  <2>2. \A x \in Objects : InCall(x)' = InCall(x) /\ Accounted(x)' = Accounted(x)
    BY DEF InCall, Accounted, Evaluating
  <2> QED BY <2>1, <2>2 DEF WaitedFor, TypeOK
<1>7. ReturningOK'
  BY DEF ReturningOK, Evaluating, TypeOK
<1> QED BY <1>1, <1>2, <1>3, <1>4, <1>5, <1>6, <1>7

\* The return of sph_future_touch keeps the invariant.
LEMMA TouchReturnsKeeps ==
    ASSUME IInv, NEW o \in Objects, TouchReturns(o) PROVE IInv'
<1> USE FuturesAssumption DEF IInv, TouchReturns,
      mainVars, poolVars, workerVars, fieldVars, userVars
<1>1. TypeOK'
  BY Values DEF TypeOK, UserPCs, WorkerPCs
<1>2. PendingOK'
  BY DEF PendingOK, TypeOK
<1>3. EvaluatingOK'
  BY DEF EvaluatingOK, TypeOK, Evaluating
<1>4. UsersOK'
  BY DEF UsersOK, TypeOK
<1>5. ClosingOK'
  BY DEF ClosingOK, TypeOK, AllJoined
<1>6. WaitedFor'
  <2>1. Inner \subseteq Objects
    BY DEF Inner
  <2>2. \A x \in Objects : InCall(x)' = InCall(x) /\ Accounted(x)' = Accounted(x)
    BY DEF InCall, Accounted, Evaluating
  <2> QED BY <2>1, <2>2 DEF WaitedFor, TypeOK
<1>7. ReturningOK'
  BY DEF ReturningOK, Evaluating, TypeOK
<1> QED BY <1>1, <1>2, <1>3, <1>4, <1>5, <1>6, <1>7

\* A worker that takes a future keeps the invariant.
LEMMA TakeKeeps ==
    ASSUME IInv, NEW v \in Workers, Take(v) PROVE IInv'
<1> USE FuturesAssumption DEF IInv, Take,
      mainVars, poolVars, workerVars, fieldVars, userVars
<1>1. TypeOK'
  BY Values DEF TypeOK, UserPCs, WorkerPCs
<1>2. PendingOK'
  <2>1. /\ Range(pending') = Range(pending) \ {Head(pending)}
        /\ \A i, j \in DOMAIN pending' : pending'[i] = pending'[j] => i = j
    BY RangeTail DEF PendingOK, TypeOK
  <2> QED BY <2>1 DEF PendingOK
<1>3. EvaluatingOK'
  <2> DEFINE o == Head(pending)
  <2>1. o \in Range(pending) /\ Range(pending') = Range(pending) \ {o}
    BY RangeTail DEF PendingOK, TypeOK
  <2>2. o \in Objects
    BY <2>1, QueuedAreObjects
  <2>3. Evaluating' = Evaluating \cup {v} /\ v \notin Evaluating
    BY DEF Evaluating, TypeOK
  <2>4. /\ wfut'[v] = o /\ wval'[v] = data[o] /\ wpc'[v] = "call"
        /\ \A w \in Evaluating : wfut'[w] = wfut[w] /\ wval'[w] = wval[w] /\ wpc'[w] = wpc[w]
    BY <2>3 DEF TypeOK, Evaluating
  <2>5. \A w \in Evaluating : wfut[w] # o
    BY <2>1 DEF EvaluatingOK
  <2> HIDE DEF o
  <2>6. \A w \in Evaluating' : wfut'[w] \in Objects /\ wfut'[w] \notin Range(pending')
    BY <2>1, <2>2, <2>3, <2>4 DEF EvaluatingOK
  <2>7. \A w \in Evaluating' : cpc'[wfut'[w]] \in {"made", "touching"} /\ ~finished'[wfut'[w]]
    BY <2>1, <2>3, <2>4 DEF EvaluatingOK, PendingOK
  <2>8. \A w \in Evaluating' :
          /\ wpc'[w] = "call" => wval'[w] = Argument(round'[wfut'[w]])
          /\ wpc'[w] = "store" => wval'[w] = Apply(Argument(round'[wfut'[w]]))
          /\ wpc'[w] = "publish" => data'[wfut'[w]] = Apply(Argument(round'[wfut'[w]]))
    BY <2>1, <2>3, <2>4 DEF EvaluatingOK, PendingOK
  <2>9. \A u, w \in Evaluating' : wfut'[u] = wfut'[w] => u = w
    BY <2>3, <2>4, <2>5 DEF EvaluatingOK
  <2> QED BY <2>6, <2>7, <2>8, <2>9 DEF EvaluatingOK
<1>4. UsersOK'
  BY DEF UsersOK, TypeOK
<1>5. ClosingOK'
  BY DEF ClosingOK, TypeOK, AllJoined
<1>6. WaitedFor'
  <2>1. Inner \subseteq Objects
    BY DEF Inner
  <2>2. Range(pending') = Range(pending) \ {Head(pending)}
    BY RangeTail DEF PendingOK, TypeOK
  <2>3. /\ v \in Evaluating' /\ wfut'[v] = Head(pending)
        /\ \A w \in Evaluating : w \in Evaluating' /\ wfut'[w] = wfut[w]
    BY DEF Evaluating, TypeOK
  <2>4. \A x \in Objects : Accounted(x) => Accounted(x)'
    BY <2>2, <2>3 DEF Accounted
  <2>5. \A x \in Objects : InCall(x) => InCall(x)'
    BY DEF InCall, TypeOK
  <2> QED BY <2>1, <2>4, <2>5 DEF WaitedFor
<1>7. ReturningOK'
  <2>1. Head(pending) \in Range(pending) /\ Range(pending') \subseteq Range(pending)
    BY RangeTail DEF PendingOK, TypeOK
  <2>2. wpc'[v] = "call" /\ wfut'[v] = Head(pending)
    BY DEF TypeOK
  <2>3. \A w \in Workers : w # v => wpc'[w] = wpc[w] /\ wfut'[w] = wfut[w]
    BY DEF TypeOK
  <2> QED BY <2>1, <2>2, <2>3 DEF ReturningOK, Evaluating
<1> QED BY <1>1, <1>2, <1>3, <1>4, <1>5, <1>6, <1>7

\* The return of a future's function keeps the invariant.
LEMMA FunctionReturnsKeeps ==
    ASSUME IInv, NEW v \in Workers, FunctionReturns(v) PROVE IInv'
<1> USE FuturesAssumption DEF IInv, FunctionReturns,
      mainVars, poolVars, workerVars, fieldVars, userVars
<1>1. TypeOK'
  <2>1. wval[v] = Argument(round[wfut[v]]) /\ wfut[v] \in Objects
    BY DEF EvaluatingOK, Evaluating
  <2>2. Apply(wval[v]) \in Value
    BY <2>1, Values DEF TypeOK
  <2> QED BY <2>2 DEF TypeOK, UserPCs, WorkerPCs
<1>2. PendingOK'
  <2>1. \A x \in Range(pending) : cpc'[x] = cpc[x]
    BY QueuedAreObjects DEF PendingOK
  <2> QED BY <2>1 DEF PendingOK
<1>3. EvaluatingOK'
  BY DEF EvaluatingOK, TypeOK, Evaluating
<1>4. UsersOK'
  BY DEF UsersOK, TypeOK
<1>5. ClosingOK'
  BY DEF ClosingOK, TypeOK, AllJoined
<1>6. WaitedFor'
  <2>1. Inner \subseteq Objects
    BY DEF Inner
  <2>2. \A x \in Objects : InCall(x) /\ x # Nested[wfut[v]] => InCall(x)'
    BY DEF InCall, TypeOK
  <2>3. Evaluating' = Evaluating
    BY DEF Evaluating, TypeOK
  <2>4. \A x \in Objects : Accounted(x)' = Accounted(x)
    BY <2>3 DEF Accounted
  <2>5. \A x \in Objects : x # Nested[wfut[v]] => cpc'[x] = cpc[x]
    OBVIOUS
  <2>6. \A x \in Objects : x = Nested[wfut[v]] => cpc'[x] = "idle"
    OBVIOUS
  <2>7. \A x \in Inner : cpc'[x] # "idle" => InCall(x)'
    BY <2>1, <2>2, <2>5, <2>6 DEF WaitedFor
  <2> QED BY <2>2, <2>4, <2>5, <2>6, <2>7 DEF WaitedFor
<1>7. ReturningOK'
  BY DEF ReturningOK, Evaluating, TypeOK
<1> QED BY <1>1, <1>2, <1>3, <1>4, <1>5, <1>6, <1>7

\* Storing the result keeps the invariant.
LEMMA StoreKeeps ==
    ASSUME IInv, NEW v \in Workers, Store(v) PROVE IInv'
<1> USE FuturesAssumption DEF IInv, Store, StoreResult,
      mainVars, poolVars, workerVars, fieldVars, userVars
<1>1. TypeOK'
  BY Values DEF TypeOK, UserPCs, WorkerPCs
<1>2. PendingOK'
  <2>1. wfut[v] \notin Range(pending)
    BY DEF EvaluatingOK, Evaluating
  <2> QED BY <2>1, QueuedAreObjects DEF PendingOK, TypeOK
<1>3. EvaluatingOK'
  BY DEF EvaluatingOK, TypeOK, Evaluating
<1>4. UsersOK'
  <2>1. cpc[wfut[v]] \in {"made", "touching"} /\ ~finished[wfut[v]]
    BY DEF EvaluatingOK, Evaluating
  <2> QED BY <2>1 DEF UsersOK, TypeOK
<1>5. ClosingOK'
  BY DEF ClosingOK, TypeOK, AllJoined
<1>6. WaitedFor'
  BY DEF WaitedFor, TypeOK, Accounted, Evaluating, InCall
<1>7. ReturningOK'
  BY DEF ReturningOK, Evaluating, TypeOK
<1> QED BY <1>1, <1>2, <1>3, <1>4, <1>5, <1>6, <1>7

\* The releasing store of finished keeps the invariant.
LEMMA FinishKeeps ==
    ASSUME IInv, NEW v \in Workers, Finish(v) PROVE IInv'
<1> USE FuturesAssumption DEF IInv, Finish, Publish,
      mainVars, poolVars, workerVars, fieldVars, userVars
<1>1. TypeOK'
  BY Values DEF TypeOK, UserPCs, WorkerPCs
<1>2. PendingOK'
  <2>1. wfut[v] \notin Range(pending)
    BY DEF EvaluatingOK, Evaluating
  <2> QED BY <2>1, QueuedAreObjects DEF PendingOK, TypeOK
<1>3. EvaluatingOK'
  BY DEF EvaluatingOK, TypeOK, Evaluating
<1>4. UsersOK'
  <2>1. /\ cpc[wfut[v]] \in {"made", "touching"}
        /\ data[wfut[v]] = Apply(Argument(round[wfut[v]]))
    BY DEF EvaluatingOK, Evaluating
  <2> QED BY <2>1 DEF UsersOK, TypeOK
<1>5. ClosingOK'
  BY DEF ClosingOK, TypeOK, AllJoined
<1>6. WaitedFor'
  BY DEF WaitedFor, TypeOK, Accounted, Evaluating, InCall
<1>7. ReturningOK'
  <2>1. /\ wfut[v] \in Objects /\ wfut[v] \notin Range(pending)
        /\ cpc[wfut[v]] \in {"made", "touching"}
        /\ \A w \in Evaluating : wfut[w] = wfut[v] => w = v
    BY DEF EvaluatingOK, Evaluating
  <2>2. /\ wpc'[v] = "return" /\ v \in Evaluating
        /\ \A w \in Workers : w # v => wpc'[w] = wpc[w]
    BY DEF TypeOK, Evaluating
  <2>3. Evaluating' = Evaluating \ {v}
    BY <2>2 DEF Evaluating
  <2> QED BY <2>1, <2>2, <2>3 DEF ReturningOK
<1> QED BY <1>1, <1>2, <1>3, <1>4, <1>5, <1>6, <1>7

\* The return of sph_future_eval keeps the invariant.
LEMMA EvalReturnsKeeps ==
    ASSUME IInv, NEW v \in Workers, EvalReturns(v) PROVE IInv'
<1> USE FuturesAssumption DEF IInv, EvalReturns,
      mainVars, poolVars, workerVars, fieldVars, userVars
<1>1. TypeOK'
  BY Values DEF TypeOK, UserPCs, WorkerPCs
<1>2. PendingOK'
  BY DEF PendingOK, TypeOK
<1>3. EvaluatingOK'
  BY DEF EvaluatingOK, TypeOK, Evaluating
<1>4. UsersOK'
  BY DEF UsersOK, TypeOK
<1>5. ClosingOK'
  BY DEF ClosingOK, TypeOK, AllJoined
<1>6. WaitedFor'
  BY DEF WaitedFor, TypeOK, Accounted, Evaluating, InCall
<1>7. ReturningOK'
  BY DEF ReturningOK, Evaluating, TypeOK
<1> QED BY <1>1, <1>2, <1>3, <1>4, <1>5, <1>6, <1>7

\* A worker that ends keeps the invariant.
LEMMA LeaveKeeps ==
    ASSUME IInv, NEW v \in Workers, Leave(v) PROVE IInv'
<1> USE FuturesAssumption DEF IInv, Leave, MayLeave,
      mainVars, poolVars, workerVars, fieldVars, userVars
<1>1. TypeOK'
  BY Values DEF TypeOK, UserPCs, WorkerPCs
<1>2. PendingOK'
  BY DEF PendingOK, TypeOK
<1>3. EvaluatingOK'
  BY DEF EvaluatingOK, TypeOK, Evaluating
<1>4. UsersOK'
  BY DEF UsersOK, TypeOK
<1>5. ClosingOK'
  BY DEF ClosingOK, TypeOK, AllJoined
<1>6. WaitedFor'
  BY DEF WaitedFor, TypeOK, Accounted, Evaluating, InCall
<1>7. ReturningOK'
  BY DEF ReturningOK, Evaluating, TypeOK
<1> QED BY <1>1, <1>2, <1>3, <1>4, <1>5, <1>6, <1>7

\* The invariant is inductive.
LEMMA NextIInv == IInv /\ [Next]_vars => IInv'
<1> SUFFICES ASSUME IInv, [Next]_vars PROVE IInv'
  OBVIOUS
<1>1. CASE FutureInit \/ DeinitBegin \/ DeinitReturns
  BY <1>1, FutureInitKeeps, DeinitBeginKeeps, DeinitReturnsKeeps
<1>2. ASSUME NEW o \in Objects, FutureNew(o) \/ TouchBegin(o) \/ UserStep(o) PROVE IInv'
  BY <1>2, FutureNewKeeps, EnqueueKeeps, TouchBeginKeeps, TouchSeesKeeps,
     TouchReturnsKeeps DEF UserStep
<1>3. ASSUME NEW v \in Workers, WorkerStep(v) PROVE IInv'
  BY <1>3, TakeKeeps, FunctionReturnsKeeps, StoreKeeps, FinishKeeps,
     EvalReturnsKeeps, LeaveKeeps DEF WorkerStep
<1>4. CASE UNCHANGED vars
  BY <1>4 DEF vars, mainVars, poolVars, workerVars, fieldVars, userVars, IInv,
     TypeOK, PendingOK, EvaluatingOK, Evaluating, UsersOK, ClosingOK, AllJoined,
     WaitedFor, Accounted, InCall, ReturningOK
<1> QED BY <1>1, <1>2, <1>3, <1>4 DEF Next

\* The invariant holds in every reachable state.
LEMMA Invariance == Spec => []IInv
BY InitIInv, NextIInv, PTL DEF Spec

-----------------------------------------------------------------------------
\* sph_future_touch returns the function's result for this use of the object,
\* however uses, workers and nested futures interleave.
THEOREM TouchGivesResult == Spec => []ResultOfThisUse
<1>1. IInv => ResultOfThisUse
  BY DEF IInv, UsersOK, ResultOfThisUse
<1> QED BY <1>1, Invariance, PTL

\* Once touch saw an object finished no worker reads or writes it any more.
THEOREM TouchGivesOwnership == Spec => []OwnedAfterTouch
<1>1. IInv => OwnedAfterTouch
  BY DEF IInv, PendingOK, EvaluatingOK, OwnedAfterTouch
<1> QED BY <1>1, Invariance, PTL

\* After sph_future_deinit returned every future that was made is finished.
THEOREM DeinitWaitsForAll == Spec => []DeinitWaits
<1>1. IInv => DeinitWaits
  <2> SUFFICES ASSUME IInv, mpc = "idle", ~initialized,
                      NEW o \in Objects, cpc[o] \in {"made", "touching"}
               PROVE  finished[o]
    BY DEF DeinitWaits
  <2>1. pending = <<>> /\ \A w \in Workers : wpc[w] = "absent"
    BY FuturesAssumption DEF IInv, ClosingOK, AllJoined
  <2>2. ~InCall(o) /\ Evaluating = {} /\ Range(pending) = {}
    BY <2>1 DEF InCall, Evaluating, Range
  <2> QED BY <2>2 DEF IInv, WaitedFor, Accounted
<1> QED BY <1>1, Invariance, PTL

-----------------------------------------------------------------------------
\* the workers inside of a task function
InFunction == {w \in Workers : wpc[w] \in {"call", "store", "publish", "return"}}

\* Before the first early reuse no two workers execute one object, and no
\* object is executed that is queued or about to be.
LEMMA ExecutingOK ==
    ASSUME IInv, ~early
    PROVE  /\ Executing = {wfut[w] : w \in InFunction}
           /\ \A v, w \in InFunction : wfut[v] = wfut[w] => v = w
           /\ \A o \in Executing : /\ o \in Objects /\ o \notin Range(pending)
                                  /\ cpc[o] # "prepared"
<1> USE DEF IInv
<1>1. Executing = {wfut[w] : w \in InFunction}
  BY DEF Executing, InFunction
<1>2. \A w \in InFunction : w \in Evaluating \/ (w \in Workers /\ wpc[w] = "return")
  BY DEF InFunction, Evaluating
<1>3. \A v, w \in InFunction : wfut[v] = wfut[w] => v = w
  BY <1>2 DEF EvaluatingOK, ReturningOK
<1>4. \A w \in InFunction : /\ wfut[w] \in Objects /\ wfut[w] \notin Range(pending)
                            /\ cpc[wfut[w]] # "prepared"
  BY <1>2 DEF EvaluatingOK, ReturningOK
<1> QED BY <1>1, <1>3, <1>4

\* Every step that makes no early reuse, nor follows one, is a step of the
\* task service, or none.
LEMMA NextServiceStep ==
    ASSUME IInv, [Next]_vars, ~early'
    PROVE  Service!Next \/ UNCHANGED <<pending, Executing>>
<1> USE DEF IInv, mainVars, poolVars, workerVars, fieldVars, userVars
<1>1. ASSUME UNCHANGED <<pending, workerVars>>
      PROVE  UNCHANGED <<pending, Executing>>
  BY <1>1 DEF Executing
<1>2. ASSUME NEW o \in Objects, Enqueue(o)
      PROVE  Service!Next \/ UNCHANGED <<pending, Executing>>
  <2>1. o \notin Range(pending) /\ o \notin Executing
    BY <1>2, ExecutingOK DEF Enqueue, PendingOK
  <2>2. Executing' = Executing
    BY <1>2 DEF Enqueue, Executing
  <2>3. CASE accepting
    <3>1. pending' = Append(pending, o)
      BY <1>2, <2>3 DEF Enqueue
    <3>2. Service!Accept(o)
      BY <2>1, <2>2, <3>1 DEF Service!Accept, Service!Range, Range
    <3> QED BY <3>2 DEF Service!Next
  <2>4. CASE ~accepting
    BY <1>2, <2>2, <2>4 DEF Enqueue
  <2> QED BY <2>3, <2>4
<1>3. ASSUME NEW v \in Workers, Take(v) PROVE Service!Next
  <2>1. pending # <<>> /\ pending' = Tail(pending) /\ ~early
    BY <1>3 DEF Take
  <2>2. Head(pending) \in Range(pending)
    BY <2>1, RangeTail DEF PendingOK, TypeOK
  <2>3. Head(pending) \notin Executing
    BY <2>1, <2>2, ExecutingOK
  <2>4. /\ InFunction' = InFunction \cup {v} /\ v \notin InFunction
        /\ wfut'[v] = Head(pending) /\ \A w \in InFunction : wfut'[w] = wfut[w]
    BY <1>3 DEF Take, InFunction, TypeOK
  <2>5. Executing' = Executing \cup {Head(pending)}
    BY <2>4 DEF Executing, InFunction
  <2>6. Service!Start
    BY <2>1, <2>3, <2>5 DEF Service!Start
  <2> QED BY <2>6 DEF Service!Next
<1>4. ASSUME NEW v \in Workers, EvalReturns(v) PROVE Service!Next
  <2>1. InFunction' = InFunction \ {v} /\ v \in InFunction
    BY <1>4 DEF EvalReturns, InFunction, TypeOK
  <2>2. pending' = pending /\ ~early /\ \A w \in InFunction \ {v} : wfut'[w] = wfut[w]
    BY <1>4 DEF EvalReturns, InFunction, TypeOK
  <2>3. /\ Executing = {wfut[w] : w \in InFunction} /\ wfut[v] \in Objects
        /\ \A w \in InFunction \ {v} : wfut[w] # wfut[v]
    BY <2>1, <2>2, ExecutingOK
  <2>4. Executing' = {wfut'[w] : w \in InFunction'}
    BY DEF Executing, InFunction
  <2>5. Executing' = Executing \ {wfut[v]} /\ wfut[v] \in Executing
    BY <2>1, <2>2, <2>3, <2>4
  <2>6. PICK o \in Objects : o = wfut[v]
    BY <2>3
  <2>7. Service!Return(o)
    BY <2>2, <2>5, <2>6 DEF Service!Return
  <2> QED BY <2>7 DEF Service!Next
<1>5. ASSUME NEW v \in Workers, FunctionReturns(v) \/ Store(v) \/ Finish(v) \/ Leave(v)
      PROVE  UNCHANGED <<pending, Executing>>
  <2>1. InFunction' = InFunction /\ UNCHANGED <<wfut, pending>>
    BY <1>5 DEF FunctionReturns, Store, Finish, Leave, InFunction, TypeOK
  <2> QED BY <2>1 DEF Executing, InFunction
<1>6. ASSUME FutureInit PROVE UNCHANGED <<pending, Executing>>
  <2>1. pending = <<>> /\ \A w \in Workers : wpc[w] = "absent"
    BY <1>6, FuturesAssumption DEF FutureInit, ClosingOK, AllJoined
  <2>2. Executing = {} /\ Executing' = {} /\ pending' = <<>>
    BY <1>6, <2>1 DEF FutureInit, Executing
  <2> QED BY <2>1, <2>2
<1>7. ASSUME DeinitBegin \/ DeinitReturns PROVE UNCHANGED <<pending, Executing>>
  BY <1>1, <1>7 DEF DeinitBegin, DeinitReturns
<1>8. ASSUME NEW o \in Objects,
             FutureNew(o) \/ TouchBegin(o) \/ TouchSees(o) \/ TouchReturns(o)
      PROVE  UNCHANGED <<pending, Executing>>
  BY <1>1, <1>8 DEF FutureNew, TouchBegin, TouchSees, TouchReturns
<1>9. ASSUME UNCHANGED vars PROVE UNCHANGED <<pending, Executing>>
  BY <1>1, <1>9 DEF vars
<1> QED BY <1>2, <1>3, <1>4, <1>5, <1>6, <1>7, <1>8, <1>9
    DEF Next, UserStep, WorkerStep

\* Up to the first early reuse of an object futures.c uses the pool as
\* thread-pool.h demands: it hands over no object that is queued or whose
\* task function has not returned.
THEOREM FuturesUseService == Spec => ServiceSpec
<1>1. Init => Service!Init
  BY DEF Init, Service!Init, Executing
<1>2. IInv /\ [Next]_vars => [early' \/ Service!Next]_(Service!serviceVars)
  BY NextServiceStep DEF Service!serviceVars
<1> QED BY <1>1, <1>2, Invariance, PTL DEF Spec, ServiceSpec
=============================================================================
