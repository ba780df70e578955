---------------------------- MODULE TableProofs ----------------------------
(* Theorems about HashTable and SetTable, for tables of every size: get      *)
(* finds every entry, remove goes round at most once, and tables and sets    *)
(* are dictionaries.                                                         *)
EXTENDS SetTable, WellFoundedInduction, FiniteSetTheorems, TLAPS

\* A set of natural numbers has a least one, which Min chooses.
LEMMA Least ==
    ASSUME NEW S, S \subseteq Nat, S # {}
    PROVE  Min(S) \in S /\ \A n \in S : Min(S) <= n
<1> DEFINE Less == {p \in Nat \X Nat : p[1] < p[2]}
<1>1. IsWellFoundedOn(Less, Nat)
  BY NatLessThanWellFounded DEF OpToRel
<1>2. PICK m \in S : \A n \in S : <<n, m>> \notin Less
  BY <1>1, WFMin
<1>3. ASSUME NEW n \in S PROVE m <= n
  <2>1. <<n, m>> \in Nat \X Nat /\ <<n, m>>[1] = n /\ <<n, m>>[2] = m
    OBVIOUS
  <2>2. ~(n < m)
    BY <1>2, <2>1
  <2> QED
    BY <2>2
<1> QED
  BY <1>3 DEF Min

-----------------------------------------------------------------------------
(* The circle of slots                                                       *)

LEMMA SizeNat == Size \in Nat /\ Size >= 2 /\ None \notin Slots /\ 0 \in Slots
BY TableAssumption DEF Slots

LEMMA Modulo ==
    ASSUME NEW x \in Slots
    PROVE  x % Size = x
BY SizeNat DEF Slots

LEMMA ModuloAbove ==
    ASSUME NEW x \in Size..(2 * Size - 1)
    PROVE  x % Size = x - Size
BY SizeNat

LEMMA Distances ==
    ASSUME NEW a \in Slots, NEW b \in Slots
    PROVE  /\ Distance(a, b) = IF a <= b THEN b - a ELSE b + Size - a
           /\ Distance(a, b) \in Slots
<1>0. Size \in Nat /\ a \in 0..(Size - 1) /\ b \in 0..(Size - 1)
  BY SizeNat DEF Slots
<1>1. CASE a <= b
  <2>1. b + Size - a \in Size..(2 * Size - 1) /\ b + Size - a - Size = b - a
    BY <1>0, <1>1
  <2>2. (b + Size - a) % Size = b - a
    BY <1>0, <2>1, ModuloAbove
  <2>3. b - a \in Slots
    BY <1>0, <1>1 DEF Slots
  <2> QED
    BY <1>1, <2>2, <2>3 DEF Distance
<1>2. CASE ~(a <= b)
  <2>1. b + Size - a \in Slots
    BY <1>0, <1>2 DEF Slots
  <2>2. (b + Size - a) % Size = b + Size - a
    BY <2>1, Modulo
  <2> QED
    BY <1>2, <2>1, <2>2 DEF Distance
<1> QED
  BY <1>1, <1>2

\* The slot that is n steps behind slot a.
LEMMA Steps ==
    ASSUME NEW a \in Slots, NEW n \in Slots
    PROVE  (a + n) % Size \in Slots /\ Distance(a, (a + n) % Size) = n
<1>0. Size \in Nat /\ a \in 0..(Size - 1) /\ n \in 0..(Size - 1)
  BY SizeNat DEF Slots
<1>1. CASE a + n < Size
  <2>1. a + n \in Slots
    BY <1>0, <1>1 DEF Slots
  <2>2. (a + n) % Size = a + n
    BY <2>1, Modulo
  <2>3. Distance(a, a + n) = n
    BY <1>0, <2>1, Distances
  <2> QED
    BY <2>1, <2>2, <2>3
<1>2. CASE ~(a + n < Size)
  <2>1. a + n \in Size..(2 * Size - 1) /\ a + n - Size \in Slots
    BY <1>0, <1>2 DEF Slots
  <2>2. (a + n) % Size = a + n - Size
    BY <1>0, <2>1, ModuloAbove
  <2>3. Distance(a, a + n - Size) = n
    BY <1>0, <2>1, Distances
  <2> QED
    BY <2>1, <2>2, <2>3
<1> QED
  BY <1>1, <1>2

LEMMA SameDistance ==
    ASSUME NEW a \in Slots, NEW b \in Slots, NEW c \in Slots,
           Distance(a, b) = Distance(a, c)
    PROVE  b = c
<1>0. Size \in Nat /\ a \in 0..(Size - 1) /\ b \in 0..(Size - 1) /\ c \in 0..(Size - 1)
  BY SizeNat DEF Slots
<1>1. Distance(a, b) = IF a <= b THEN b - a ELSE b + Size - a
  BY Distances
<1>2. Distance(a, c) = IF a <= c THEN c - a ELSE c + Size - a
  BY Distances
<1>3. (IF a <= b THEN b - a ELSE b + Size - a) = (IF a <= c THEN c - a ELSE c + Size - a)
  BY <1>1, <1>2
<1> QED
  BY <1>0, <1>3

LEMMA StepsTo ==
    ASSUME NEW a \in Slots, NEW b \in Slots
    PROVE  (a + Distance(a, b)) % Size = b
BY Distances, Steps, SameDistance

LEMMA NoDistance ==
    ASSUME NEW a \in Slots, NEW b \in Slots
    PROVE  Distance(a, b) = 0 <=> a = b
<1>0. Size \in Nat /\ a \in 0..(Size - 1) /\ b \in 0..(Size - 1)
  BY SizeNat DEF Slots
<1> QED
  BY <1>0, Distances

LEMMA Successors ==
    ASSUME NEW s \in Slots
    PROVE  /\ Successor(s) \in Slots
           /\ \A a \in Slots : Distance(a, Successor(s)) =
                IF Successor(s) = a THEN 0 ELSE Distance(a, s) + 1
           /\ Distance(Successor(s), s) = Size - 1
<1>0. Size \in Nat /\ Size >= 2 /\ s \in 0..(Size - 1)
  BY SizeNat DEF Slots
<1>1. Successor(s) = IF s = Size - 1 THEN 0 ELSE s + 1
  <2>1. CASE s = Size - 1
    <3>1. s + 1 \in Size..(2 * Size - 1) /\ s + 1 - Size = 0
      BY <1>0, <2>1
    <3>2. Successor(s) = 0
      BY <1>0, <3>1, ModuloAbove DEF Successor
    <3> QED
      BY <2>1, <3>2
  <2>2. CASE s # Size - 1
    <3>1. s + 1 \in Slots
      BY <1>0, <2>2 DEF Slots
    <3> QED
      BY <2>2, <3>1, Modulo DEF Successor
  <2> QED
    BY <2>1, <2>2
<1>2. Successor(s) \in Slots
  BY <1>0, <1>1 DEF Slots
<1>3. ASSUME NEW a \in Slots
      PROVE  Distance(a, Successor(s)) =
               IF Successor(s) = a THEN 0 ELSE Distance(a, s) + 1
  <2>0. a \in 0..(Size - 1)
    BY DEF Slots
  <2>1. Distance(a, Successor(s)) =
          IF a <= Successor(s) THEN Successor(s) - a ELSE Successor(s) + Size - a
    BY <1>2, Distances
  <2>2. Distance(a, s) = IF a <= s THEN s - a ELSE s + Size - a
    BY Distances
  <2> QED
    BY <1>0, <1>1, <2>0, <2>1, <2>2
<1>4. Distance(Successor(s), s) = Size - 1
  <2>1. Distance(Successor(s), s) =
          IF Successor(s) <= s THEN s - Successor(s) ELSE s + Size - Successor(s)
    BY <1>2, Distances
  <2> QED
    BY <1>0, <1>1, <2>1
<1> QED
  BY <1>2, <1>3, <1>4

\* A slot between o and e is on the way from h to e, if o is.
LEMMA OnTheWay ==
    ASSUME NEW h \in Slots, NEW o \in Slots, NEW e \in Slots, NEW s \in Slots,
           Distance(h, o) <= Distance(h, e), Distance(o, s) < Distance(o, e)
    PROVE  Distance(h, s) < Distance(h, e)
<1>0. /\ Size \in Nat /\ h \in 0..(Size - 1) /\ o \in 0..(Size - 1)
      /\ e \in 0..(Size - 1) /\ s \in 0..(Size - 1)
  BY SizeNat DEF Slots
<1>1. Distance(h, o) = IF h <= o THEN o - h ELSE o + Size - h
  BY Distances
<1>2. Distance(h, e) = IF h <= e THEN e - h ELSE e + Size - h
  BY Distances
<1>3. Distance(o, s) = IF o <= s THEN s - o ELSE s + Size - o
  BY Distances
<1>4. Distance(o, e) = IF o <= e THEN e - o ELSE e + Size - o
  BY Distances
<1>5. Distance(h, s) = IF h <= s THEN s - h ELSE s + Size - h
  BY Distances
<1> QED
  BY <1>0, <1>1, <1>2, <1>3, <1>4, <1>5

-----------------------------------------------------------------------------
(* The invariant                                                             *)

\* Between an entry and the home of its key every slot is full, and no key is
\* stored twice.
Placed ==
    /\ \A s \in Slots : flags[s] => keys[s] \in Keys
    /\ \A s \in Entries, t \in Slots :
         Distance(home[keys[s]], t) < Distance(home[keys[s]], s) => flags[t]
    /\ \A s, t \in Entries : keys[s] = keys[t] => s = t

\* Unless the table is full, remove has visited as many slots as it counted
\* rounds, all of them full, and none of them has the key while it searches.
Visited ==
    /\ pc # "idle" => key \in Keys
    /\ pc = "idle" => rounds = 0
    /\ Full \/ rounds < Size
    /\ Full \/ pc = "idle" \/
         \A t \in Slots : Distance(home[key], t) < rounds =>
           flags[t] /\ (pc = "find" => keys[t] # key)
    /\ Full \/ (pc = "find" => Distance(home[key], index) = rounds)
    /\ Full \/ (pc = "shift" => Distance(home[key], index) = rounds - 1)

\* Behind the hole up to where remove is, every slot is full, and no entry
\* could be moved into the hole.  The key is gone.
Shifting ==
    pc = "shift" =>
      /\ \A t \in Slots : Distance(hole, t) <= Distance(hole, index) => flags[t]
      /\ \A s \in Entries :
           /\ keys[s] # key
           /\ Distance(hole, s) <= Distance(hole, index) =>
                ~(Distance(home[keys[s]], hole) <= Distance(home[keys[s]], s))

TableInv == TypeOK /\ Placed /\ Visited /\ Shifting

\* Where the search for a key ends: at the only entry that has it, or at the
\* first empty slot, if there is one.
LEMMA ProbeEnds ==
    ASSUME TableInv, pc = "idle", NEW k \in Keys
    PROVE  \/ /\ Probe(k) = None /\ Full
              /\ \A s \in Entries : keys[s] # k
           \/ /\ Probe(k) \in Entries /\ keys[Probe(k)] = k
           \/ /\ Probe(k) \in Slots \ Entries
              /\ \A s \in Entries : keys[s] # k
              /\ \A t \in Slots :
                   Distance(home[k], t) < Distance(home[k], Probe(k)) => flags[t]
<1> DEFINE h == home[k]
           at(n) == (h + n) % Size
<1>0. h \in Slots /\ Entries = {s \in Slots : flags[s]}
  BY DEF TableInv, TypeOK, Entries
<1>1. Stops(k) \subseteq Slots /\ Stops(k) \subseteq Nat
      /\ \A n \in Slots : n \in Stops(k) <=> (~flags[at(n)] \/ keys[at(n)] = k)
  BY SizeNat DEF Stops, Slots
<1>2. ASSUME NEW t \in Slots PROVE Distance(h, t) \in Slots /\ at(Distance(h, t)) = t
  BY <1>0, Distances, StepsTo
<1>3. ASSUME NEW s \in Entries, keys[s] = k PROVE Distance(h, s) \in Stops(k)
  BY <1>0, <1>1, <1>2, <1>3
<1>4. CASE Stops(k) = {}
  <2>1. Probe(k) = None
    BY <1>4 DEF Probe
  <2>2. \A t \in Slots : flags[t]
    BY <1>1, <1>2, <1>4
  <2>3. \A s \in Entries : keys[s] # k
    BY <1>3, <1>4
  <2> QED
    BY <2>1, <2>2, <2>3 DEF Full
<1>5. CASE Stops(k) # {}
  <2> DEFINE n == Min(Stops(k))
             p == at(n)
  <2>1. n \in Stops(k) /\ n \in Slots /\ \A m \in Stops(k) : n <= m
    BY <1>1, <1>5, Least
  <2>2. Probe(k) = p
    BY <1>5 DEF Probe
  <2>3. p \in Slots /\ Distance(h, p) = n /\ (~flags[p] \/ keys[p] = k)
    BY <1>0, <1>1, <2>1, Steps
  <2>4. ASSUME NEW t \in Slots, Distance(h, t) < n PROVE flags[t] /\ keys[t] # k
    <3>1. ~(n <= Distance(h, t))
      BY <1>2, <2>1, <2>4 DEF Slots
    <3>2. Distance(h, t) \notin Stops(k)
      BY <2>1, <3>1
    <3> QED
      BY <1>1, <1>2, <3>2
  <2>5. CASE flags[p]
    BY <1>0, <2>2, <2>3, <2>5
  <2>6. CASE ~flags[p]
    <3>1. ASSUME NEW s \in Entries, keys[s] = k PROVE FALSE
      <4>1. n <= Distance(h, s) /\ s \in Slots /\ s # p
        BY <1>0, <1>3, <2>1, <2>6, <3>1
      <4>2. n # Distance(h, s)
        BY <1>0, <2>3, <4>1, SameDistance
      <4>3. Distance(h, p) < Distance(h, s)
        BY <1>2, <2>1, <2>3, <4>1, <4>2 DEF Slots
      <4> QED
        BY <2>3, <2>6, <3>1, <4>3 DEF TableInv, Placed
    <3> QED
      BY <1>0, <2>2, <2>3, <2>4, <2>6, <3>1
  <2> QED
    BY <2>5, <2>6
<1> QED
  BY <1>4, <1>5

\* get finds an entry, and what it finds is one.
LEMMA GetEnds ==
    ASSUME TableInv, pc = "idle", NEW k \in Keys
    PROVE  /\ Get(k) # None => Get(k) \in Entries /\ keys[Get(k)] = k
           /\ \A s \in Entries : keys[s] = k => Get(k) = s
<1>0. Entries = {s \in Slots : flags[s]}
  BY DEF Entries
<1>1. \A s \in Entries : keys[s] = k => Probe(k) = s
  BY ProbeEnds DEF TableInv, Placed
<1>2. Probe(k) \in Slots => Probe(k) # None
  BY SizeNat
<1>3. Get(k) # None => Get(k) = Probe(k) /\ Probe(k) # None /\ flags[Probe(k)]
  BY DEF Get
<1>4. Get(k) # None => Get(k) \in Entries /\ keys[Get(k)] = k
  BY <1>0, <1>3, ProbeEnds
<1>5. \A s \in Entries : keys[s] = k => Get(k) = s
  BY <1>0, <1>1, <1>2 DEF Get
<1> QED
  BY <1>4, <1>5

-----------------------------------------------------------------------------
LEMMA TableInitial == Init => TableInv
<1> SUFFICES ASSUME Init PROVE TableInv
  OBVIOUS
<1>1. TypeOK
  BY SizeNat DEF Init, TypeOK
<1>2. Entries = {}
  BY DEF Init, Entries
<1> QED
  BY <1>1, <1>2, SizeNat DEF Init, TableInv, Placed, Visited, Shifting

LEMMA SetPlaces ==
    ASSUME TableInv, NEW k \in Keys, NEW v \in Values, Set(k, v)
    PROVE  TableInv'
<1>0. pc = "idle" /\ pc' = "idle" /\ UNCHANGED <<home, removeVars>>
      /\ Entries = {s \in Slots : flags[s]} /\ Entries' = {s \in Slots : flags'[s]}
  BY DEF Set, removeVars, Entries
<1>1. CASE Probe(k) = None
  <2>1. UNCHANGED slotVars /\ ret' = "full"
    BY <1>1 DEF Set
  <2> QED
    BY <1>0, <2>1 DEF TableInv, TypeOK, Placed, Visited, Shifting, Full,
                      slotVars, removeVars
<1>2. CASE Probe(k) # None
  <2> DEFINE p == Probe(k)
  <2>1. /\ p \in Slots /\ ret' = "stored"
        /\ flags' = [flags EXCEPT ![p] = TRUE]
        /\ keys' = [keys EXCEPT ![p] = k]
        /\ values' = [values EXCEPT ![p] = IF flags[p] THEN @ ELSE v]
    BY <1>0, <1>2, ProbeEnds DEF Set
  <2>2. TypeOK'
    BY <1>0, <2>1 DEF TableInv, TypeOK, removeVars
  <2>3. /\ flags'[p] /\ keys'[p] = k
        /\ \A s \in Slots \ {p} : flags'[s] = flags[s] /\ keys'[s] = keys[s]
        /\ home' = home
    BY <1>0, <2>1 DEF TableInv, TypeOK
  <2>4. Visited' /\ Shifting'
    BY <1>0, <2>2, SizeNat DEF TableInv, Visited, Shifting, removeVars
  <2>5. CASE p \in Entries
    <3>1. keys[p] = k /\ flags[p]
      BY <1>0, <1>2, <2>5, ProbeEnds
    <3>2. \A s \in Slots : flags'[s] = flags[s] /\ keys'[s] = keys[s]
      BY <2>3, <3>1, <2>1 DEF TableInv, TypeOK
    <3>3. Placed'
      BY <1>0, <2>3, <3>2 DEF TableInv, Placed
    <3> QED
      BY <2>2, <2>4, <3>3 DEF TableInv
  <2>6. CASE p \notin Entries
    <3>1. /\ \A s \in Entries : keys[s] # k
          /\ \A t \in Slots : Distance(home[k], t) < Distance(home[k], p) => flags[t]
      BY <1>0, <1>2, <2>6, ProbeEnds
    <3>2. Entries' = Entries \cup {p}
      BY <1>0, <2>1, <2>3
    <3>3. \A s \in Entries : s \in Slots \ {p}
      BY <1>0, <2>6
    <3>4. \A s, t \in Entries' : keys'[s] = keys'[t] => s = t
      BY <2>3, <3>1, <3>2, <3>3 DEF TableInv, Placed
    <3>5. \A s \in Entries', t \in Slots :
            Distance(home[keys'[s]], t) < Distance(home[keys'[s]], s) => flags'[t]
      BY <2>3, <3>1, <3>2, <3>3 DEF TableInv, Placed
    <3>6. \A s \in Slots : flags'[s] => keys'[s] \in Keys
      BY <2>3 DEF TableInv, Placed
    <3>7. Placed'
      BY <2>3, <3>4, <3>5, <3>6 DEF Placed, Distance
    <3> QED
      BY <2>2, <2>4, <3>7 DEF TableInv
  <2> QED
    BY <2>5, <2>6
<1> QED
  BY <1>1, <1>2

LEMMA OthersPlace ==
    ASSUME TableInv,
           \/ \E k \in Keys, v \in Values : Write(k, v)
           \/ \E k \in Keys : RemoveBegin(k)
           \/ Clear
    PROVE  TableInv'
<1>1. ASSUME NEW k \in Keys, NEW v \in Values, Write(k, v) PROVE TableInv'
  <2>1. TypeOK'
    BY <1>1 DEF Write, TableInv, TypeOK, removeVars
  <2> QED
    BY <1>1, <2>1 DEF Write, TableInv, Placed, Visited, Shifting, Full, Entries,
                      removeVars
<1>2. ASSUME NEW k \in Keys, RemoveBegin(k) PROVE TableInv'
  <2>1. /\ pc = "idle" /\ pc' = "find" /\ key' = k /\ index' = home[k]
        /\ UNCHANGED <<home, flags, keys, values, ret, hole, rounds>>
    BY <1>2 DEF RemoveBegin, slotVars
  <2>2. home[k] \in Slots
    BY DEF TableInv, TypeOK
  <2>3. TypeOK'
    BY <2>1, <2>2 DEF TableInv, TypeOK
  <2>4. Entries' = Entries
    BY <2>1 DEF Entries
  <2>5. rounds' = 0 /\ Distance(home[k], home[k]) = 0
    BY <2>1, <2>2, NoDistance DEF TableInv, Visited
  <2>6. ASSUME NEW t \in Slots PROVE ~(Distance(home[k], t) < 0)
    <3>1. Distance(home[k], t) \in Slots
      BY <2>2, Distances
    <3> QED
      BY <3>1, SizeNat DEF Slots
  <2>7. Visited'
    BY <2>1, <2>5, <2>6, SizeNat DEF Visited, Full, Distance
  <2>8. Placed' /\ Shifting'
    BY <2>1, <2>4 DEF TableInv, Placed, Shifting
  <2> QED
    BY <2>3, <2>7, <2>8 DEF TableInv
<1>3. CASE Clear
  <2>1. /\ flags' = [s \in Slots |-> FALSE] /\ pc = "idle"
        /\ UNCHANGED <<home, keys, values, ret, pc, key, index, hole, rounds>>
    BY <1>3 DEF Clear, removeVars
  <2>2. Entries' = {} /\ TypeOK' /\ \A s \in Slots : ~flags'[s]
    BY <2>1 DEF Entries, TableInv, TypeOK
  <2>3. rounds' = 0 /\ pc' = "idle"
    BY <2>1 DEF TableInv, Visited
  <2> QED
    BY <2>1, <2>2, <2>3, SizeNat DEF TableInv, Placed, Visited, Shifting
<1> QED
  BY <1>1, <1>2, <1>3

-----------------------------------------------------------------------------
(* remove                                                                    *)

\* One more slot behind those that were visited.
LEMMA OneMore ==
    ASSUME TypeOK, ~Full, NEW h \in Slots, NEW r \in Nat, NEW s \in Slots,
           \A t \in Slots : Distance(h, t) < r => flags[t],
           Distance(h, s) = r, flags[s]
    PROVE  /\ r + 1 < Size
           /\ \A t \in Slots : Distance(h, t) < r + 1 => t = s \/ Distance(h, t) < r
           /\ Distance(h, Successor(s)) = r + 1
<1>1. \A t \in Slots : Distance(h, t) \in Slots /\ Distance(h, t) \in 0..(Size - 1)
  BY Distances DEF Slots
<1>2. ASSUME NEW t \in Slots, Distance(h, t) < r + 1
      PROVE  t = s \/ Distance(h, t) < r
  <2>1. Distance(h, t) = r \/ Distance(h, t) < r
    BY <1>1, <1>2
  <2> QED
    BY <2>1, SameDistance
<1>3. r + 1 < Size
  <2>1. SUFFICES ASSUME ~(r + 1 < Size) PROVE FALSE
    OBVIOUS
  <2>2. \A t \in Slots : Distance(h, t) < r + 1
    BY <1>1, <2>1, SizeNat
  <2> QED
    BY <1>2, <2>2 DEF Full
<1>4. Successor(s) # h
  BY <1>3, Successors, SizeNat
<1> QED
  BY <1>2, <1>3, <1>4, Successors

\* What Full says in a step that changes no flag.
LEMMA SameFull ==
    ASSUME UNCHANGED flags
    PROVE  Full' <=> Full
BY DEF Full

LEMMA Counted ==
    ASSUME TypeOK, CountRound
    PROVE  rounds' \in 0..(Size + 1) /\ (rounds < Size => rounds' = rounds + 1)
BY SizeNat DEF TypeOK, CountRound

LEMMA FindPlaces ==
    ASSUME TableInv, Find
    PROVE  TableInv'
<1>0. /\ pc = "find" /\ UNCHANGED <<home, flags, keys, values>> /\ key \in Keys
      /\ Entries = {s \in Slots : flags[s]} /\ index \in Slots /\ home[key] \in Slots
      /\ rounds \in Nat
  BY DEF Find, slotVars, TableInv, TypeOK, Visited, Entries
<1>1. CASE ~flags[index]
  <2>1. RemoveReturns("missing")
    BY <1>0, <1>1 DEF Find
  <2>2. Entries' = Entries
    BY <1>0, <2>1 DEF RemoveReturns, Entries
  <2> QED
    BY <1>0, <2>1, <2>2, SizeNat
    DEF RemoveReturns, TableInv, TypeOK, Placed, Visited, Shifting
<1>2. CASE flags[index]
  <2>1. /\ CountRound /\ UNCHANGED <<ret, key>>
        /\ IF keys[index] = key
           THEN pc' = "shift" /\ hole' = index /\ UNCHANGED index
           ELSE index' = Successor(index) /\ UNCHANGED <<pc, hole>>
    BY <1>0, <1>2 DEF Find
  <2>2. TypeOK'
    BY <1>0, <2>1, Counted, Successors DEF TableInv, TypeOK
  <2>3. ASSUME ~Full
        PROVE  /\ rounds' = rounds + 1 /\ rounds + 1 < Size
               /\ Distance(home[key], index) = rounds
               /\ Distance(home[key], Successor(index)) = rounds + 1
               /\ \A t \in Slots : Distance(home[key], t) < rounds + 1 =>
                    flags[t] /\ (t = index \/ keys[t] # key)
    <3>1. /\ rounds < Size /\ Distance(home[key], index) = rounds
          /\ \A t \in Slots : Distance(home[key], t) < rounds => flags[t] /\ keys[t] # key
      BY <1>0, <2>3 DEF TableInv, Visited
    <3>2. TypeOK
      BY DEF TableInv
    <3> QED
      BY <1>0, <1>2, <2>1, <2>3, <3>1, <3>2, OneMore, Counted
  <2>4. CASE keys[index] = key
    <3>1. pc' = "shift" /\ hole' = index /\ index' = index /\ UNCHANGED <<ret, key>>
      BY <2>1, <2>4
    <3>2. Entries' = Entries \ {index}
      BY <1>0, <3>1 DEF Entries
    <3>3. Placed'
      BY <1>0, <3>2 DEF TableInv, Placed
    <3>4. Visited'
      <4>1. Full \/ (rounds' = rounds + 1 /\ rounds' - 1 = rounds /\ rounds' < Size)
        BY <1>0, <2>3
      <4> QED
        BY <1>0, <2>3, <3>1, <4>1, SameFull DEF Visited, Distance
    <3>5. Shifting'
      <4>1. ASSUME NEW t \in Slots, Distance(index, t) <= Distance(index, index)
            PROVE  t = index
        <5>1. Distance(index, index) = 0 /\ Distance(index, t) \in 0..(Size - 1)
          BY <1>0, NoDistance, Distances DEF Slots
        <5>2. Distance(index, t) = 0
          BY <4>1, <5>1
        <5> QED
          BY <1>0, <5>2, NoDistance
      <4>2. \A s \in Entries \ {index} : keys[s] # key
        BY <1>0, <1>2, <2>4 DEF TableInv, Placed
      <4>3. \A s \in Entries : s \in Slots
        BY <1>0
      <4> QED
        BY <1>0, <1>2, <3>1, <3>2, <4>1, <4>2, <4>3 DEF Shifting, Distance
    <3> QED
      BY <2>2, <3>3, <3>4, <3>5 DEF TableInv
  <2>5. CASE keys[index] # key
    <3>1. index' = Successor(index) /\ UNCHANGED <<pc, hole, ret, key>>
      BY <2>1, <2>5
    <3>2. Entries' = Entries
      BY <1>0, <3>1 DEF Entries
    <3>3. Placed' /\ Shifting'
      BY <1>0, <3>1, <3>2 DEF TableInv, Placed, Shifting
    <3>4. Visited'
      BY <1>0, <2>3, <2>5, <3>1, SameFull DEF Visited, Distance
    <3> QED
      BY <2>2, <3>3, <3>4 DEF TableInv
  <2> QED
    BY <2>4, <2>5
<1> QED
  BY <1>1, <1>2

\* The hole is closed where the slot behind what was looked at is empty: an
\* entry for which the hole were on the way from its home would be cut off
\* already.
LEMMA HoleCloses ==
    ASSUME TableInv, Shift, ~flags[Successor(index)]
    PROVE  TableInv'
<1> DEFINE n == Successor(index)
<1>0. /\ pc = "shift" /\ UNCHANGED <<home, keys, values>>
      /\ flags' = [flags EXCEPT ![hole] = FALSE] /\ RemoveReturns("removed")
      /\ index \in Slots /\ hole \in Slots /\ n \in Slots
      /\ Entries = {s \in Slots : flags[s] /\ s # hole}
  BY Successors DEF Shift, TableInv, TypeOK, Entries
<1>1. /\ ~flags'[hole] /\ \A s \in Slots \ {hole} : flags'[s] = flags[s]
      /\ pc' = "idle"
  BY <1>0 DEF TableInv, TypeOK, RemoveReturns
<1>2. Entries' = Entries
  BY <1>0, <1>1 DEF Entries
<1>3. TypeOK'
  BY <1>0, SizeNat DEF TableInv, TypeOK, RemoveReturns
<1>4. flags[hole]
  <2>1. Distance(hole, hole) = 0 /\ Distance(hole, index) \in 0..(Size - 1)
    BY <1>0, NoDistance, Distances DEF Slots
  <2>2. Distance(hole, hole) <= Distance(hole, index)
    BY <2>1
  <2> QED
    BY <1>0, <2>2 DEF TableInv, Shifting
<1>5. Distance(hole, n) = Distance(hole, index) + 1
  BY <1>0, <1>4, Successors
<1>6. ASSUME NEW s \in Entries, NEW t \in Slots,
             Distance(home[keys[s]], t) < Distance(home[keys[s]], s)
      PROVE  flags'[t]
  <2> DEFINE h == home[keys[s]]
  <2>0. h \in Slots /\ s \in Slots /\ flags[t] /\ s # n
    BY <1>0, <1>6 DEF TableInv, TypeOK, Placed
  <2>1. SUFFICES ASSUME t = hole PROVE FALSE
    BY <1>1, <2>0
  <2>2. Distance(h, hole) \in 0..(Size - 1) /\ Distance(h, s) \in 0..(Size - 1)
    BY <1>0, <2>0, Distances DEF Slots
  <2>3. Distance(h, hole) <= Distance(h, s)
    BY <1>6, <2>1, <2>2
  <2>4. ~(Distance(hole, s) <= Distance(hole, index))
    BY <1>0, <2>3 DEF TableInv, Shifting
  <2>5. Distance(hole, s) # Distance(hole, n)
    BY <1>0, <2>0, SameDistance
  <2>6. Distance(hole, s) \in 0..(Size - 1) /\ Distance(hole, index) \in 0..(Size - 1)
    BY <1>0, <2>0, Distances DEF Slots
  <2>7. Distance(hole, n) < Distance(hole, s)
    BY <1>5, <2>4, <2>5, <2>6
  <2>8. Distance(h, n) < Distance(h, s)
    BY <1>0, <2>0, <2>3, <2>7, OnTheWay
  <2> QED
    BY <1>0, <2>8 DEF TableInv, Placed
<1>7. Placed'
  BY <1>0, <1>1, <1>2, <1>6 DEF TableInv, Placed, Distance
<1>8. Visited' /\ Shifting'
  BY <1>0, SizeNat DEF RemoveReturns, Visited, Shifting
<1> QED
  BY <1>3, <1>7, <1>8 DEF TableInv

LEMMA ShiftVisits ==
    ASSUME TableInv, Shift, flags[Successor(index)]
    PROVE  Visited'
<1> DEFINE n == Successor(index)
<1>0. /\ pc = "shift" /\ pc' = "shift" /\ key \in Keys /\ index' = n /\ CountRound
      /\ UNCHANGED <<home, flags, key>> /\ home[key] \in Slots /\ index \in Slots
      /\ n \in Slots /\ rounds \in Nat /\ TypeOK
  BY Successors DEF Shift, TableInv, TypeOK, Visited
<1>1. ASSUME ~Full
      PROVE  /\ rounds' = rounds + 1 /\ rounds' < Size
             /\ Distance(home[key], n) = rounds' - 1
             /\ \A t \in Slots : Distance(home[key], t) < rounds' => flags[t]
  <2>1. /\ rounds < Size /\ Distance(home[key], index) = rounds - 1
        /\ \A t \in Slots : Distance(home[key], t) < rounds => flags[t]
    BY <1>0, <1>1 DEF TableInv, Visited
  <2>2. n # home[key]
    BY <1>0, <2>1, Successors, SizeNat
  <2>3. Distance(home[key], n) = rounds
    BY <1>0, <2>1, <2>2, Successors
  <2>4. /\ rounds + 1 < Size
        /\ \A t \in Slots : Distance(home[key], t) < rounds + 1 =>
             t = n \/ Distance(home[key], t) < rounds
    BY <1>0, <1>1, <2>1, <2>3, OneMore
  <2>5. rounds' = rounds + 1 /\ rounds' - 1 = rounds
    BY <1>0, <2>1, Counted
  <2> QED
    BY <2>1, <2>3, <2>4, <2>5
<1> QED
  BY <1>0, <1>1, SameFull DEF Visited, Distance

\* An entry moves into the hole, which is not before its home.
LEMMA EntryMoves ==
    ASSUME TableInv, Shift, flags[Successor(index)], Moves(Successor(index))
    PROVE  Placed' /\ Shifting'
<1> DEFINE n == Successor(index)
<1>0. /\ pc = "shift" /\ pc' = "shift" /\ index' = n /\ hole' = n
      /\ keys' = [keys EXCEPT ![hole] = keys[n]]
      /\ UNCHANGED <<home, flags, key>>
      /\ index \in Slots /\ hole \in Slots /\ n \in Slots
      /\ Entries = {s \in Slots : flags[s] /\ s # hole}
      /\ Entries' = {s \in Slots : flags[s] /\ s # n}
  BY Successors DEF Shift, TableInv, TypeOK, Entries
<1>1. keys'[hole] = keys[n] /\ \A s \in Slots \ {hole} : keys'[s] = keys[s]
  BY <1>0 DEF TableInv, TypeOK
<1>2. n # hole => n \in Entries
  BY <1>0
<1>3. \A s \in Entries' : s # hole => s \in Entries /\ s # n /\ keys'[s] = keys[s]
  BY <1>0, <1>1
<1>4. hole \in Entries' => n \in Entries
  BY <1>0
<1>5. \A s \in Slots : flags[s] => keys'[s] \in Keys
  BY <1>0, <1>1 DEF TableInv, Placed
<1>6. \A s, t \in Entries' : keys'[s] = keys'[t] => s = t
  BY <1>1, <1>3, <1>4 DEF TableInv, Placed
<1>7. ASSUME NEW s \in Entries', NEW t \in Slots,
             Distance(home[keys'[s]], t) < Distance(home[keys'[s]], s)
      PROVE  flags[t]
  <2>1. CASE s # hole
    BY <1>3, <1>7, <2>1 DEF TableInv, Placed
  <2>2. CASE s = hole
    <3> DEFINE h == home[keys[n]]
    <3>1. n \in Entries /\ h \in Slots
      BY <1>0, <1>4, <1>7, <2>2 DEF TableInv, TypeOK, Placed
    <3>2. Distance(h, t) < Distance(h, hole) /\ Distance(h, hole) <= Distance(h, n)
      BY <1>1, <1>7, <2>2 DEF Moves
    <3>3. /\ Distance(h, t) \in 0..(Size - 1) /\ Distance(h, hole) \in 0..(Size - 1)
          /\ Distance(h, n) \in 0..(Size - 1)
      BY <1>0, <3>1, Distances DEF Slots
    <3>4. Distance(h, t) < Distance(h, n)
      BY <3>2, <3>3
    <3> QED
      BY <3>1, <3>4 DEF TableInv, Placed
  <2> QED
    BY <2>1, <2>2
<1>8. Placed'
  BY <1>0, <1>5, <1>6, <1>7 DEF Placed, Distance
<1>9. ASSUME NEW t \in Slots, Distance(n, t) <= Distance(n, n) PROVE t = n
  <2>1. Distance(n, n) = 0 /\ Distance(n, t) \in 0..(Size - 1)
    BY <1>0, NoDistance, Distances DEF Slots
  <2>2. Distance(n, t) = 0
    BY <1>9, <2>1
  <2> QED
    BY <1>0, <2>2, NoDistance
<1>10. \A s \in Entries' : keys'[s] # key
  BY <1>0, <1>1, <1>3, <1>4 DEF TableInv, Shifting
<1>11. \A s \in Entries' : s \in Slots /\ s # n
  BY <1>0
<1>12. Shifting'
  BY <1>0, <1>9, <1>10, <1>11 DEF Shifting, Distance
<1> QED
  BY <1>8, <1>12

LEMMA EntryStays ==
    ASSUME TableInv, Shift, flags[Successor(index)], ~Moves(Successor(index))
    PROVE  Placed' /\ Shifting'
<1> DEFINE n == Successor(index)
<1>0. /\ pc = "shift" /\ pc' = "shift" /\ index' = n
      /\ UNCHANGED <<home, flags, keys, key, hole>>
      /\ index \in Slots /\ hole \in Slots /\ n \in Slots
      /\ Entries = {s \in Slots : flags[s] /\ s # hole}
      /\ Entries' = Entries
  BY Successors DEF Shift, TableInv, TypeOK, Entries
<1>1. ASSUME NEW t \in Slots, Distance(hole, t) <= Distance(hole, n)
      PROVE  t = n \/ t = hole \/ Distance(hole, t) <= Distance(hole, index)
  <2>1. /\ Distance(hole, t) \in 0..(Size - 1) /\ Distance(hole, n) \in 0..(Size - 1)
        /\ Distance(hole, index) \in 0..(Size - 1)
    BY <1>0, Distances DEF Slots
  <2>2. CASE n = hole
    <3>1. Distance(hole, t) = 0
      BY <1>0, <1>1, <2>1, <2>2, NoDistance
    <3> QED
      BY <1>0, <3>1, NoDistance
  <2>3. CASE n # hole
    <3>1. Distance(hole, n) = Distance(hole, index) + 1
      BY <1>0, <2>3, Successors
    <3>2. Distance(hole, t) = Distance(hole, n) \/ Distance(hole, t) <= Distance(hole, index)
      BY <1>1, <2>1, <3>1
    <3> QED
      BY <1>0, <3>2, SameDistance
  <2> QED
    BY <2>2, <2>3
<1>2. flags[hole]
  <2>1. Distance(hole, hole) = 0 /\ Distance(hole, index) \in 0..(Size - 1)
    BY <1>0, NoDistance, Distances DEF Slots
  <2>2. Distance(hole, hole) <= Distance(hole, index)
    BY <2>1
  <2> QED
    BY <1>0, <2>2 DEF TableInv, Shifting
<1>3. \A t \in Slots : Distance(hole, t) <= Distance(hole, n) => flags[t]
  BY <1>0, <1>1, <1>2 DEF TableInv, Shifting
<1>4. ASSUME NEW s \in Entries, Distance(hole, s) <= Distance(hole, n)
      PROVE  ~(Distance(home[keys[s]], hole) <= Distance(home[keys[s]], s))
  <2>1. s \in Slots /\ s # hole
    BY <1>0
  <2>2. CASE s = n
    BY <2>2 DEF Moves
  <2>3. CASE Distance(hole, s) <= Distance(hole, index)
    BY <1>0, <2>3 DEF TableInv, Shifting
  <2> QED
    BY <1>1, <1>4, <2>1, <2>2, <2>3
<1>5. Shifting'
  BY <1>0, <1>3, <1>4 DEF TableInv, Shifting, Distance
<1>6. Placed'
  BY <1>0 DEF TableInv, Placed
<1> QED
  BY <1>5, <1>6

LEMMA ShiftPlaces ==
    ASSUME TableInv, Shift
    PROVE  TableInv'
<1>1. CASE ~flags[Successor(index)]
  BY <1>1, HoleCloses
<1>2. CASE flags[Successor(index)]
  <2>1. TypeOK'
    <3>1. CountRound /\ Successor(index) \in Slots /\ TypeOK
      BY <1>2, Successors DEF Shift, TableInv, TypeOK
    <3>2. rounds' \in 0..(Size + 1)
      BY <3>1, Counted
    <3> QED
      BY <1>2, <3>1, <3>2 DEF Shift, TypeOK
  <2>2. Placed' /\ Shifting'
    BY <1>2, EntryMoves, EntryStays
  <2> QED
    BY <1>2, <2>1, <2>2, ShiftVisits DEF TableInv
<1> QED
  BY <1>1, <1>2

LEMMA TableStep == TableInv /\ [Next]_vars => TableInv'
<1> SUFFICES ASSUME TableInv, [Next]_vars PROVE TableInv'
  OBVIOUS
<1>1. CASE UNCHANGED vars
  BY <1>1 DEF vars, slotVars, removeVars, TableInv, TypeOK, Placed, Visited,
              Shifting, Full, Entries, Distance
<1> QED
  BY <1>1, SetPlaces, OthersPlace, FindPlaces, ShiftPlaces DEF Next, RemoveStep

LEMMA TableAlways == Spec => []TableInv
BY TableInitial, TableStep, PTL DEF Spec

LEMMA InvFinds == TableInv => GetFinds
<1> SUFFICES ASSUME TableInv, pc = "idle", NEW s \in Entries PROVE Get(keys[s]) = s
  BY DEF GetFinds
<1>1. keys[s] \in Keys
  BY DEF TableInv, Placed, Entries
<1> QED
  BY <1>1, GetEnds

LEMMA InvBounds == TableInv => RemoveBounded
BY SizeNat DEF TableInv, TypeOK, Visited, RemoveBounded

\* get finds every entry between the calls, whatever collided and was removed
\* before, in tables of every size (hashtable.h:73-144).
THEOREM EveryEntryFound == Spec => []GetFinds
BY InvFinds, TableAlways, PTL

\* remove visits no slot twice while a slot is free, for every size of the
\* table, though its loops count nothing (hashtable.h:110-144).
THEOREM RemoveGoesRoundOnce == Spec => []RemoveBounded
BY InvBounds, TableAlways, PTL

-----------------------------------------------------------------------------
(* Tables and sets are dictionaries                                          *)

\* Full slots have values.
Valued == \A s \in Slots : flags[s] => values[s] \in Values

DictInv == TableInv /\ Valued

LEMMA ValuedStep ==
    ASSUME DictInv, [Next]_vars
    PROVE  DictInv'
<1>0. TableInv'
  BY TableStep DEF DictInv
<1>1. ASSUME NEW k \in Keys, NEW v \in Values, Set(k, v) PROVE Valued'
  BY <1>1 DEF Set, slotVars, DictInv, Valued, TableInv, TypeOK
<1>2. ASSUME NEW k \in Keys, NEW v \in Values, Write(k, v) PROVE Valued'
  BY <1>2 DEF Write, DictInv, Valued, TableInv, TypeOK
<1>3. ASSUME Clear PROVE Valued'
  BY <1>3 DEF Clear, DictInv, Valued, TableInv, TypeOK
<1>4. ASSUME NEW k \in Keys, RemoveBegin(k) PROVE Valued'
  BY <1>4 DEF RemoveBegin, slotVars, DictInv, Valued
<1>5. ASSUME Find PROVE Valued'
  BY <1>5 DEF Find, slotVars, DictInv, Valued
<1>6. ASSUME Shift PROVE Valued'
  <2>1. Successor(index) \in Slots /\ hole \in Slots
    BY Successors DEF DictInv, TableInv, TypeOK
  <2>2. CASE ~flags[Successor(index)]
    BY <1>6, <2>1, <2>2 DEF Shift, DictInv, Valued, TableInv, TypeOK
  <2>3. CASE flags[Successor(index)]
    BY <1>6, <2>1, <2>3 DEF Shift, DictInv, Valued, TableInv, TypeOK
  <2> QED
    BY <2>2, <2>3
<1>7. ASSUME UNCHANGED vars PROVE Valued'
  BY <1>7 DEF vars, slotVars, DictInv, Valued
<1> QED
  BY <1>0, <1>1, <1>2, <1>3, <1>4, <1>5, <1>6, <1>7 DEF Next, RemoveStep, DictInv

\* What is chosen where no key is stored twice.
LEMMA Chosen ==
    ASSUME NEW E, NEW ks, NEW vs, \A s, t \in E : ks[s] = ks[t] => s = t,
           NEW s \in E
    PROVE  vs[CHOOSE t \in E : ks[t] = ks[s]] = vs[s]
<1>1. (CHOOSE t \in E : ks[t] = ks[s]) = s
  OBVIOUS
<1> QED
  BY <1>1

LEMMA ContentNow ==
    ASSUME DictInv, NEW k \in Keys
    PROVE  /\ \A s \in Entries : keys[s] = k => Content(k) = values[s] /\ Content(k) # None
           /\ (\A s \in Entries : keys[s] # k) => Content(k) = None
<1>1. \A s, t \in Entries : keys[s] = keys[t] => s = t
  BY DEF DictInv, TableInv, Placed
<1>2. \A s \in Entries : values[s] # None
  BY TableAssumption DEF DictInv, Valued, Entries
<1>3. ASSUME NEW s \in Entries, keys[s] = k PROVE Content(k) = values[s]
  BY <1>1, <1>3, Chosen DEF Content
<1> QED
  BY <1>2, <1>3 DEF Content

LEMMA ContentThen ==
    ASSUME DictInv', NEW k \in Keys
    PROVE  /\ \A s \in Entries' : keys'[s] = k => Content(k)' = values'[s]
           /\ (\A s \in Entries' : keys'[s] # k) => Content(k)' = None
<1>1. \A s, t \in Entries' : keys'[s] = keys'[t] => s = t
  BY DEF DictInv, TableInv, Placed
<1>2. ASSUME NEW s \in Entries', keys'[s] = k PROVE Content(k)' = values'[s]
  <2>1. (CHOOSE t \in Entries' : keys'[t] = k) = s
    BY <1>1, <1>2
  <2> QED
    BY <1>2, <2>1 DEF Content
<1>3. (\A s \in Entries' : keys'[s] # k) => Content(k)' = None
  BY DEF Content
<1> QED
  BY <1>2, <1>3

\* The entries may move, as long as each key takes its value along.
LEMMA ContentMoves ==
    ASSUME DictInv, DictInv', NEW k \in Keys,
           \A s \in Entries : keys[s] = k =>
             \E t \in Entries' : keys'[t] = k /\ values'[t] = values[s],
           \A t \in Entries' : keys'[t] = k => \E s \in Entries : keys[s] = k
    PROVE  Content(k)' = Content(k)
<1>1. CASE \E s \in Entries : keys[s] = k
  <2>1. PICK s \in Entries : keys[s] = k
    BY <1>1
  <2>2. PICK t \in Entries' : keys'[t] = k /\ values'[t] = values[s]
    BY <2>1
  <2> QED
    BY <2>1, <2>2, ContentNow, ContentThen
<1>2. CASE ~\E s \in Entries : keys[s] = k
  BY <1>2, ContentNow, ContentThen
<1> QED
  BY <1>1, <1>2

Same == \A k \in Keys : Content(k)' = Content(k)
Changed(j, v) == \A k \in Keys : Content(k)' = IF k = j THEN v ELSE Content(k)

LEMMA SameSlots ==
    ASSUME DictInv, DictInv', Entries' = Entries,
           \A s \in Entries : keys'[s] = keys[s] /\ values'[s] = values[s]
    PROVE  Same
BY ContentMoves DEF Same

LEMMA SetContents ==
    ASSUME DictInv, DictInv', NEW k \in Keys, NEW v \in Values, Set(k, v)
    PROVE  \/ Content(k) = None /\ Full /\ ret' = "full" /\ Same
           \/ Content(k) # None /\ ret' = "stored" /\ Same
           \/ Content(k) = None /\ ~Full /\ ret' = "stored" /\ Changed(k, v)
<1> DEFINE p == Probe(k)
<1>0. /\ pc = "idle" /\ pc' = "idle" /\ TypeOK
      /\ Entries = {s \in Slots : flags[s]} /\ Entries' = {s \in Slots : flags'[s]}
  BY DEF Set, removeVars, Entries, DictInv, TableInv
<1>1. CASE p = None
  <2>1. UNCHANGED slotVars /\ ret' = "full"
    BY <1>1 DEF Set
  <2>2. Full /\ \A s \in Entries : keys[s] # k
    BY <1>0, <1>1, ProbeEnds, SizeNat DEF DictInv
  <2>3. Same
    BY <1>0, <2>1, SameSlots DEF slotVars
  <2> QED
    BY <2>1, <2>2, <2>3, ContentNow
<1>2. CASE p # None
  <2>1. /\ p \in Slots /\ ret' = "stored"
        /\ flags' = [flags EXCEPT ![p] = TRUE]
        /\ keys' = [keys EXCEPT ![p] = k]
        /\ values' = [values EXCEPT ![p] = IF flags[p] THEN @ ELSE v]
    BY <1>0, <1>2, ProbeEnds DEF Set, DictInv
  <2>2. /\ flags'[p] /\ keys'[p] = k /\ values'[p] = IF flags[p] THEN values[p] ELSE v
        /\ \A s \in Slots \ {p} :
             flags'[s] = flags[s] /\ keys'[s] = keys[s] /\ values'[s] = values[s]
    BY <1>0, <2>1 DEF TypeOK
  <2>3. CASE p \in Entries
    <3>1. keys[p] = k /\ flags[p]
      BY <1>0, <1>2, <2>3, ProbeEnds DEF DictInv
    <3>2. Entries' = Entries
      BY <1>0, <2>2, <3>1
    <3>3. \A s \in Entries : keys'[s] = keys[s] /\ values'[s] = values[s]
      BY <1>0, <2>2, <3>1
    <3>4. Same
      BY <3>2, <3>3, SameSlots
    <3> QED
      BY <2>1, <2>3, <3>1, <3>4, ContentNow
  <2>4. CASE p \notin Entries
    <3>1. \A s \in Entries : keys[s] # k /\ s \in Slots \ {p}
      BY <1>0, <1>2, <2>4, ProbeEnds DEF DictInv
    <3>2. Entries' = Entries \cup {p} /\ ~flags[p]
      BY <1>0, <2>1, <2>2, <2>4
    <3>3. Content(k)' = v
      BY <2>2, <3>2, ContentThen
    <3>4. ASSUME NEW j \in Keys, j # k PROVE Content(j)' = Content(j)
      <4>1. \A s \in Entries : keys'[s] = keys[s] /\ values'[s] = values[s]
        BY <2>2, <3>1
      <4>2. \A t \in Entries' : keys'[t] = j => t \in Entries
        BY <2>2, <3>2, <3>4
      <4> QED
        BY <3>2, <4>1, <4>2, ContentMoves
    <3>5. Content(k) = None /\ ~Full
      BY <2>1, <3>1, <3>2, ContentNow DEF Full
    <3> QED
      BY <2>1, <3>3, <3>4, <3>5 DEF Changed
  <2> QED
    BY <2>3, <2>4
<1> QED
  BY <1>1, <1>2

LEMMA WriteContents ==
    ASSUME DictInv, DictInv', NEW k \in Keys, NEW v \in Values, Write(k, v)
    PROVE  Content(k) # None /\ Changed(k, v)
<1> DEFINE g == Get(k)
<1>0. /\ pc = "idle" /\ UNCHANGED <<flags, keys, pc, hole>> /\ TypeOK /\ g # None
      /\ values' = [values EXCEPT ![g] = v]
  BY DEF Write, removeVars, DictInv, TableInv
<1>1. g \in Entries /\ keys[g] = k /\ g \in Slots
  BY <1>0, GetEnds DEF DictInv, Entries
<1>2. values'[g] = v /\ \A s \in Slots \ {g} : values'[s] = values[s]
  BY <1>0, <1>1 DEF TypeOK
<1>3. Entries' = Entries /\ Entries \subseteq Slots
  BY <1>0 DEF Entries
<1>4. Content(k)' = v
  BY <1>0, <1>1, <1>2, <1>3, ContentThen
<1>5. ASSUME NEW j \in Keys, j # k PROVE Content(j)' = Content(j)
  <2>1. \A s \in Entries : keys[s] = j => values'[s] = values[s]
    BY <1>1, <1>2, <1>3, <1>5
  <2> QED
    BY <1>0, <1>3, <2>1, ContentMoves
<1> QED
  BY <1>1, <1>4, <1>5, ContentNow DEF Changed

\* What remove does to the dictionary: its key goes when it is found.
LEMMA FindContents ==
    ASSUME DictInv, DictInv', Find
    PROVE  /\ pc = "find" /\ key \in Keys
           /\ \/ pc' = "find" /\ ret' = ret /\ Same
              \/ pc' = "idle" /\ ret' = "missing" /\ Content(key) = None /\ Same
              \/ pc' = "shift" /\ Content(key) # None /\ Changed(key, None)
<1>0. /\ pc = "find" /\ UNCHANGED <<home, flags, keys, values>> /\ key \in Keys
      /\ Entries = {s \in Slots : flags[s]} /\ index \in Slots /\ home[key] \in Slots
      /\ TypeOK /\ Entries \subseteq Slots
  BY DEF Find, slotVars, DictInv, TableInv, TypeOK, Visited, Entries
<1>1. CASE ~flags[index]
  <2>1. RemoveReturns("missing")
    BY <1>0, <1>1 DEF Find
  <2>2. Entries' = Entries
    BY <1>0, <2>1 DEF RemoveReturns, Entries
  <2>3. ASSUME NEW s \in Entries, keys[s] = key PROVE FALSE
    <3>1. ~Full
      BY <1>0, <1>1 DEF Full
    <3>2. /\ Distance(home[key], index) = rounds
          /\ ~(Distance(home[key], s) < rounds)
      BY <1>0, <2>3, <3>1 DEF DictInv, TableInv, Visited
    <3>3. Distance(home[key], s) # rounds
      BY <1>0, <1>1, <3>2, SameDistance
    <3>4. Distance(home[key], s) \in 0..(Size - 1) /\ rounds \in Nat
      BY <1>0, Distances DEF Slots, TypeOK
    <3>5. Distance(home[key], index) < Distance(home[key], s)
      BY <3>2, <3>3, <3>4
    <3> QED
      BY <1>0, <1>1, <2>3, <3>5 DEF DictInv, TableInv, Placed
  <2>4. Content(key) = None
    BY <1>0, <2>3, ContentNow
  <2> QED
    BY <1>0, <2>1, <2>2, <2>4, SameSlots DEF RemoveReturns
<1>2. CASE flags[index] /\ keys[index] = key
  <2>1. pc' = "shift" /\ hole' = index
    BY <1>0, <1>2 DEF Find
  <2>2. Entries' = Entries \ {index} /\ index \in Entries
    BY <1>0, <1>2, <2>1 DEF Entries
  <2>3. \A s \in Entries' : s \in Entries /\ keys[s] # key
    BY <1>0, <1>2, <2>2 DEF DictInv, TableInv, Placed
  <2>4. ASSUME NEW j \in Keys, j = key PROVE Content(j)' = None /\ Content(j) # None
    BY <2>4, <1>0, <1>2, <2>2, <2>3, ContentNow, ContentThen
  <2>5. ASSUME NEW j \in Keys, j # key PROVE Content(j)' = Content(j)
    <3>1. \A s \in Entries : keys[s] = j => s \in Entries'
      BY <1>2, <2>2, <2>5
    <3> QED
      BY <1>0, <2>3, <3>1, ContentMoves
  <2>6. Content(key) # None
    BY <1>0, <2>4
  <2>7. Changed(key, None)
    BY <2>4, <2>5 DEF Changed
  <2> QED
    BY <1>0, <2>1, <2>6, <2>7
<1>3. CASE flags[index] /\ keys[index] # key
  <2>1. UNCHANGED <<pc, hole, ret>>
    BY <1>0, <1>3 DEF Find
  <2>2. Entries' = Entries
    BY <1>0, <2>1 DEF Entries
  <2> QED
    BY <1>0, <2>1, <2>2, SameSlots
<1> QED
  BY <1>1, <1>2, <1>3

LEMMA ShiftContents ==
    ASSUME DictInv, DictInv', Shift
    PROVE  /\ pc = "shift" /\ Same
           /\ \/ pc' = "shift"
              \/ pc' = "idle" /\ ret' = "removed"
<1> DEFINE n == Successor(index)
<1>0. /\ pc = "shift" /\ TypeOK /\ hole \in Slots /\ n \in Slots
      /\ Entries = {s \in Slots : flags[s] /\ s # hole}
  BY Successors DEF Shift, DictInv, TableInv, TypeOK, Entries
<1>1. CASE ~flags[n]
  <2>1. /\ flags' = [flags EXCEPT ![hole] = FALSE] /\ UNCHANGED <<keys, values>>
        /\ pc' = "idle" /\ ret' = "removed"
    BY <1>1 DEF Shift, RemoveReturns
  <2>2. Entries' = Entries
    BY <1>0, <2>1 DEF Entries, TypeOK
  <2> QED
    BY <1>0, <2>1, <2>2, SameSlots
<1>2. CASE flags[n] /\ ~Moves(n)
  <2>1. UNCHANGED <<flags, keys, values, pc, hole>>
    BY <1>2 DEF Shift
  <2>2. Entries' = Entries
    BY <1>0, <2>1 DEF Entries
  <2> QED
    BY <1>0, <2>1, <2>2, SameSlots
<1>3. CASE flags[n] /\ Moves(n)
  <2>1. /\ UNCHANGED <<flags, pc>> /\ hole' = n
        /\ keys' = [keys EXCEPT ![hole] = keys[n]]
        /\ values' = [values EXCEPT ![hole] = values[n]]
    BY <1>3 DEF Shift
  <2>2. /\ Entries' = {s \in Slots : flags[s] /\ s # n}
        /\ keys'[hole] = keys[n] /\ values'[hole] = values[n]
        /\ \A s \in Slots \ {hole} : keys'[s] = keys[s] /\ values'[s] = values[s]
    BY <1>0, <2>1 DEF Entries, TypeOK
  <2>3. flags[hole]
    <3>1. Distance(hole, hole) = 0 /\ Distance(hole, index) \in 0..(Size - 1)
      BY <1>0, NoDistance, Distances DEF Slots, TypeOK
    <3>2. Distance(hole, hole) <= Distance(hole, index)
      BY <3>1
    <3> QED
      BY <1>0, <3>2 DEF DictInv, TableInv, Shifting
  <2>4. ASSUME NEW k \in Keys, NEW s \in Entries, keys[s] = k
        PROVE  \E t \in Entries' : keys'[t] = k /\ values'[t] = values[s]
    <3>1. CASE s = n
      <4>1. hole \in Entries'
        BY <1>0, <2>2, <2>3, <3>1
      <4> QED
        BY <2>2, <2>4, <3>1, <4>1
    <3>2. CASE s # n
      <4>1. s \in Entries' /\ s \in Slots \ {hole}
        BY <1>0, <2>2, <3>2
      <4> QED
        BY <2>2, <2>4, <4>1
    <3> QED
      BY <3>1, <3>2
  <2>5. ASSUME NEW k \in Keys, NEW t \in Entries', keys'[t] = k
        PROVE  \E s \in Entries : keys[s] = k
    <3>1. CASE t = hole
      <4>1. n \in Entries /\ keys[n] = k
        BY <1>0, <1>3, <2>2, <2>5, <3>1
      <4> QED
        BY <4>1
    <3>2. CASE t # hole
      <4>1. t \in Entries /\ keys[t] = k
        BY <1>0, <2>2, <2>5, <3>2
      <4> QED
        BY <4>1
    <3> QED
      BY <3>1, <3>2
  <2>6. Same
    BY <2>4, <2>5, ContentMoves DEF Same
  <2> QED
    BY <1>0, <2>1, <2>6
<1> QED
  BY <1>1, <1>2, <1>3

LEMMA ClearContents ==
    ASSUME DictInv, DictInv', Clear
    PROVE  \A k \in Keys : Content(k)' = None
<1>1. Entries' = {}
  BY DEF Clear, Entries
<1> QED
  BY <1>1, ContentThen

\* There is room for a new key as long as a slot is free.
LEMMA Room ==
    ASSUME DictInv, pc = "idle"
    PROVE  Cardinality({k \in Keys : Content(k) # None}) < Size <=> ~Full
<1> DEFINE Stored == {k \in Keys : Content(k) # None}
           at == [s \in Entries |-> keys[s]]
<1>0. Entries = {s \in Slots : flags[s]} /\ Entries \subseteq Slots
  BY DEF Entries
<1>1. IsFiniteSet(Slots) /\ Cardinality(Slots) = Size
  <2>1. 0 \in Int /\ Size - 1 \in Int /\ ~(0 > Size - 1) /\ Size - 1 - 0 + 1 = Size
    BY SizeNat
  <2> QED
    BY <2>1, FS_Interval DEF Slots
<1>2. \A s \in Entries : keys[s] \in Keys
  BY <1>0 DEF DictInv, TableInv, Placed
<1>3. \A s \in Entries : keys[s] \in Stored
  BY <1>2, ContentNow
<1>4. \A k \in Stored : \E s \in Entries : keys[s] = k
  BY ContentNow
<1>5. \A s, t \in Entries : keys[s] = keys[t] => s = t
  BY DEF DictInv, TableInv, Placed
<1>6. at \in Bijection(Entries, Stored)
  <2>1. at \in [Entries -> Stored] /\ \A s \in Entries : at[s] = keys[s]
    BY <1>3
  <2>2. at \in Injection(Entries, Stored)
    BY <1>5, <2>1 DEF Injection, IsInjective
  <2>3. at \in Surjection(Entries, Stored)
    BY <1>4, <2>1 DEF Surjection
  <2> QED
    BY <2>2, <2>3 DEF Bijection
<1>7. IsFiniteSet(Entries) /\ Cardinality(Entries) <= Size
      /\ (Cardinality(Entries) = Size => Entries = Slots)
  BY <1>0, <1>1, FS_Subset
<1>8. Cardinality(Stored) = Cardinality(Entries)
  BY <1>6, <1>7, FS_Bijection DEF ExistsBijection
<1>9. Cardinality(Entries) \in Nat
  BY <1>7, FS_CardinalityType
<1>10. Full <=> Entries = Slots
  BY <1>0 DEF Full
<1>11. Entries = Slots <=> Cardinality(Entries) = Size
  BY <1>1, <1>7
<1> HIDE DEF Stored
<1>12. Cardinality(Stored) < Size <=> ~Full
  BY <1>7, <1>8, <1>9, <1>10, <1>11, SizeNat
<1> QED
  BY <1>12 DEF Stored

-----------------------------------------------------------------------------
\* The dictionary that a state of a table or set stands for.
Meant == [k \in Keys \cup {Null} |->
            IF k = Null THEN IF nullable THEN Unit ELSE None ELSE Content(k)]
Told == IF pc = "shift" THEN "removed" ELSE ret

LEMMA MeantSame ==
    ASSUME Same, UNCHANGED nullable
    PROVE  Meant' = Meant
BY SetAssumption DEF Meant, Same

LEMMA MeantChanged ==
    ASSUME NEW j \in Keys, NEW v, Changed(j, v), UNCHANGED nullable
    PROVE  Meant' = [Meant EXCEPT ![j] = v]
BY SetAssumption DEF Meant, Changed

LEMMA MeantNull ==
    ASSUME Same
    PROVE  Meant' = [Meant EXCEPT ![Null] = IF nullable' THEN Unit ELSE None]
BY SetAssumption DEF Meant, Same

\* Dictionary counts as its instance's user does.
LEMMA SameCount == \A S : Dict!Cardinality(S) = Cardinality(S)
BY DEF Dict!Cardinality, Cardinality

LEMMA MeantRoom ==
    ASSUME DictInv, pc = "idle"
    PROVE  Cardinality({k \in Keys \cup {Null} : Meant[k] # None} \ {Null}) < Size <=> ~Full
<1>1. {k \in Keys \cup {Null} : Meant[k] # None} \ {Null} = {k \in Keys : Content(k) # None}
  BY SetAssumption DEF Meant
<1> QED
  BY <1>1, Room

LEMMA SetMeans ==
    ASSUME DictInv, DictInv', NEW k \in Keys, NEW v \in Values, Set(k, v),
           UNCHANGED nullable
    PROVE  Dict!Next
<1>0. pc = "idle" /\ pc' = "idle" /\ Meant[k] = Content(k) /\ Told' = ret'
  BY SetAssumption DEF Set, removeVars, Meant, Told
<1>1. CASE Content(k) = None /\ Full /\ ret' = "full" /\ Same
  <2>1. Dict!Refuse(k)
    BY <1>0, <1>1, MeantSame, MeantRoom, SameCount, SetAssumption
    DEF Dict!Refuse, Dict!HasRoom, Dict!Stored, Meant, Told
  <2> QED
    BY <2>1 DEF Dict!Next
<1>2. CASE Content(k) # None /\ ret' = "stored" /\ Same
  <2>1. Dict!Keep(k)
    BY <1>0, <1>2, MeantSame DEF Dict!Keep, Meant, Told
  <2> QED
    BY <2>1 DEF Dict!Next
<1>3. CASE Content(k) = None /\ ~Full /\ ret' = "stored" /\ Changed(k, v)
  <2>1. Dict!Insert(k, v)
    BY <1>0, <1>3, MeantChanged, MeantRoom, SameCount, SetAssumption
    DEF Dict!Insert, Dict!HasRoom, Dict!Stored, Meant, Told
  <2> QED
    BY <2>1 DEF Dict!Next
<1> QED
  BY <1>1, <1>2, <1>3, SetContents

LEMMA WriteMeans ==
    ASSUME DictInv, DictInv', NEW k \in Keys, NEW v \in Values, Write(k, v),
           UNCHANGED nullable
    PROVE  Dict!Next
<1>1. Content(k) # None /\ Changed(k, v)
  BY WriteContents
<1>2. Meant[k] = Content(k) /\ UNCHANGED <<pc, ret>>
  BY SetAssumption DEF Write, removeVars, Meant
<1>3. Dict!Write(k, v)
  BY <1>1, <1>2, MeantChanged DEF Dict!Write, Meant
<1> QED
  BY <1>3 DEF Dict!Next

LEMMA BeginMeans ==
    ASSUME DictInv, DictInv', NEW k \in Keys, RemoveBegin(k), UNCHANGED nullable
    PROVE  UNCHANGED Dict!dictVars
<1>1. pc = "idle" /\ pc' = "find" /\ UNCHANGED <<flags, keys, values, ret>>
  BY DEF RemoveBegin, slotVars
<1>2. Entries' = Entries
  BY <1>1 DEF Entries
<1>3. Same
  BY <1>1, <1>2, SameSlots
<1> QED
  BY <1>1, <1>3, MeantSame DEF Dict!dictVars, Meant

LEMMA FindMeans ==
    ASSUME DictInv, DictInv', Find, UNCHANGED nullable
    PROVE  Dict!Next \/ UNCHANGED Dict!dictVars
<1>0. pc = "find" /\ key \in Keys
  BY FindContents
<1>1. CASE pc' = "find" /\ ret' = ret /\ Same
  BY <1>0, <1>1, MeantSame DEF Dict!dictVars, Meant
<1>2. CASE pc' = "idle" /\ ret' = "missing" /\ Content(key) = None /\ Same
  <2>1. \A k \in Keys : k = key => Dict!Delete(k)
    BY <1>0, <1>2, MeantSame, SetAssumption DEF Dict!Delete, Meant
  <2> QED
    BY <1>0, <2>1 DEF Dict!Next
<1>3. CASE pc' = "shift" /\ Content(key) # None /\ Changed(key, None)
  <2>1. ASSUME NEW k \in Keys, k = key PROVE Dict!Delete(k)
    <3>1. Changed(k, None) /\ Content(k) # None
      BY <1>3, <2>1 DEF Changed
    <3>2. Meant' = [Meant EXCEPT ![k] = None] /\ Meant[k] # None
      BY <3>1, MeantChanged, SetAssumption DEF Meant
    <3> QED
      BY <1>0, <1>3, <3>2 DEF Dict!Delete, Meant
  <2> QED
    BY <1>0, <2>1 DEF Dict!Next
<1> QED
  BY <1>1, <1>2, <1>3, FindContents

LEMMA ShiftMeans ==
    ASSUME DictInv, DictInv', Shift, UNCHANGED nullable
    PROVE  UNCHANGED Dict!dictVars
<1>1. pc = "shift" /\ Same
  BY ShiftContents
<1>2. pc' = "shift" \/ (pc' = "idle" /\ ret' = "removed")
  BY ShiftContents
<1> QED
  BY <1>1, <1>2, MeantSame DEF Dict!dictVars, Meant

\* null is a key apart: it needs no room, and no other key is touched.
LEMMA NullMeans ==
    ASSUME DictInv, DictInv', pc = "idle", UNCHANGED <<home, slotVars, removeVars>>,
           \/ nullable' = TRUE /\ ret' = "stored"
           \/ nullable' = FALSE /\ ret' = IF nullable THEN "removed" ELSE "missing"
    PROVE  Dict!Next
<1>0. pc' = "idle" /\ UNCHANGED <<flags, keys, values>>
  BY DEF slotVars, removeVars
<1>1. Entries' = Entries
  BY <1>0 DEF Entries
<1>2. Same
  BY <1>0, <1>1, SameSlots
<1>3. Meant[Null] = IF nullable THEN Unit ELSE None
  BY DEF Meant
<1>4. Meant' = [Meant EXCEPT ![Null] = IF nullable' THEN Unit ELSE None]
  BY <1>2, MeantNull
<1>5. Unit # None /\ Unit \in Values
  BY SetAssumption, TableAssumption
<1>6. CASE nullable' = TRUE /\ ret' = "stored" /\ ~nullable
  <2>1. Dict!Insert(Null, Unit)
    BY <1>0, <1>3, <1>4, <1>6 DEF Dict!Insert, Dict!HasRoom, Meant
  <2> QED
    BY <1>5, <2>1 DEF Dict!Next
<1>7. CASE nullable' = TRUE /\ ret' = "stored" /\ nullable
  <2>1. Meant' = Meant
    BY <1>2, <1>7 DEF Meant, Same
  <2>2. Dict!Keep(Null)
    BY <1>0, <1>3, <1>5, <1>7, <2>1 DEF Dict!Keep, Meant
  <2> QED
    BY <2>2 DEF Dict!Next
<1>8. CASE nullable' = FALSE /\ ret' = "removed" /\ nullable
  <2>1. Dict!Delete(Null)
    BY <1>0, <1>3, <1>4, <1>5, <1>8 DEF Dict!Delete, Meant
  <2> QED
    BY <2>1 DEF Dict!Next
<1>9. CASE nullable' = FALSE /\ ret' = "missing" /\ ~nullable
  <2>1. Meant' = Meant
    BY <1>2, <1>9 DEF Meant, Same
  <2>2. Dict!Delete(Null)
    BY <1>0, <1>3, <1>9, <2>1 DEF Dict!Delete, Meant
  <2> QED
    BY <2>2 DEF Dict!Next
<1> QED
  BY <1>6, <1>7, <1>8, <1>9

LEMMA ClearMeans ==
    ASSUME DictInv, DictInv', Clear, nullable' = FALSE
    PROVE  Dict!Next
<1>0. UNCHANGED <<pc, ret>>
  BY DEF Clear, removeVars
<1>1. Dict!Clear
  BY <1>0, ClearContents DEF Dict!Clear
<1> QED
  BY <1>1 DEF Dict!Next

LEMMA DictInitial ==
    ASSUME SetInit
    PROVE  DictInv /\ Dict!Init
<1>0. TableInv /\ flags = [s \in Slots |-> FALSE]
  BY TableInitial DEF SetInit, Init
<1>1. DictInv
  BY <1>0 DEF DictInv, Valued
<1>2. Entries = {}
  BY <1>0 DEF Entries
<1>3. Meant = [k \in Keys \cup {Null} |-> None]
  BY <1>1, <1>2, ContentNow DEF SetInit, Meant
<1> QED
  BY <1>1, <1>3 DEF Dict!Init, Meant, SetInit, Init

LEMMA NullStep ==
    ASSUME DictInv, UNCHANGED <<home, slotVars, removeVars>>,
           ret' \in {ret, "stored", "removed", "missing"}
    PROVE  DictInv'
<1>1. UNCHANGED <<home, flags, keys, values, pc, key, index, hole, rounds>>
  BY DEF slotVars, removeVars
<1>2. Entries' = Entries /\ (Full <=> Full')
  BY <1>1 DEF Entries, Full
<1>3. TypeOK'
  BY <1>1 DEF DictInv, TableInv, TypeOK
<1>4. Placed' /\ Valued'
  BY <1>1, <1>2 DEF DictInv, TableInv, Placed, Valued
<1>5. Visited' /\ Shifting'
  BY <1>1, <1>2 DEF DictInv, TableInv, Visited, Shifting, Full
<1> QED
  BY <1>3, <1>4, <1>5 DEF DictInv, TableInv

LEMMA NoChangeMeans ==
    ASSUME DictInv, UNCHANGED setVars
    PROVE  DictInv' /\ UNCHANGED Dict!dictVars
<1>1. UNCHANGED <<home, slotVars, removeVars, ret, nullable, keys, values, flags, pc, hole>>
  BY DEF setVars, vars, slotVars, removeVars
<1>2. DictInv'
  BY <1>1, NullStep
<1>3. Entries' = Entries
  BY <1>1 DEF Entries
<1>4. Same
  BY <1>1, <1>2, <1>3, SameSlots
<1> QED
  BY <1>1, <1>2, <1>4, MeantSame DEF Dict!dictVars, Meant

LEMMA RemoveStepMeans ==
    ASSUME DictInv, RemoveStep, UNCHANGED nullable
    PROVE  DictInv' /\ (Dict!Next \/ UNCHANGED Dict!dictVars)
<1>1. DictInv'
  BY ValuedStep DEF Next
<1> QED
  BY <1>1, FindMeans, ShiftMeans DEF RemoveStep

\* A program with a hash table; null is no key of it.
TableRun == SetInit /\ [][Next /\ UNCHANGED nullable]_setVars

LEMMA TableMeans ==
    ASSUME DictInv, nullable = FALSE, [Next /\ UNCHANGED nullable]_setVars
    PROVE  DictInv' /\ nullable' = FALSE /\ (Dict!Next \/ UNCHANGED Dict!dictVars)
<1>0. nullable' = FALSE
  BY DEF setVars
<1>1. CASE UNCHANGED setVars
  BY <1>0, <1>1, NoChangeMeans
<1>2. CASE Next /\ UNCHANGED nullable
  <2>0. DictInv'
    BY <1>2, ValuedStep
  <2>1. ASSUME NEW k \in Keys, NEW v \in Values, Set(k, v) PROVE Dict!Next
    BY <1>2, <2>0, <2>1, SetMeans
  <2>2. ASSUME NEW k \in Keys, NEW v \in Values, Write(k, v) PROVE Dict!Next
    BY <1>2, <2>0, <2>2, WriteMeans
  <2>3. ASSUME NEW k \in Keys, RemoveBegin(k) PROVE UNCHANGED Dict!dictVars
    BY <1>2, <2>0, <2>3, BeginMeans
  <2>4. CASE RemoveStep
    BY <1>0, <1>2, <2>4, RemoveStepMeans
  <2>5. CASE Clear
    BY <1>0, <2>0, <2>5, ClearMeans
  <2> QED
    BY <1>0, <1>2, <2>0, <2>1, <2>2, <2>3, <2>4, <2>5 DEF Next
<1> QED
  BY <1>1, <1>2

LEMMA SetElementMeans ==
    ASSUME DictInv, [SetNext]_setVars
    PROVE  DictInv' /\ (Dict!Next \/ UNCHANGED Dict!dictVars)
<1>1. CASE UNCHANGED setVars
  BY <1>1, NoChangeMeans
<1>2. ASSUME NEW e \in Keys, Add(e) PROVE DictInv' /\ Dict!Next
  <2>1. Set(e, Unit) /\ UNCHANGED nullable /\ Unit \in Values
    BY <1>2, SetAssumption DEF Add
  <2>2. DictInv'
    BY <2>1, ValuedStep DEF Next
  <2> QED
    BY <2>1, <2>2, SetMeans
<1>3. ASSUME NEW e \in Keys, RemoveElement(e) PROVE DictInv' /\ UNCHANGED Dict!dictVars
  <2>1. RemoveBegin(e) /\ UNCHANGED nullable
    BY <1>3, SetAssumption DEF RemoveElement
  <2>2. DictInv'
    BY <2>1, ValuedStep DEF Next
  <2> QED
    BY <2>1, <2>2, BeginMeans
<1>4. ASSUME Add(Null) PROVE DictInv' /\ Dict!Next
  <2>1. /\ pc = "idle" /\ nullable' = TRUE /\ ret' = "stored"
        /\ UNCHANGED <<home, slotVars, removeVars>>
    BY <1>4 DEF Add
  <2>2. DictInv'
    BY <2>1, NullStep
  <2> QED
    BY <2>1, <2>2, NullMeans
<1>5. ASSUME RemoveElement(Null) PROVE DictInv' /\ Dict!Next
  <2>1. /\ pc = "idle" /\ nullable' = FALSE
        /\ ret' = IF nullable THEN "removed" ELSE "missing"
        /\ UNCHANGED <<home, slotVars, removeVars>>
    BY <1>5 DEF RemoveElement
  <2>2. DictInv'
    BY <2>1, NullStep
  <2> QED
    BY <2>1, <2>2, NullMeans
<1>6. CASE RemoveStep /\ UNCHANGED nullable
  BY <1>6, RemoveStepMeans
<1>7. CASE ClearSet
  <2>1. Clear /\ nullable' = FALSE
    BY <1>7 DEF ClearSet
  <2>2. DictInv'
    BY <2>1, ValuedStep DEF Next
  <2> QED
    BY <2>1, <2>2, ClearMeans
<1> QED
  BY <1>1, <1>2, <1>3, <1>4, <1>5, <1>6, <1>7 DEF SetNext

\* Sets find their elements too, and remove goes round at most once
\* (set.h:101-186).
THEOREM SetFinds == SetSpec => [](GetFinds /\ RemoveBounded)
<1>1. SetInit => DictInv
  BY DictInitial
<1>2. DictInv /\ [SetNext]_setVars => DictInv'
  BY SetElementMeans
<1>3. DictInv => GetFinds /\ RemoveBounded
  BY InvFinds, InvBounds DEF DictInv
<1> QED
  BY <1>1, <1>2, <1>3, PTL DEF SetSpec

\* A hash table is a dictionary, for every size, every set of keys and every
\* hash function: no call loses, duplicates or changes the entry of another
\* key, a full table refuses exactly new keys, and what set and remove return
\* is right (hashtable.h:73-144).
THEOREM TableIsDictionary == TableRun => DictionarySpec
<1> DEFINE I == DictInv /\ nullable = FALSE
<1>1. SetInit => I /\ Dict!Init
  BY DictInitial DEF SetInit
<1>2. I /\ [Next /\ UNCHANGED nullable]_setVars => I' /\ [Dict!Next]_(Dict!dictVars)
  BY TableMeans
<1> HIDE DEF I
<1> QED
  BY <1>1, <1>2, PTL DEF TableRun, DictionarySpec, Dict!Spec

\* So is a set, with null as an element that needs no room (set.h:101-186).
THEOREM SetIsDictionary == SetSpec => DictionarySpec
<1>1. SetInit => DictInv /\ Dict!Init
  BY DictInitial
<1>2. DictInv /\ [SetNext]_setVars => DictInv' /\ [Dict!Next]_(Dict!dictVars)
  BY SetElementMeans
<1> QED
  BY <1>1, <1>2, PTL DEF SetSpec, DictionarySpec, Dict!Spec
=============================================================================
