---------------------------- MODULE SplineProofs ----------------------------
(* A theorem about SplinePath, for paths of any number of segments and any    *)
(* number of users: what is sampled forward is complete.                      *)
EXTENDS SplinePath, WellFoundedInduction, TLAPS

-----------------------------------------------------------------------------
(* Greatest and least numbers                                                 *)

\* A set of natural numbers has a least one.
LEMMA LeastNumber ==
    ASSUME NEW S, S \subseteq Nat, S # {}
    PROVE  \E m \in S : \A n \in S : m <= n
<1> DEFINE Less == {p \in Nat \X Nat : p[1] < p[2]}
<1>1. IsWellFoundedOn(Less, Nat)
  BY NatLessThanWellFounded DEF OpToRel
<1>2. PICK m \in S : \A n \in S : <<n, m>> \notin Less
  BY <1>1, WFMin
<1>3. ASSUME NEW n \in S PROVE m <= n
  <2>1. <<n, m>> \in Nat \X Nat /\ <<n, m>>[1] = n /\ <<n, m>>[2] = m
    OBVIOUS
  <2>2. ~(n < m)
    BY <1>2, <2>1
  <2> QED
    BY <2>2
<1> QED
  BY <1>3

LEMMA Greatest ==
    ASSUME NEW n \in Nat, NEW S, S \subseteq 1..n, S # {}
    PROVE  Max(S) \in S /\ \A i \in S : i <= Max(S)
<1> DEFINE Below == {n - i : i \in S}
<1>1. Below \subseteq Nat /\ Below # {}
  <2>1. \A i \in S : n - i \in Nat
    OBVIOUS
  <2>2. PICK i \in S : TRUE
    OBVIOUS
  <2>3. n - i \in Below
    BY <2>2
  <2> QED
    BY <2>1, <2>3
<1>2. PICK b \in Below : \A c \in Below : b <= c
  BY <1>1, LeastNumber
<1>3. PICK m \in S : b = n - m
  BY <1>2
<1>4. \A i \in S : i <= m
  <2> SUFFICES ASSUME NEW i \in S PROVE i <= m
    OBVIOUS
  <2>1. b <= n - i
    BY <1>2
  <2> QED
    BY <1>3, <2>1
<1>5. \A i \in S : m >= i
  BY <1>4
<1> HIDE DEF Below
<1>6. Max(S) \in S /\ \A i \in S : Max(S) >= i
  BY <1>5 DEF Max
<1> QED
  BY <1>6

LEMMA OfTwo ==
    ASSUME NEW a \in Int, NEW b \in Int
    PROVE  /\ Max({a, b}) = IF a >= b THEN a ELSE b
           /\ Min({a, b}) = IF a <= b THEN a ELSE b
<1>1. \E m \in {a, b} : \A y \in {a, b} : m >= y
  OBVIOUS
<1>2. \E m \in {a, b} : \A y \in {a, b} : m <= y
  OBVIOUS
<1>3. Max({a, b}) \in {a, b} /\ \A y \in {a, b} : Max({a, b}) >= y
  BY <1>1 DEF Max
<1>4. Min({a, b}) \in {a, b} /\ \A y \in {a, b} : Min({a, b}) <= y
  BY <1>2 DEF Min
<1> QED
  BY <1>3, <1>4

-----------------------------------------------------------------------------
(* Prepared paths                                                             *)

\* Segments follow one another.
Chain(segs) ==
    /\ Len(segs) \in Nat /\ Len(segs) >= 1 /\ DOMAIN segs = 1..Len(segs)
    /\ \A i \in 1..Len(segs) :
         segs[i].start \in Nat /\ segs[i].end \in Nat /\ segs[i].start <= segs[i].end
    /\ segs[1].start = 0
    /\ \A i \in 2..Len(segs) : segs[i].start = segs[i - 1].end

LEMMA Ordered ==
    ASSUME NEW segs, Chain(segs), NEW i \in 1..Len(segs), NEW j \in 1..Len(segs), i < j
    PROVE  segs[i].end <= segs[j].start
<1> DEFINE Wrong == {n \in 1..Len(segs) : i < n /\ ~(segs[i].end <= segs[n].start)}
<1> SUFFICES ASSUME Wrong # {} PROVE FALSE
  BY DEF Chain
<1>0. Len(segs) \in Nat
  BY DEF Chain
<1>1. PICK n \in Wrong : \A m \in Wrong : n <= m
  <2>1. Wrong \subseteq Nat
    BY <1>0
  <2> HIDE DEF Wrong
  <2> QED
    BY <2>1, LeastNumber
<1>2. n \in 2..Len(segs) /\ i < n /\ n - 1 \in 1..Len(segs) /\ n - 1 \notin Wrong
  BY <1>0, <1>1
<1>3. segs[n].start = segs[n - 1].end
  BY <1>2 DEF Chain
<1>4. CASE i = n - 1
  BY <1>1, <1>2, <1>3, <1>4 DEF Chain
<1>5. CASE i < n - 1
  <2>1. segs[i].end <= segs[n - 1].start
    BY <1>2, <1>5
  <2>2. /\ segs[n - 1].start <= segs[n - 1].end
        /\ segs[n - 1].start \in Nat /\ segs[n - 1].end \in Nat /\ segs[i].end \in Nat
    BY <1>2 DEF Chain
  <2> QED
    BY <1>1, <1>3, <2>1, <2>2
<1> QED
  BY <1>0, <1>2, <1>4, <1>5

LEMMA Elements ==
    ASSUME NEW S, NEW s \in Seq(S)
    PROVE  Len(s) \in Nat /\ DOMAIN s = 1..Len(s) /\ \A i \in 1..Len(s) : s[i] \in S
OBVIOUS

LEMMA EndFromNat ==
    ASSUME NEW shape \in Shapes, NEW i \in 1..Len(shape), NEW before \in Nat
    PROVE  EndFrom(shape[i], before) \in Nat
<1>1. /\ DOMAIN shape = 1..Len(shape) /\ SizeMax \in Nat
      /\ shape[i] \in [kind : {"line", "constant", "path"}, x : Nat, sub : Flat]
      /\ shape[i].kind = "path" => Contiguous(shape[i].sub)
  <2>1. shape \in Seq([kind : {"line", "constant", "path"}, x : Nat, sub : Flat])
    BY ShapesAssumption
  <2>2. /\ DOMAIN shape = 1..Len(shape)
        /\ shape[i] \in [kind : {"line", "constant", "path"}, x : Nat, sub : Flat]
    BY <2>1, Elements
  <2> QED
    BY <2>2, ShapesAssumption, SplineAssumption
<1>2. CASE shape[i].kind = "path"
  <2> DEFINE sub == shape[i].sub
  <2>1. sub \in Seq([start : Nat, end : Nat, sub : {<<>>}]) /\ sub # <<>>
    BY <1>1, <1>2 DEF Contiguous, Flat
  <2> HIDE DEF sub
  <2>2. Len(sub) \in 1..Len(sub)
    BY <2>1
  <2>3. sub[Len(sub)] \in [start : Nat, end : Nat, sub : {<<>>}]
    BY <2>1, <2>2, Elements
  <2>4. PathEnd(sub) \in Nat
    BY <2>3 DEF PathEnd
  <2> QED
    BY <1>2, <2>4 DEF EndFrom, sub
<1> QED
  BY <1>1, <1>2 DEF EndFrom

\* There are such numbers, however long the shape is.
LEMMA EndsExist ==
    ASSUME NEW shape \in Shapes, NEW n \in 0..Len(shape)
    PROVE  \E f \in [0..n -> Nat] :
             \A i \in 0..n : f[i] = IF i = 0 THEN 0 ELSE EndFrom(shape[i], f[i - 1])
<1> DEFINE Ends(m, f) ==
             \A i \in 0..m : f[i] = IF i = 0 THEN 0 ELSE EndFrom(shape[i], f[i - 1])
           Wrong == {m \in 0..Len(shape) : ~\E f \in [0..m -> Nat] : Ends(m, f)}
<1> SUFFICES ASSUME Wrong # {} PROVE FALSE
  OBVIOUS
<1>0. Len(shape) \in Nat
  BY ShapesAssumption
<1>1. PICK m \in Wrong : \A k \in Wrong : m <= k
  <2>1. Wrong \subseteq Nat
    BY <1>0
  <2> HIDE DEF Wrong
  <2> QED
    BY <2>1, LeastNumber
<1>2. m # 0
  <2> SUFFICES ASSUME m = 0 PROVE FALSE
    OBVIOUS
  <2>1. Ends(0, [i \in 0..0 |-> 0])
    OBVIOUS
  <2> QED
    BY <1>1, <2>1
<1>3. m \in 1..Len(shape) /\ m - 1 \in 0..Len(shape) /\ m - 1 \notin Wrong
  <2>1. m \in 1..Len(shape) /\ m - 1 \in 0..Len(shape) /\ ~(m <= m - 1)
    BY <1>0, <1>1, <1>2
  <2> HIDE DEF Wrong
  <2> QED
    BY <1>1, <2>1
<1>4. PICK f \in [0..(m - 1) -> Nat] : Ends(m - 1, f)
  BY <1>3
<1> DEFINE g == [i \in 0..m |-> IF i = m THEN EndFrom(shape[m], f[m - 1]) ELSE f[i]]
<1>5. f[m - 1] \in Nat
  BY <1>3, <1>4
<1>6. g \in [0..m -> Nat]
  <2>1. EndFrom(shape[m], f[m - 1]) \in Nat
    BY <1>3, <1>5, EndFromNat
  <2>2. \A i \in 0..m : i # m => i \in 0..(m - 1) /\ f[i] \in Nat
    BY <1>3, <1>4
  <2> QED
    BY <2>1, <2>2
<1>7. ASSUME NEW i \in 0..m
      PROVE  g[i] = IF i = 0 THEN 0 ELSE EndFrom(shape[i], g[i - 1])
  <2>1. CASE i = m
    <3>1. m - 1 \in 0..m /\ m - 1 # m /\ i # 0
      BY <1>3, <2>1
    <3>2. g[m - 1] = f[m - 1] /\ g[m] = EndFrom(shape[m], f[m - 1])
      BY <3>1
    <3> QED
      BY <2>1, <3>1, <3>2
  <2>2. CASE i # m
    <3>1. i \in 0..(m - 1) /\ g[i] = f[i]
      BY <1>3, <2>2
    <3>2. i # 0 => i - 1 \in 0..m /\ i - 1 # m /\ g[i - 1] = f[i - 1]
      BY <1>3, <3>1
    <3>3. f[i] = IF i = 0 THEN 0 ELSE EndFrom(shape[i], f[i - 1])
      BY <1>4, <3>1
    <3> HIDE DEF g
    <3> QED
      BY <3>1, <3>2, <3>3
  <2> QED
    BY <2>1, <2>2
<1> QED
  BY <1>1, <1>6, <1>7

LEMMA PreparedEnds ==
    ASSUME NEW shape \in Shapes
    PROVE  \E end \in [0..Len(shape) -> Nat] :
             /\ end[0] = 0
             /\ Prepared(shape) = [i \in 1..Len(shape) |->
                  [start |-> end[i - 1], end |-> end[i], sub |-> shape[i].sub]]
<1> DEFINE end[i \in 0..Len(shape)] ==
             IF i = 0 THEN 0 ELSE EndFrom(shape[i], end[i - 1])
           IsEnd(f) == f = [i \in 0..Len(shape) |->
                              IF i = 0 THEN 0 ELSE EndFrom(shape[i], f[i - 1])]
<1>0. Len(shape) \in Nat
  BY ShapesAssumption
<1>1. end = CHOOSE f : IsEnd(f)
  OBVIOUS
<1>2. Prepared(shape) = [i \in 1..Len(shape) |->
        [start |-> end[i - 1], end |-> end[i], sub |-> shape[i].sub]]
  BY DEF Prepared
<1>3. PICK f \in [0..Len(shape) -> Nat] :
        \A i \in 0..Len(shape) : f[i] = IF i = 0 THEN 0 ELSE EndFrom(shape[i], f[i - 1])
  <2>1. Len(shape) \in 0..Len(shape)
    BY <1>0
  <2> QED
    BY <2>1, EndsExist
<1>4. IsEnd(f)
  BY <1>3
<1>5. IsEnd(end)
  <2> HIDE DEF end, IsEnd
  <2> QED
    BY <1>1, <1>4
<1> HIDE DEF end
<1>6. \A i \in 0..Len(shape) : end[i] = IF i = 0 THEN 0 ELSE EndFrom(shape[i], end[i - 1])
  BY <1>5
<1>7. end[0] = 0
  BY <1>0, <1>6
<1>8. \A i \in 0..Len(shape) : end[i] \in Nat
  <2> DEFINE Wrong == {i \in 0..Len(shape) : end[i] \notin Nat}
  <2> SUFFICES ASSUME Wrong # {} PROVE FALSE
    OBVIOUS
  <2>1. PICK i \in Wrong : \A j \in Wrong : i <= j
    <3>1. Wrong \subseteq Nat
      BY <1>0
    <3> HIDE DEF Wrong
    <3> QED
      BY <3>1, LeastNumber
  <2>2. i # 0
    BY <1>7, <2>1
  <2>3. i \in 1..Len(shape) /\ i - 1 \in 0..Len(shape) /\ i - 1 \notin Wrong
    BY <1>0, <2>1, <2>2
  <2>4. end[i - 1] \in Nat /\ end[i] = EndFrom(shape[i], end[i - 1])
    BY <1>6, <2>2, <2>3
  <2> QED
    BY <2>1, <2>3, <2>4, EndFromNat
<1>9. end \in [0..Len(shape) -> Nat]
  <2>1. end = [i \in 0..Len(shape) |-> IF i = 0 THEN 0 ELSE EndFrom(shape[i], end[i - 1])]
    BY <1>5
  <2> QED
    BY <1>8, <2>1
<1> QED
  BY <1>2, <1>7, <1>9

\* A path that was set has segments that follow one another, and so have the
\* paths in it.
LEMMA PreparedChain ==
    ASSUME NEW shape \in Shapes, Valid(Prepared(shape))
    PROVE  /\ Chain(Prepared(shape))
           /\ \A i \in DOMAIN Prepared(shape) :
                Prepared(shape)[i].sub # <<>> => Chain(Prepared(shape)[i].sub)
<1> DEFINE segs == Prepared(shape)
<1>1. PICK end \in [0..Len(shape) -> Nat] :
        /\ end[0] = 0
        /\ segs = [i \in 1..Len(shape) |->
             [start |-> end[i - 1], end |-> end[i], sub |-> shape[i].sub]]
  BY PreparedEnds
<1>2. Len(shape) \in Nat /\ DOMAIN shape = 1..Len(shape)
  BY ShapesAssumption, Elements
<1>3. Len(segs) = Len(shape) /\ DOMAIN segs = 1..Len(shape)
  BY <1>1, <1>2
<1>4. ASSUME NEW i \in 1..Len(shape)
      PROVE  /\ segs[i].start = end[i - 1] /\ end[i - 1] \in Nat
             /\ segs[i].end = end[i] /\ end[i] \in Nat
             /\ segs[i].sub = shape[i].sub
  BY <1>1, <1>2
<1> HIDE DEF segs
<1>5. segs # <<>> /\ \A i \in 1..Len(shape) : segs[i].end >= segs[i].start
  BY <1>3 DEF Valid, segs
<1>6. Len(shape) >= 1
  <2> SUFFICES ASSUME Len(shape) = 0 PROVE FALSE
    BY <1>2
  <2>1. shape = <<>>
    BY ShapesAssumption
  <2> QED
    BY <1>1, <1>2, <1>5, <2>1 DEF segs
<1>7. segs[1].start = 0
  BY <1>1, <1>2, <1>4, <1>6
<1>8. ASSUME NEW i \in 2..Len(shape) PROVE segs[i].start = segs[i - 1].end
  <2>1. i \in 1..Len(shape) /\ i - 1 \in 1..Len(shape)
    BY <1>2
  <2> QED
    BY <1>4, <2>1
<1>9. Chain(segs)
  BY <1>2, <1>3, <1>4, <1>5, <1>6, <1>7, <1>8 DEF Chain
<1>10. ASSUME NEW i \in 1..Len(shape), segs[i].sub # <<>> PROVE Chain(segs[i].sub)
  <2> DEFINE sub == segs[i].sub
  <2>1. shape \in Seq([kind : {"line", "constant", "path"}, x : Nat, sub : Flat])
    BY ShapesAssumption
  <2>2. shape[i] \in [kind : {"line", "constant", "path"}, x : Nat, sub : Flat]
    BY <2>1, Elements
  <2>3. sub = shape[i].sub /\ sub \in Flat /\ Contiguous(sub)
    BY <1>2, <1>4, <1>10, <2>2, ShapesAssumption
  <2>4. \A j \in DOMAIN sub : sub[j].end >= sub[j].start
    BY <1>3 DEF Valid, segs
  <2> HIDE DEF sub
  <2>5. /\ Len(sub) \in Nat /\ DOMAIN sub = 1..Len(sub)
        /\ \A j \in 1..Len(sub) : sub[j] \in [start : Nat, end : Nat, sub : {<<>>}]
    BY <2>3, Elements DEF Flat
  <2>6. \A j \in 1..Len(sub) : sub[j].start \in Nat /\ sub[j].end \in Nat
    BY <2>5
  <2>7. Len(sub) >= 1
    BY <2>3 DEF Contiguous, Flat
  <2>8. Chain(sub)
    BY <2>3, <2>4, <2>5, <2>6, <2>7 DEF Contiguous, Chain
  <2> QED
    BY <2>8 DEF sub
<1> QED
  BY <1>3, <1>9, <1>10 DEF segs

-----------------------------------------------------------------------------
(* One range                                                                  *)

\* The segments before a cursor end before a range begins, or the cursor will
\* be set back.
Cursor(segs, c) == c.index \in 1..Len(segs) /\ c.start \in Int
Behind(segs, c, at) == \A i \in 1..(c.index - 1) : segs[i].end <= at
Fits(segs, c, start) == start < c.start \/ Behind(segs, c, start)

LEMMA BehindLater ==
    ASSUME NEW segs, Chain(segs), NEW c, Cursor(segs, c), NEW a \in Int, NEW b \in Int,
           a <= b, Behind(segs, c, a)
    PROVE  Behind(segs, c, b)
<1> SUFFICES ASSUME NEW i \in 1..(c.index - 1) PROVE segs[i].end <= b
  BY DEF Behind
<1>1. segs[i].end \in Nat /\ segs[i].end <= a
  BY DEF Chain, Cursor, Behind
<1> QED
  BY <1>1

LEMMA Clipped ==
    ASSUME NEW s, s.start \in Int, s.end \in Int, NEW start \in Int, NEW end \in Int
    PROVE  /\ From(s, start) = IF s.start >= start THEN s.start ELSE start
           /\ To(s, end) = IF s.end <= end THEN s.end ELSE end
BY OfTwo DEF From, To

LEMMA PieceRight ==
    ASSUME NEW segs, Chain(segs), NEW c, Cursor(segs, c),
           NEW start \in Int, NEW end \in Int, NEW x \in Int, start <= x, x < end,
           Fits(segs, c, start)
    PROVE  PieceAt(segs, c, start, end, x) = On(segs, x)
<1> DEFINE covering == {i \in Parts(segs, c, start, end) :
                          From(segs[i], start) <= x /\ x < To(segs[i], end)}
           there == {i \in DOMAIN segs : segs[i].start <= x /\ x < segs[i].end}
<1>0. /\ Len(segs) \in Nat /\ DOMAIN segs = 1..Len(segs)
      /\ \A i \in 1..Len(segs) :
           segs[i].start \in Nat /\ segs[i].end \in Nat /\ segs[i].start <= segs[i].end
      /\ c.index \in 1..Len(segs) /\ c.start \in Int
  BY DEF Chain, Cursor
<1>1. First(c, start) \in 1..Len(segs)
  BY <1>0 DEF First
<1>2. ASSUME NEW i \in covering PROVE i \in there
  <2>1. i \in 1..Len(segs)
    BY <1>0, <1>1 DEF Parts, Rounds
  <2>2. From(segs[i], start) <= x /\ x < To(segs[i], end)
    OBVIOUS
  <2>3. /\ From(segs[i], start) = IF segs[i].start >= start THEN segs[i].start ELSE start
        /\ To(segs[i], end) = IF segs[i].end <= end THEN segs[i].end ELSE end
    BY <1>0, <2>1, Clipped
  <2>4. segs[i].start <= x /\ x < segs[i].end
    BY <1>0, <2>1, <2>2, <2>3
  <2> QED
    BY <1>0, <2>1, <2>4
<1>3. ASSUME NEW i \in there PROVE i \in covering
  <2>1. i \in 1..Len(segs) /\ segs[i].start <= x /\ x < segs[i].end
    BY <1>0
  <2>2. First(c, start) <= i
    <3>1. CASE start < c.start
      BY <1>0, <2>1, <3>1 DEF First
    <3>2. CASE ~(start < c.start)
      <4>1. First(c, start) = c.index /\ Behind(segs, c, start)
        BY <3>2 DEF First, Fits
      <4>2. i \in 1..(c.index - 1) => segs[i].end <= start
        BY <4>1 DEF Behind
      <4> QED
        BY <1>0, <2>1, <4>1, <4>2
    <3> QED
      BY <3>1, <3>2
  <2>3. ASSUME NEW j \in First(c, start)..i PROVE segs[j].start <= end
    <3>1. j \in 1..Len(segs) /\ (j = i \/ j < i)
      BY <1>0, <1>1, <2>1
    <3>2. j < i => segs[j].end <= segs[i].start
      BY <2>1, <3>1, Ordered
    <3> QED
      BY <1>0, <2>1, <3>1, <3>2
  <2>4. i \in Rounds(segs, c, start, end)
    BY <1>0, <1>1, <2>1, <2>2, <2>3 DEF Rounds
  <2>5. i \in Parts(segs, c, start, end)
    BY <1>0, <2>1, <2>4 DEF Parts
  <2>6. From(segs[i], start) <= x /\ x < To(segs[i], end)
    <3>1. /\ From(segs[i], start) = IF segs[i].start >= start THEN segs[i].start ELSE start
          /\ To(segs[i], end) = IF segs[i].end <= end THEN segs[i].end ELSE end
      BY <1>0, <2>1, Clipped
    <3> QED
      BY <1>0, <2>1, <3>1
  <2> QED
    BY <2>5, <2>6
<1>4. covering = there
  BY <1>2, <1>3
<1> QED
  BY <1>4 DEF PieceAt, On

LEMMA AdvanceBehind ==
    ASSUME NEW segs, Chain(segs), NEW c, Cursor(segs, c),
           NEW start \in Int, NEW end \in Nat, start <= end, Fits(segs, c, start)
    PROVE  /\ Cursor(segs, Advance(segs, c, start, end))
           /\ Behind(segs, Advance(segs, c, start, end), end)
<1> DEFINE done == Rounds(segs, c, start, end)
           d == Advance(segs, c, start, end)
<1>0. /\ Len(segs) \in Nat /\ Len(segs) >= 1 /\ segs[1].start = 0
      /\ \A i \in 1..Len(segs) : segs[i].start \in Nat /\ segs[i].end \in Nat
      /\ c.index \in 1..Len(segs) /\ c.start \in Int
  BY DEF Chain, Cursor
<1>1. First(c, start) \in 1..Len(segs)
  BY <1>0 DEF First
<1>2. d.start = start /\ d.index = IF done = {} THEN c.index ELSE Max(done)
  BY DEF Advance
<1>3. CASE done = {}
  <2>1. First(c, start) # 1
    <3> SUFFICES ASSUME First(c, start) = 1 PROVE FALSE
      OBVIOUS
    <3>1. 1 \in 1..Len(segs) /\ \A j \in 1..1 : segs[j].start <= end
      BY <1>0
    <3>2. 1 \in done
      BY <3>1 DEF Rounds
    <3> QED
      BY <1>3, <3>2
  <2>2. Behind(segs, c, start) /\ d.index = c.index
    BY <1>2, <1>3, <2>1 DEF First, Fits
  <2>3. Behind(segs, c, end)
    BY <2>2, BehindLater
  <2> QED
    BY <1>0, <1>2, <2>2, <2>3 DEF Cursor, Behind
<1>4. CASE done # {}
  <2>1. done \subseteq 1..Len(segs)
    BY <1>0, <1>1 DEF Rounds
  <2> DEFINE m == Max(done)
  <2>2. m \in done /\ m \in 1..Len(segs)
    BY <1>0, <1>4, <2>1, Greatest
  <2> HIDE DEF m
  <2>3. m \in First(c, start)..Len(segs) /\ segs[m].start <= end
    BY <1>0, <1>1, <2>2 DEF Rounds
  <2>4. ASSUME NEW i \in 1..(m - 1) PROVE segs[i].end <= end
    <3>1. i \in 1..Len(segs) /\ i < m
      BY <1>0, <2>2
    <3>2. segs[i].end <= segs[m].start
      BY <2>2, <3>1, Ordered
    <3> QED
      BY <1>0, <2>2, <2>3, <3>1, <3>2
  <2>5. d.index = m
    BY <1>2, <1>4 DEF m
  <2>6. Cursor(segs, d)
    BY <1>2, <2>2, <2>5 DEF Cursor
  <2>7. Behind(segs, d, end)
    BY <2>4, <2>5 DEF Behind
  <2> QED
    BY <2>6, <2>7
<1> QED
  BY <1>3, <1>4

-----------------------------------------------------------------------------
(* Range after range                                                          *)

PathInv ==
    /\ Chain(segments)
    /\ \A i \in DOMAIN segments : segments[i].sub # <<>> => Chain(segments[i].sub)

\* The cursor of a copy follows its own ranges.
CopyInv ==
    /\ DOMAIN cursor = Users /\ last \in [Users -> Nat]
    /\ \A u \in Users : Cursor(segments, cursor[u]) /\ Behind(segments, cursor[u], last[u])

\* That of a nested path follows those of all copies.
NestedInv ==
    \A i \in DOMAIN segments : segments[i].sub # <<>> =>
      /\ Cursor(segments[i].sub, nested[i])
      /\ \A at \in Nat : (\A v \in Users : last[v] <= at) =>
           Behind(segments[i].sub, nested[i], at - segments[i].start)

ForwardInv == PathInv /\ CopyInv /\ NestedInv /\ GetComplete

LEMMA AtStartBehind ==
    ASSUME NEW segs, Chain(segs)
    PROVE  Cursor(segs, AtStart) /\ \A at \in Int : Behind(segs, AtStart, at)
BY DEF Chain, Cursor, Behind, AtStart

LEMMA ForwardInitial == SplineInit => ForwardInv
<1> SUFFICES ASSUME SplineInit PROVE ForwardInv
  OBVIOUS
<1>1. PathInv
  BY PreparedChain DEF SplineInit, PathInv
<1>2. CopyInv
  BY <1>1, AtStartBehind DEF SplineInit, PathInv, CopyInv
<1>3. NestedInv
  <2> SUFFICES ASSUME NEW i \in DOMAIN segments, segments[i].sub # <<>>
               PROVE  /\ Cursor(segments[i].sub, nested[i])
                      /\ \A at \in Nat : Behind(segments[i].sub, nested[i], at - segments[i].start)
    BY DEF NestedInv
  <2>1. Chain(segments[i].sub) /\ nested[i] = AtStart /\ segments[i].start \in Int
    BY <1>1 DEF PathInv, Chain, SplineInit
  <2> QED
    BY <2>1, AtStartBehind
<1>4. GetComplete
  BY DEF SplineInit, NoRange, GetComplete
<1> QED
  BY <1>1, <1>2, <1>3, <1>4 DEF ForwardInv

\* What a range in the order of the program finds in front of it.
LEMMA GetFits ==
    ASSUME Discipline = "all", ForwardInv, NEW u \in Users, NEW start \in Nat,
           MayGet(u, start)
    PROVE  /\ Fits(segments, cursor[u], start)
           /\ \A i \in DOMAIN segments : segments[i].sub # <<>> =>
                /\ \A v \in Users : last[v] <= start
                /\ Behind(segments[i].sub, nested[i], start - segments[i].start)
<1>0. /\ Chain(segments) /\ Cursor(segments, cursor[u]) /\ last[u] \in Nat
      /\ \A v \in Users : last[v] \in Nat
      /\ Behind(segments, cursor[u], last[u])
  BY DEF ForwardInv, PathInv, CopyInv
<1>1. (HasNested /\ \A v \in Users : start >= last[v])
      \/ (~HasNested /\ (start >= last[u] \/ start < cursor[u].start))
  BY DEF MayGet
<1>2. start >= last[u] \/ start < cursor[u].start
  BY <1>1
<1>3. Fits(segments, cursor[u], start)
  BY <1>0, <1>2, BehindLater DEF Fits
<1>4. ASSUME NEW i \in DOMAIN segments, segments[i].sub # <<>>
      PROVE  /\ \A v \in Users : last[v] <= start
             /\ Behind(segments[i].sub, nested[i], start - segments[i].start)
  <2>1. \A v \in Users : last[v] <= start
    BY <1>0, <1>1, <1>4 DEF HasNested
  <2> QED
    BY <1>4, <2>1 DEF ForwardInv, NestedInv
<1> QED
  BY <1>3, <1>4

\* The part of a range that goes to a nested path.
LEMMA PartOfRange ==
    ASSUME NEW segs, Chain(segs), NEW i \in 1..Len(segs), NEW start \in Nat, NEW end \in Nat,
           start < end, segs[i].start <= end, start <= segs[i].end
    PROVE  LET a == From(segs[i], start) - segs[i].start
               b == To(segs[i], end) - segs[i].start
           IN  /\ a \in Nat /\ b \in Nat /\ a <= b
               /\ start - segs[i].start <= a /\ b <= end - segs[i].start
<1>0. segs[i].start \in Nat /\ segs[i].end \in Nat /\ segs[i].start <= segs[i].end
  BY DEF Chain
<1>1. /\ From(segs[i], start) = IF segs[i].start >= start THEN segs[i].start ELSE start
      /\ To(segs[i], end) = IF segs[i].end <= end THEN segs[i].end ELSE end
  BY <1>0, Clipped
<1> QED
  BY <1>0, <1>1

LEMMA PartsWithin ==
    ASSUME NEW segs, Chain(segs), NEW c, Cursor(segs, c), NEW start, NEW end,
           NEW i \in Parts(segs, c, start, end)
    PROVE  i \in 1..Len(segs) /\ segs[i].start <= end /\ start <= segs[i].end
<1>0. Len(segs) \in Nat /\ First(c, start) \in 1..Len(segs)
  BY DEF Chain, Cursor, First
<1>1. i \in Rounds(segs, c, start, end) /\ segs[i].end >= start
  BY DEF Parts
<1>2. i \in First(c, start)..Len(segs) /\ \A j \in First(c, start)..i : segs[j].start <= end
  BY <1>1 DEF Rounds
<1> QED
  BY <1>0, <1>1, <1>2

\* The cursor of a nested path still fits after it got a part of the range.
LEMMA NestedFits ==
    ASSUME NEW segs, Chain(segs), NEW i \in 1..Len(segs), Chain(segs[i].sub),
           NEW c, Cursor(segs[i].sub, c), NEW start \in Nat, NEW end \in Nat, start < end,
           segs[i].start <= end, start <= segs[i].end,
           Behind(segs[i].sub, c, start - segs[i].start)
    PROVE  LET a == From(segs[i], start) - segs[i].start
               b == To(segs[i], end) - segs[i].start
           IN  /\ Fits(segs[i].sub, c, a)
               /\ Cursor(segs[i].sub, Advance(segs[i].sub, c, a, b))
               /\ Behind(segs[i].sub, Advance(segs[i].sub, c, a, b), end - segs[i].start)
<1> DEFINE a == From(segs[i], start) - segs[i].start
           b == To(segs[i], end) - segs[i].start
<1>0. segs[i].start \in Nat /\ start - segs[i].start \in Int /\ end - segs[i].start \in Int
  BY DEF Chain
<1>1. /\ a \in Nat /\ b \in Nat /\ a <= b
      /\ start - segs[i].start <= a /\ b <= end - segs[i].start
  BY PartOfRange
<1> HIDE DEF a, b
<1>2. Fits(segs[i].sub, c, a)
  BY <1>0, <1>1, BehindLater DEF Fits
<1>3. /\ Cursor(segs[i].sub, Advance(segs[i].sub, c, a, b))
      /\ Behind(segs[i].sub, Advance(segs[i].sub, c, a, b), b)
  BY <1>1, <1>2, AdvanceBehind
<1>4. Behind(segs[i].sub, Advance(segs[i].sub, c, a, b), end - segs[i].start)
  BY <1>0, <1>1, <1>3, BehindLater
<1> QED
  BY <1>2, <1>3, <1>4 DEF a, b

\* What is written for x is the value of the path there.
LEMMA WrittenRight ==
    ASSUME Discipline = "all", ForwardInv, NEW u \in Users, NEW start \in Nat,
           NEW end \in Nat, start < end, MayGet(u, start), NEW x \in start..(end - 1)
    PROVE  Written(cursor[u], start, end, x) = ValueAt(x)
<1> DEFINE c == cursor[u]
           i == PieceAt(segments, c, start, end, x)
<1>0. Chain(segments) /\ Cursor(segments, c) /\ Fits(segments, c, start)
  BY GetFits DEF ForwardInv, PathInv, CopyInv
<1>1. i = On(segments, x)
  BY <1>0, PieceRight
<1>2. CASE i = 0
  BY <1>1, <1>2 DEF Written, ValueAt
<1>3. CASE i # 0 /\ segments[i].sub = <<>>
  BY <1>1, <1>3 DEF Written, ValueAt
<1>4. CASE i # 0 /\ segments[i].sub # <<>>
  <2> DEFINE covering == {k \in Parts(segments, c, start, end) :
                            From(segments[k], start) <= x /\ x < To(segments[k], end)}
             s == segments[i]
             a == From(s, start) - s.start
             b == To(s, end) - s.start
             j == PieceAt(s.sub, nested[i], a, b, x - s.start)
  <2>1. i \in covering
    <3>1. covering # {} /\ i = Max(covering)
      BY <1>4 DEF PieceAt
    <3>2. covering \subseteq 1..Len(segments)
      BY <1>0, PartsWithin
    <3>3. Len(segments) \in Nat
      BY <1>0 DEF Chain
    <3> QED
      BY <3>1, <3>2, <3>3, Greatest
  <2>2. i \in Parts(segments, c, start, end) /\ From(s, start) <= x /\ x < To(s, end)
    BY <2>1
  <2>3. i \in 1..Len(segments) /\ s.start <= end /\ start <= s.end
    BY <1>0, <2>2, PartsWithin
  <2>4. /\ i \in DOMAIN segments /\ s.start \in Nat
        /\ Chain(s.sub) /\ Cursor(s.sub, nested[i])
        /\ Behind(s.sub, nested[i], start - s.start)
    BY <1>0, <1>4, <2>3, GetFits DEF ForwardInv, PathInv, NestedInv, Chain
  <2>5. Fits(s.sub, nested[i], a)
    BY <1>0, <2>3, <2>4, NestedFits
  <2>6. a \in Nat /\ b \in Nat
    BY <1>0, <2>3, PartOfRange
  <2>7. x - s.start \in Int /\ a <= x - s.start /\ x - s.start < b
    <3>1. From(s, start) = a + s.start /\ To(s, end) = b + s.start
      <4>1. From(s, start) \in Int /\ To(s, end) \in Int
        BY <1>0, <2>3, Clipped DEF Chain
      <4> QED
        BY <2>4, <4>1
    <3> HIDE DEF a, b, s
    <3> QED
      BY <2>2, <2>4, <2>6, <3>1
  <2>8. j = On(s.sub, x - s.start)
    BY <2>4, <2>5, <2>6, <2>7, PieceRight
  <2> QED
    BY <1>1, <1>4, <2>8 DEF Written, ValueAt
<1> QED
  BY <1>2, <1>3, <1>4

LEMMA GetKeeps ==
    ASSUME Discipline = "all", ForwardInv, NEW u \in Users, NEW start \in Nat,
           NEW end \in Nat, start < end, Get(u, start, end)
    PROVE  ForwardInv'
<1> DEFINE c == cursor[u]
<1>0. /\ MayGet(u, start) /\ segments' = segments
      /\ cursor' = [cursor EXCEPT ![u] = Advance(segments, c, start, end)]
      /\ last' = [last EXCEPT ![u] = end]
      /\ got' = [start |-> start, end |-> end,
                 out |-> [x \in start..(end - 1) |-> Written(c, start, end, x)]]
  BY DEF Get
<1>1. /\ Chain(segments) /\ DOMAIN segments = 1..Len(segments)
      /\ Cursor(segments, c) /\ Fits(segments, c, start)
      /\ DOMAIN cursor = Users /\ last \in [Users -> Nat]
  BY <1>0, GetFits DEF ForwardInv, PathInv, CopyInv, Chain
<1>2. PathInv'
  BY <1>0 DEF ForwardInv, PathInv
<1>3. CopyInv'
  <2>1. /\ Cursor(segments, Advance(segments, c, start, end))
        /\ Behind(segments, Advance(segments, c, start, end), end)
    BY <1>1, AdvanceBehind
  <2>2. ASSUME NEW v \in Users
        PROVE  Cursor(segments, cursor'[v]) /\ Behind(segments, cursor'[v], last'[v])
    BY <1>0, <1>1, <2>1 DEF ForwardInv, CopyInv
  <2>3. DOMAIN cursor' = Users /\ last' \in [Users -> Nat]
    BY <1>0, <1>1
  <2> QED
    BY <1>0, <2>2, <2>3 DEF CopyInv
<1>4. ASSUME NEW i \in DOMAIN segments, segments[i].sub # <<>>
      PROVE  /\ Cursor(segments[i].sub, nested'[i])
             /\ \A at \in Nat : (\A v \in Users : last'[v] <= at) =>
                  Behind(segments[i].sub, nested'[i], at - segments[i].start)
  <2> DEFINE s == segments[i]
             a == From(s, start) - s.start
             b == To(s, end) - s.start
  <2>1. nested'[i] = IF i \in Parts(segments, c, start, end)
                     THEN Advance(s.sub, nested[i], a, b) ELSE nested[i]
    BY <1>4 DEF Get
  <2>2. /\ Chain(s.sub) /\ Cursor(s.sub, nested[i]) /\ s.start \in Nat
        /\ \A v \in Users : last[v] <= start
        /\ Behind(s.sub, nested[i], start - s.start)
    BY <1>0, <1>1, <1>4, GetFits DEF ForwardInv, PathInv, NestedInv, Chain
  <2>3. last'[u] = end
    BY <1>0, <1>1
  <2>4. CASE i \in Parts(segments, c, start, end)
    <3> DEFINE d == Advance(s.sub, nested[i], a, b)
    <3>1. i \in 1..Len(segments) /\ s.start <= end /\ start <= s.end
      BY <1>1, <2>4, PartsWithin
    <3>2. Cursor(s.sub, d) /\ Behind(s.sub, d, end - s.start)
      BY <1>1, <2>2, <3>1, NestedFits
    <3>3. nested'[i] = d
      BY <2>1, <2>4
    <3> HIDE DEF s, d
    <3>4. ASSUME NEW at \in Nat, \A v \in Users : last'[v] <= at
          PROVE  Behind(s.sub, d, at - s.start)
      <4>1. end - s.start \in Int /\ at - s.start \in Int /\ end - s.start <= at - s.start
        BY <2>2, <2>3, <3>4
      <4> QED
        BY <2>2, <3>2, <4>1, BehindLater
    <3> QED
      BY <3>2, <3>3, <3>4 DEF s
  <2>5. CASE i \notin Parts(segments, c, start, end)
    <3>1. nested'[i] = nested[i]
      BY <2>1, <2>5
    <3> HIDE DEF s
    <3>2. ASSUME NEW at \in Nat, \A v \in Users : last'[v] <= at
          PROVE  Behind(s.sub, nested[i], at - s.start)
      <4>1. /\ start - s.start \in Int /\ at - s.start \in Int
            /\ start - s.start <= at - s.start
        BY <2>2, <2>3, <3>2
      <4> QED
        BY <2>2, <4>1, BehindLater
    <3> QED
      BY <2>2, <3>1, <3>2 DEF s
  <2> QED
    BY <2>4, <2>5
<1>5. NestedInv'
  BY <1>0, <1>4 DEF NestedInv
<1>6. GetComplete'
  <2>1. \A x \in start..(end - 1) : Written(c, start, end, x) = ValueAt(x)
    BY <1>0, WrittenRight
  <2>2. \A x : ValueAt(x)' = ValueAt(x)
    BY <1>0 DEF ValueAt
  <2>3. got'.start = start /\ got'.end = end
        /\ got'.out = [x \in start..(end - 1) |-> ValueAt(x)]
    BY <1>0, <2>1
  <2> QED
    BY <2>2, <2>3 DEF GetComplete
<1> QED
  BY <1>2, <1>3, <1>5, <1>6 DEF ForwardInv

LEMMA SetAgainKeeps ==
    ASSUME Discipline = "all", ForwardInv, NEW u \in Users, SetAgain(u)
    PROVE  ForwardInv'
<1>0. /\ ~HasNested /\ UNCHANGED <<segments, nested, got>>
      /\ cursor' = [cursor EXCEPT ![u] = AtStart] /\ last' = [last EXCEPT ![u] = 0]
  BY DEF SetAgain
<1>1. PathInv' /\ Chain(segments)
  BY <1>0 DEF ForwardInv, PathInv
<1>2. CopyInv'
  <2>1. Cursor(segments, AtStart) /\ Behind(segments, AtStart, 0)
    BY <1>1, AtStartBehind
  <2>2. ASSUME NEW v \in Users
        PROVE  Cursor(segments, cursor'[v]) /\ Behind(segments, cursor'[v], last'[v])
    BY <1>0, <2>1 DEF ForwardInv, CopyInv
  <2>3. DOMAIN cursor' = Users /\ last' \in [Users -> Nat]
    BY <1>0 DEF ForwardInv, CopyInv
  <2> QED
    BY <1>0, <2>2, <2>3 DEF CopyInv
<1>3. NestedInv'
  BY <1>0 DEF NestedInv, HasNested
<1>4. GetComplete'
  BY <1>0 DEF ForwardInv, GetComplete, ValueAt
<1> QED
  BY <1>1, <1>2, <1>3, <1>4 DEF ForwardInv

LEMMA ForwardStep ==
    ASSUME Discipline = "all", ForwardInv, [SplineNext]_splineVars
    PROVE  ForwardInv'
<1>1. CASE UNCHANGED splineVars
  BY <1>1 DEF splineVars, ForwardInv, PathInv, CopyInv, NestedInv, GetComplete, ValueAt
<1>2. ASSUME NEW u \in Users, SetAgain(u) PROVE ForwardInv'
  BY <1>2, SetAgainKeeps
<1>3. ASSUME NEW u \in Users, NEW start \in 0..Horizon, NEW end \in 0..Horizon,
             start < end, Get(u, start, end)
      PROVE  ForwardInv'
  <2>1. start \in Nat /\ end \in Nat
    BY SplineAssumption
  <2> QED
    BY <1>3, <2>1, GetKeeps
<1> QED
  BY <1>1, <1>2, <1>3 DEF SplineNext

\* Programs that sample forward get every value of every range, whatever the
\* path and the paths in it are, and however many copies share them
\* (spline-path.c:120-145).
THEOREM ForwardIsComplete ==
    ASSUME Discipline = "all"
    PROVE  SplineSpec => []GetComplete
<1>1. SplineInit => ForwardInv
  BY ForwardInitial
<1>2. ForwardInv /\ [SplineNext]_splineVars => ForwardInv'
  BY ForwardStep
<1>3. ForwardInv => GetComplete
  BY DEF ForwardInv
<1> QED
  BY <1>1, <1>2, <1>3, PTL DEF SplineSpec
=============================================================================
