---------------------------- MODULE NumberProofs ----------------------------
(* Theorems about Random, Bezier, TableSize and Strings: bounded random      *)
(* numbers are uniform, the points drawn of a curve leave no gap, tables are *)
(* made with a power of two of slots, a mask for them and all their memory,  *)
(* and strings are written exactly.                                          *)
EXTENDS Random, Bezier, TableSize, Strings, WellFoundedInduction,
        FiniteSetTheorems, SequenceTheorems, TLAPS

-----------------------------------------------------------------------------
(* Numbers and their multiples                                               *)

LEMMA DivMod ==
    ASSUME NEW a \in Nat, NEW b \in Nat \ {0}
    PROVE  /\ a \div b \in Nat /\ a % b \in 0..(b - 1)
           /\ a = b * (a \div b) + (a % b)
OBVIOUS

LEMMA TimesNat ==
    ASSUME NEW a \in Nat, NEW b \in Nat PROVE a * b \in Nat
OBVIOUS

LEMMA TimesLess ==
    ASSUME NEW a \in Nat, NEW b \in Nat, NEW c \in Nat, a <= b
    PROVE  a * c <= b * c
OBVIOUS

LEMMA TimesNext ==
    ASSUME NEW a \in Nat, NEW b \in Nat, NEW c \in Int
    PROVE  /\ (a + 1) * b = a * b + b
           /\ b * (a + 1) = b * a + b
           /\ (a + b) * c = a * c + b * c
           /\ a * b = b * a
OBVIOUS

LEMMA DivUnique ==
    ASSUME NEW b \in Nat \ {0}, NEW q \in Nat, NEW m \in 0..(b - 1)
    PROVE  (b * q + m) \div b = q /\ (b * q + m) % b = m
<1>1. PICK a \in Nat : a = b * q + m
  <2>1. b * q \in Nat
    BY TimesNat
  <2> QED BY <2>1
<1>2. PICK d \in Nat, e \in 0..(b - 1) : d = a \div b /\ e = a % b /\ a = b * d + e
  BY <1>1, DivMod
<1>3. ASSUME NEW k \in Nat, NEW h \in Nat, NEW x \in 0..(b - 1), NEW y \in 0..(b - 1),
             b * k + x = b * h + y
      PROVE  ~(k < h)
  <2> SUFFICES ASSUME k < h PROVE FALSE
    OBVIOUS
  <2>1. k + 1 \in Nat /\ k + 1 <= h
    OBVIOUS
  <2>2. (k + 1) * b <= h * b
    BY <2>1, TimesLess
  <2>3. (k + 1) * b = k * b + b /\ k * b = b * k /\ h * b = b * h
    BY TimesNext
  <2>4. b * k \in Nat /\ b * h \in Nat
    BY TimesNat
  <2> QED BY <1>3, <2>2, <2>3, <2>4
<1>4. d = q
  <2>1. ~(d < q) /\ ~(q < d)
    BY <1>1, <1>2, <1>3
  <2> QED BY <2>1
<1>5. b * q \in Nat
  BY TimesNat
<1>6. e = m
  BY <1>1, <1>2, <1>4, <1>5
<1> QED BY <1>1, <1>2, <1>4, <1>6

\* A set of natural numbers has a least one.
LEMMA LeastNumber ==
    ASSUME NEW S, S \subseteq Nat, S # {}
    PROVE  \E m \in S : \A n \in S : m <= n
<1> DEFINE Less == {p \in Nat \X Nat : p[1] < p[2]}
<1>1. IsWellFoundedOn(Less, Nat)
  BY NatLessThanWellFounded DEF OpToRel
<1>2. PICK m \in S : \A n \in S : <<n, m>> \notin Less
  BY <1>1, WFMin
<1>3. ASSUME NEW n \in S PROVE m <= n
  <2>1. <<n, m>> \in Nat \X Nat /\ <<n, m>>[1] = n /\ <<n, m>>[2] = m
    OBVIOUS
  <2>2. ~(n < m)
    BY <1>2, <2>1
  <2> QED
    BY <2>2
<1> QED
  BY <1>3

\* What holds of 0 and of each number up to n if it holds of the one before it.
LEMMA UpFromZero ==
    ASSUME NEW n \in Nat, NEW S, 0 \in S, \A k \in 1..n : k - 1 \in S => k \in S
    PROVE  0..n \subseteq S
<1> DEFINE Missing == {k \in 0..n : k \notin S}
<1> SUFFICES ASSUME Missing # {} PROVE FALSE
  OBVIOUS
<1>1. PICK m \in Missing : \A k \in Missing : m <= k
  <2>1. Missing \subseteq Nat
    OBVIOUS
  <2> HIDE DEF Missing
  <2> QED BY <2>1, LeastNumber
<1>2. m \in 1..n /\ m - 1 \in 0..n /\ ~(m <= m - 1)
  BY <1>1
<1>3. m - 1 \in S
  BY <1>1, <1>2
<1> QED BY <1>1, <1>2, <1>3

\* f has a value for each number up to n, made from the one before.
Iterates(f, n, base, next) == f[0] = base /\ \A k \in 1..n : f[k] = next[k][f[k - 1]]

LEMMA RecursionExists ==
    ASSUME NEW n \in Nat, NEW T, NEW base \in T, NEW next \in [1..n -> [T -> T]]
    PROVE  \E f \in [0..n -> T] : Iterates(f, n, base, next)
<1> DEFINE Walk(m, f) == f[0] = base /\ \A k \in 1..m : f[k] = next[k][f[k - 1]]
           S == {m \in 0..n : \E f \in [0..m -> T] : Walk(m, f)}
<1>1. 0 \in S
  <2>1. PICK f \in [0..0 -> T] : f[0] = base
    <3>1. [k \in 0..0 |-> base] \in [0..0 -> T] /\ [k \in 0..0 |-> base][0] = base
      OBVIOUS
    <3> QED BY <3>1
  <2>2. Walk(0, f) /\ 0 \in 0..n
    BY <2>1
  <2> HIDE DEF Walk
  <2> QED BY <2>2
<1>2. ASSUME NEW m \in 1..n, m - 1 \in S PROVE m \in S
  <2>1. PICK f \in [0..(m - 1) -> T] : Walk(m - 1, f)
    BY <1>2
  <2> DEFINE g == [k \in 0..m |-> IF k = m THEN next[m][f[m - 1]] ELSE f[k]]
  <2>2. f[m - 1] \in T /\ next[m] \in [T -> T]
    OBVIOUS
  <2>3. g \in [0..m -> T]
    <3>1. \A k \in 0..m : k # m => k \in 0..(m - 1)
      OBVIOUS
    <3> QED BY <2>2, <3>1
  <2>4. g[0] = base
    <3>1. 0 \in 0..m /\ 0 # m /\ f[0] = base
      BY <2>1
    <3> QED BY <3>1
  <2>5. ASSUME NEW k \in 1..m PROVE g[k] = next[k][g[k - 1]]
    <3>1. k - 1 \in 0..(m - 1) /\ k - 1 \in 0..m /\ k - 1 # m
      OBVIOUS
    <3>2. g[k - 1] = f[k - 1]
      BY <3>1
    <3>3. CASE k = m
      <4>1. m \in 0..m /\ g[m] = next[m][f[m - 1]]
        OBVIOUS
      <4> HIDE DEF g
      <4> QED BY <3>2, <3>3, <4>1
    <3>4. CASE k # m
      <4>1. k \in 1..(m - 1) /\ g[k] = f[k]
        BY <3>4
      <4>2. f[k] = next[k][f[k - 1]]
        BY <2>1, <4>1
      <4> QED BY <3>2, <4>1, <4>2
    <3> QED BY <3>3, <3>4
  <2>6. Walk(m, g)
    <3> HIDE DEF g
    <3> QED BY <2>4, <2>5
  <2> HIDE DEF g, Walk
  <2> QED BY <2>3, <2>6
<1>3. 0..n \subseteq S
  <2> HIDE DEF S
  <2> QED BY <1>1, <1>2, UpFromZero
<1>4. n \in S
  <2> HIDE DEF S
  <2> QED BY <1>3
<1>5. PICK f \in [0..n -> T] : Walk(n, f)
  BY <1>4
<1> QED BY <1>5 DEF Iterates

-----------------------------------------------------------------------------
(* Random                                                                  *)

\* An interval as long as n multiples of c contains n of them.
LEMMA MultiplesBetween ==
    ASSUME NEW c \in Nat \ {0}, NEW low \in Nat, NEW n \in Nat,
           NEW S, S = {x \in Nat : low <= x * c /\ x * c < low + n * c}
    PROVE  IsFiniteSet(S) /\ Cardinality(S) = n
<1>1. PICK first \in Nat : low <= first * c /\ first * c < low + c
  <2>1. PICK d \in Nat, e \in 0..(c - 1) : low = c * d + e
    BY DivMod
  <2>2. d * c = c * d /\ (d + 1) * c = c * d + c /\ c * d \in Nat /\ d + 1 \in Nat
    BY TimesNext, TimesNat
  <2>3. CASE e = 0
    BY <2>1, <2>2, <2>3
  <2>4. CASE e # 0
    <3>1. low <= (d + 1) * c /\ (d + 1) * c < low + c
      BY <2>1, <2>2, <2>4
    <3> QED BY <2>2, <3>1
  <2> QED BY <2>3, <2>4
<1>2. S = first..(first + n - 1)
  <2>1. ASSUME NEW x \in Nat PROVE low <= x * c <=> first <= x
    <3>1. ASSUME first <= x PROVE low <= x * c
      <4>1. first * c <= x * c
        BY <3>1, TimesLess
      <4>2. first * c \in Nat /\ x * c \in Nat
        BY TimesNat
      <4> QED BY <1>1, <4>1, <4>2
    <3>2. ASSUME x < first PROVE x * c < low
      <4>1. x + 1 \in Nat /\ x + 1 <= first
        BY <3>2
      <4>2. (x + 1) * c <= first * c /\ (x + 1) * c = x * c + c
        BY <4>1, TimesLess, TimesNext
      <4>3. first * c \in Nat /\ x * c \in Nat
        BY TimesNat
      <4> QED BY <1>1, <4>2, <4>3
    <3>3. x * c \in Nat
      BY TimesNat
    <3> QED BY <3>1, <3>2, <3>3
  <2>2. ASSUME NEW x \in Nat PROVE x * c < low + n * c <=> x < first + n
    <3>0. first * c \in Nat /\ x * c \in Nat /\ n * c \in Nat /\ (first + n) * c = first * c + n * c
      BY TimesNat, TimesNext
    <3>1. ASSUME first + n <= x PROVE low + n * c <= x * c
      <4>1. (first + n) * c <= x * c
        BY <3>1, TimesLess
      <4> QED BY <1>1, <3>0, <4>1
    <3>2. ASSUME x < first + n PROVE x * c < low + n * c
      <4>1. x + 1 \in Nat /\ x + 1 <= first + n /\ first + n \in Nat
        BY <3>2
      <4>2. (x + 1) * c <= (first + n) * c
        BY <4>1, TimesLess
      <4>3. (x + 1) * c = x * c + c
        BY TimesNext
      <4> QED BY <1>1, <3>0, <4>2, <4>3
    <3> QED BY <3>0, <3>1, <3>2
  <2>3. \A x \in first..(first + n - 1) : x \in Nat /\ first <= x /\ x < first + n
    OBVIOUS
  <2>4. \A x \in Nat : first <= x /\ x < first + n => x \in first..(first + n - 1)
    OBVIOUS
  <2> QED BY <2>1, <2>2, <2>3, <2>4
<1>3. first \in Int /\ first + n - 1 \in Int
  OBVIOUS
<1>4. IsFiniteSet(S) /\ Cardinality(S) = IF first > first + n - 1 THEN 0 ELSE (first + n - 1) - first + 1
  BY <1>2, <1>3, FS_Interval
<1> QED BY <1>4

-----------------------------------------------------------------------------
(* Bounded random numbers                                                    *)

\* The threshold is what a word is larger than a multiple of the bound.
LEMMA ThresholdIsRest ==
    ASSUME NEW range \in 1..(WordSize - 1)
    PROVE  Threshold(range) = WordSize % range
<1>1. WordSize \in Nat /\ range \in Nat \ {0} /\ range < WordSize
  BY RandomAssumption
<1>2. PICK t \in Nat : t = WordSize - range /\ t < WordSize
  BY <1>1
<1>3. (WordSize - range) % WordSize = t
  <2>1. WordSize * 0 + t = t /\ t \in 0..(WordSize - 1) /\ WordSize \in Nat \ {0}
    BY <1>1, <1>2
  <2>2. (WordSize * 0 + t) % WordSize = t
    BY <2>1, DivUnique
  <2> QED BY <1>2, <2>1, <2>2
<1>4. Threshold(range) = IF t >= range
                         THEN IF t - range >= range THEN (t - range) % range ELSE t - range
                         ELSE t
  BY <1>2, <1>3 DEF Threshold
<1>5. PICK q \in Nat, m \in 0..(range - 1) : WordSize = range * q + m /\ m = WordSize % range
  BY <1>1, DivMod
<1>6. ASSUME NEW u \in Nat, NEW k \in Nat, u = WordSize - range * k, u < range
      PROVE  u = m
  <2>1. range * k \in Nat /\ range * q \in Nat
    BY <1>1, TimesNat
  <2>2. u \in 0..(range - 1) /\ WordSize = range * k + u
    BY <1>1, <1>6, <2>1
  <2>3. (range * k + u) % range = u
    BY <1>1, <2>2, DivUnique
  <2> QED BY <1>5, <2>2, <2>3
<1>7. range * 1 = range /\ range * 2 = range + range
  BY <1>1
<1>8. CASE t < range
  <2>1. t = WordSize - range * 1
    BY <1>2, <1>7
  <2>2. t = m
    BY <1>6, <1>8, <2>1
  <2> QED BY <1>1, <1>2, <1>4, <1>5, <1>8, <2>2
<1>9. CASE t >= range
  <2>1. PICK u \in Nat : u = t - range
    BY <1>1, <1>2, <1>9
  <2>2. u = WordSize - range * 2
    BY <1>1, <1>2, <1>7, <2>1
  <2>3. CASE u < range
    BY <1>1, <1>4, <1>5, <1>6, <1>9, <2>1, <2>2, <2>3
  <2>4. CASE u >= range
    <3>1. PICK d \in Nat, e \in 0..(range - 1) : e = u % range /\ u = range * d + e
      BY <1>1, DivMod
    <3>2. e = WordSize - range * (d + 2)
      <4>1. range * (d + 2) = range * d + range * 2 /\ range * d \in Nat
        <5>1. (d + 2) * range = d * range + 2 * range /\ d * range = range * d
              /\ 2 * range = range * 2 /\ (d + 2) * range = range * (d + 2)
          BY <1>1, TimesNext
        <5> QED BY <1>1, <5>1, TimesNat
      <4>2. e = u - range * d
        BY <3>1, <4>1
      <4>3. u = (WordSize - range * 2)
        BY <2>2
      <4>4. range * 2 \in Nat
        BY <1>1, <1>7
      <4> QED BY <1>1, <4>1, <4>2, <4>3, <4>4
    <3>3. e = m
      <4>1. d + 2 \in Nat /\ e \in Nat /\ e < range
        BY <1>1, <3>1
      <4> QED BY <1>6, <3>2, <4>1
    <3> QED BY <1>1, <1>4, <1>5, <1>9, <2>1, <2>4, <3>1, <3>3
  <2> QED BY <1>1, <2>3, <2>4
<1> QED BY <1>1, <1>2, <1>8, <1>9

\* The draws for a number are those whose product lies in its word, above the
\* threshold.
LEMMA DrawsAreMultiples ==
    ASSUME bound \in 1..(WordSize - 1), NEW v \in 0..(bound - 1),
           NEW rest \in Nat, rest = WordSize % bound
    PROVE  Giving(v) = {x \in Nat : /\ WordSize * v + rest <= x * bound
                                          /\ x * bound < WordSize * v + WordSize}
<1>1. WordSize \in Nat \ {0} /\ bound \in Nat \ {0} /\ bound < WordSize /\ v \in Nat
  BY RandomAssumption
<1>2. rest < bound
  BY <1>1, DivMod
<1>3. Threshold(bound) = rest
  BY ThresholdIsRest
<1>4. WordSize * v \in Nat
  BY <1>1, TimesNat
<1>5. ASSUME NEW x \in Nat
      PROVE  (Taken(bound, x) \/ (draws = "first" /\ TakenFirst(bound, x))) /\ Result(bound, x) = v
               <=> WordSize * v + rest <= x * bound /\ x * bound < WordSize * v + WordSize
  <2>1. PICK a \in Nat : a = x * bound
    BY <1>1, TimesNat
  <2>2. PICK high \in Nat, low \in 0..(WordSize - 1) :
          high = a \div WordSize /\ low = a % WordSize /\ a = WordSize * high + low
    BY <1>1, DivMod
  <2>3. Taken(bound, x) \/ (draws = "first" /\ TakenFirst(bound, x)) <=> low >= rest
    BY <1>1, <1>2, <1>3, <2>1, <2>2 DEF TakenFirst, Taken, Low
  <2>4. Result(bound, x) = high
    BY <2>1, <2>2 DEF Result, High
  <2>5. ASSUME low >= rest, high = v
        PROVE  WordSize * v + rest <= a /\ a < WordSize * v + WordSize
    BY <1>1, <1>4, <2>2, <2>5
  <2>6. ASSUME WordSize * v + rest <= a, a < WordSize * v + WordSize
        PROVE  low >= rest /\ high = v
    <3>1. PICK b \in 0..(WordSize - 1) : a = WordSize * v + b
      <4>1. a - WordSize * v \in 0..(WordSize - 1) /\ a = WordSize * v + (a - WordSize * v)
        BY <1>1, <1>4, <2>6
      <4> QED BY <4>1
    <3>2. a \div WordSize = v /\ a % WordSize = b
      BY <1>1, <3>1, DivUnique
    <3> QED BY <1>4, <2>2, <2>6, <3>1, <3>2
  <2> QED BY <2>1, <2>3, <2>4, <2>5, <2>6
<1>6. ASSUME NEW x \in Nat, x * bound < WordSize * v + WordSize PROVE x \in Word
  <2> SUFFICES ASSUME WordSize <= x PROVE FALSE
    BY <1>1 DEF Word
  <2>1. WordSize * bound <= x * bound
    BY <1>1, TimesLess
  <2>2. v + 1 \in Nat /\ v + 1 <= bound
    BY <1>1
  <2>3. (v + 1) * WordSize <= bound * WordSize
    BY <1>1, <2>2, TimesLess
  <2>4. (v + 1) * WordSize = v * WordSize + WordSize /\ v * WordSize = WordSize * v
        /\ bound * WordSize = WordSize * bound
    BY <1>1, TimesNext
  <2>5. WordSize * bound \in Nat /\ x * bound \in Nat
    BY <1>1, TimesNat
  <2> QED BY <1>1, <1>4, <1>6, <2>1, <2>3, <2>4, <2>5
<1>7. Word \subseteq Nat
  BY <1>1 DEF Word
<1> QED BY <1>5, <1>6, <1>7 DEF Giving

LEMMA ResultBelow ==
    ASSUME NEW range \in 1..(WordSize - 1), NEW x \in Word
    PROVE  Result(range, x) \in 0..(range - 1)
<1>1. WordSize \in Nat \ {0} /\ range \in Nat \ {0} /\ x \in Nat /\ x < WordSize
  BY RandomAssumption DEF Word
<1>2. PICK high \in Nat, low \in 0..(WordSize - 1) :
        high = (x * range) \div WordSize /\ x * range = WordSize * high + low
  <2>1. x * range \in Nat
    BY <1>1, TimesNat
  <2> QED BY <1>1, <2>1, DivMod
<1>3. high < range
  <2> SUFFICES ASSUME range <= high PROVE FALSE
    BY <1>1
  <2>1. range * WordSize <= high * WordSize
    BY <1>1, TimesLess
  <2>2. x + 1 \in Nat /\ x + 1 <= WordSize
    BY <1>1
  <2>3. (x + 1) * range <= WordSize * range
    BY <1>1, <2>2, TimesLess
  <2>4. (x + 1) * range = x * range + range
    BY <1>1, TimesNext
  <2>5. WordSize * range = range * WordSize /\ high * WordSize = WordSize * high
    BY <1>1, TimesNext
  <2>6. x * range \in Nat /\ WordSize * high \in Nat /\ range * WordSize \in Nat
    BY <1>1, TimesNat
  <2> QED BY <1>1, <1>2, <2>1, <2>3, <2>4, <2>5, <2>6
<1> QED BY <1>1, <1>2, <1>3 DEF Result, High

RandomInv ==
    /\ bound \in Word
    /\ IF bound = 0 THEN draws # "again" /\ number = 0
       ELSE draws = "done" => number \in 0..(bound - 1)

LEMMA RandomStep == RandomInv /\ [RandomNext]_randomVars => RandomInv'
<1> SUFFICES ASSUME RandomInv, [RandomNext]_randomVars PROVE RandomInv'
  OBVIOUS
<1>1. WordSize \in Nat \ {0} /\ bound \in Nat /\ bound < WordSize
  BY RandomAssumption DEF Word, RandomInv
<1>2. ASSUME bound = 0, NEW x \in Word PROVE TakenFirst(bound, x) /\ Result(bound, x) = 0
  <2>1. x * bound = 0
    BY <1>1, <1>2 DEF Word
  <2>2. WordSize * 0 + 0 = 0 /\ 0 \in 0..(WordSize - 1)
    BY <1>1
  <2>3. 0 % WordSize = 0 /\ 0 \div WordSize = 0
    BY <1>1, <2>2, DivUnique
  <2> QED BY <1>2, <2>1, <2>3 DEF TakenFirst, Result, Low, High
<1>3. ASSUME bound # 0, NEW x \in Word PROVE Result(bound, x) \in 0..(bound - 1)
  <2>1. bound \in 1..(WordSize - 1)
    BY <1>1, <1>3
  <2> QED BY <2>1, ResultBelow
<1>4. CASE FirstDraw
  BY <1>2, <1>3, <1>4 DEF FirstDraw, Accept, RandomInv
<1>5. CASE NextDraw
  BY <1>3, <1>5 DEF NextDraw, Accept, RandomInv
<1>6. CASE UNCHANGED randomVars
  BY <1>6 DEF randomVars, RandomInv
<1> QED BY <1>4, <1>5, <1>6 DEF RandomNext

\* The numbers below a bound are equally likely whatever was rejected before,
\* no other is returned, and as few draws are rejected as that needs, for
\* every size of the word and every bound that fits in it (random.c:48-71).
THEOREM BoundedIsUniform == RandomSpec => []Uniform
<1>1. RandomInit => RandomInv
  BY RandomAssumption DEF RandomInit, RandomInv, Word
<1>2. RandomInv => Uniform
  <2> SUFFICES ASSUME RandomInv, bound # 0, NEW v \in 0..(bound - 1)
               PROVE  Cardinality(Giving(v)) = WordSize \div bound
    BY DEF RandomInv, Uniform
  <2>1. WordSize \in Nat \ {0} /\ bound \in 1..(WordSize - 1) /\ bound \in Nat \ {0}
    BY RandomAssumption DEF Word, RandomInv
  <2>2. PICK q \in Nat, rest \in Nat :
          q = WordSize \div bound /\ rest = WordSize % bound /\ WordSize = bound * q + rest
    <3>1. /\ WordSize \div bound \in Nat /\ WordSize % bound \in 0..(bound - 1)
          /\ WordSize = bound * (WordSize \div bound) + (WordSize % bound)
      BY <2>1, DivMod
    <3>2. WordSize % bound \in Nat
      BY <2>1, <3>1
    <3> QED BY <3>1, <3>2
  <2>3. WordSize * v \in Nat
    BY <2>1, TimesNat
  <2>4. PICK low \in Nat : low = WordSize * v + rest
    BY <2>3
  <2>5. low + q * bound = WordSize * v + WordSize
    <3>1. q * bound = bound * q /\ bound * q \in Nat
      BY <2>1, TimesNext, TimesNat
    <3> QED BY <2>1, <2>2, <2>3, <2>4, <3>1
  <2>6. Giving(v) = {x \in Nat : low <= x * bound /\ x * bound < low + q * bound}
    BY <2>1, <2>2, <2>4, <2>5, DrawsAreMultiples
  <2>7. Cardinality(Giving(v)) = q
    BY <2>1, <2>6, MultiplesBetween
  <2> QED BY <2>2, <2>7
<1> QED
  BY <1>1, RandomStep, <1>2, PTL DEF RandomSpec

-----------------------------------------------------------------------------
(* Bezier: the points of a curve                                           *)

LEMMA DivGrows ==
    ASSUME NEW a \in Nat, NEW b \in Nat, NEW c \in Nat \ {0}, a <= b
    PROVE  a \div c <= b \div c
<1>1. PICK q \in Nat, e \in 0..(c - 1) : q = a \div c /\ a = c * q + e
  BY DivMod
<1>2. PICK p \in Nat, f \in 0..(c - 1) : p = b \div c /\ b = c * p + f
  BY DivMod
<1>3. ASSUME p + 1 <= q PROVE FALSE
  <2>1. (p + 1) * c <= q * c
    BY <1>3, TimesLess
  <2>2. (p + 1) * c = p * c + c /\ p * c = c * p /\ q * c = c * q
    BY TimesNext
  <2>3. c * p \in Nat /\ c * q \in Nat
    BY TimesNat
  <2> QED BY <1>1, <1>2, <2>1, <2>2, <2>3
<1> QED BY <1>1, <1>2, <1>3

\* p / d, rounded
RoundedTo(p, d) == (2 * p + d) \div (2 * d)

LEMMA RoundedExact ==
    ASSUME NEW k \in Nat, NEW d \in Nat \ {0}
    PROVE  RoundedTo(k * d, d) = k
<1>1. 2 * d \in Nat \ {0} /\ d \in 0..(2 * d - 1)
  OBVIOUS
<1>2. ((2 * d) * k + d) \div (2 * d) = k
  BY <1>1, DivUnique
<1>3. 2 * (k * d) = (2 * d) * k
  OBVIOUS
<1> QED BY <1>2, <1>3 DEF RoundedTo

LEMMA RoundedGrows ==
    ASSUME NEW p \in Nat, NEW q \in Nat, NEW d \in Nat \ {0}, p <= q
    PROVE  RoundedTo(p, d) \in Nat /\ RoundedTo(p, d) <= RoundedTo(q, d)
<1>1. 2 * d \in Nat \ {0} /\ 2 * p + d \in Nat /\ 2 * q + d \in Nat /\ 2 * p + d <= 2 * q + d
  OBVIOUS
<1>2. (2 * p + d) \div (2 * d) \in Nat
  BY <1>1, DivMod
<1> QED BY <1>1, <1>2, DivGrows DEF RoundedTo

LEMMA RoundedNear ==
    ASSUME NEW p \in Nat, NEW q \in Nat, NEW d \in Nat \ {0}, q <= p + d
    PROVE  RoundedTo(q, d) <= RoundedTo(p, d) + 1
<1>1. PICK c \in Nat \ {0} : c = 2 * d
  OBVIOUS
<1>2. PICK a \in Nat : a = 2 * p + d
  OBVIOUS
<1>3. PICK h \in Nat, e \in 0..(c - 1) : h = a \div c /\ a = c * h + e
  BY DivMod
<1>4. a + c \in Nat /\ h + 1 \in Nat /\ c * (h + 1) = c * h + c
  OBVIOUS
<1>5. (c * (h + 1) + e) \div c = h + 1
  BY <1>4, DivUnique
<1>6. c * h \in Nat
  BY TimesNat
<1>7. a + c = c * (h + 1) + e
  BY <1>3, <1>4, <1>6
<1>8. 2 * q + d \in Nat /\ 2 * q + d <= a + c
  BY <1>1, <1>2
<1>9. (2 * q + d) \div c <= (a + c) \div c
  BY <1>4, <1>8, DivGrows
<1>10. RoundedTo(q, d) <= h + 1
  BY <1>1, <1>5, <1>7, <1>9 DEF RoundedTo
<1>11. RoundedTo(p, d) = h
  BY <1>1, <1>2, <1>3 DEF RoundedTo
<1> QED BY <1>10, <1>11

\* Quadratic curves from a over a + u to a + w
LEMMA QuadraticAbove ==
    ASSUME NEW a \in Nat, NEW u \in Nat, NEW w \in Nat, NEW m \in Nat, NEW i \in Nat,
           NEW n, n = m + i
    PROVE  LET p == a * m * m + (a + u) * 2 * m * i + (a + w) * i * i
           IN p \in Nat /\ a * (n * n) <= p
<1>1. a * m * m + (a + u) * 2 * m * i + (a + w) * i * i
        = a * ((m + i) * (m + i)) + 2 * (u * (m * i)) + w * (i * i)
  OBVIOUS
<1>2. u * (m * i) \in Nat /\ w * (i * i) \in Nat /\ a * ((m + i) * (m + i)) \in Nat
  BY TimesNat
<1> QED BY <1>1, <1>2

LEMMA CubicAbove ==
    ASSUME NEW a \in Nat, NEW u \in Nat, NEW v \in Nat, NEW w \in Nat, NEW m \in Nat, NEW i \in Nat,
           NEW n, n = m + i
    PROVE  LET p == a * m * m * m + (a + u) * 3 * m * m * i + (a + v) * 3 * m * i * i
                      + (a + w) * i * i * i
           IN p \in Nat /\ a * (n * n * n) <= p
<1>1. a * m * m * m + (a + u) * 3 * m * m * i + (a + v) * 3 * m * i * i + (a + w) * i * i * i
        = a * ((m + i) * (m + i) * (m + i)) + 3 * (u * (m * (m * i))) + 3 * (v * (m * (i * i)))
            + w * (i * (i * i))
  OBVIOUS
<1>2. /\ u * (m * (m * i)) \in Nat /\ v * (m * (i * i)) \in Nat /\ w * (i * (i * i)) \in Nat
      /\ a * ((m + i) * (m + i) * (m + i)) \in Nat
  BY TimesNat
<1> QED BY <1>1, <1>2

\* The next value of a quadratic curve, with k steps left behind it.
LEMMA QuadraticNext ==
    ASSUME NEW a \in Nat, NEW u \in Nat, NEW w \in Nat, NEW k \in Nat, NEW i \in Nat
    PROVE  LET p(m, j) == a * m * m + (a + u) * 2 * m * j + (a + w) * j * j
           IN p(k, i + 1) = p(k + 1, i) + 2 * (u * (k - i)) + w * (2 * i + 1)
OBVIOUS

LEMMA QuadraticSmall ==
    ASSUME NEW u \in Nat, NEW w \in Nat, NEW k \in Nat, NEW i \in Nat, u <= w,
           2 * w <= k + i + 1
    PROVE  /\ 0 <= 2 * (u * (k - i)) + w * (2 * i + 1)
           /\ 2 * (u * (k - i)) + w * (2 * i + 1) <= (k + i + 1) * (k + i + 1)
<1> DEFINE n == k + i + 1
<1>1. n \in Nat /\ 2 * w <= n /\ 2 * k + 1 <= 2 * n /\ 2 * i + 1 <= 2 * n
  OBVIOUS
<1> HIDE DEF n
<1>2. (2 * w) * n <= n * n
  <2>1. 2 * w \in Nat
    OBVIOUS
  <2> QED BY <1>1, <2>1, TimesLess
<1>3. ASSUME NEW x \in Nat, 2 * x + 1 <= 2 * n PROVE w * (2 * x + 1) <= (2 * w) * n
  <2>1. (2 * x + 1) * w <= (2 * n) * w
    <3>1. 2 * x + 1 \in Nat /\ 2 * n \in Nat
      BY <1>1
    <3> QED BY <1>3, <3>1, TimesLess
  <2>2. (2 * x + 1) * w = w * (2 * x + 1) /\ (2 * n) * w = (2 * w) * n
    BY <1>1
  <2> QED BY <2>1, <2>2
<1>4. CASE k >= i
  <2>1. PICK j \in Nat : j = k - i /\ k = i + j
    BY <1>4
  <2>2. u * j \in Nat /\ u * j <= w * j /\ w * j \in Nat /\ w * (2 * i + 1) \in Nat
    BY TimesNat, TimesLess
  <2>3. 2 * (w * j) + w * (2 * i + 1) = w * (2 * k + 1)
    BY <2>1
  <2>4. w * (2 * k + 1) <= (2 * w) * n
    BY <1>1, <1>3
  <2>5. w * (2 * k + 1) \in Nat /\ (2 * w) * n \in Nat /\ n * n \in Nat
    BY <1>1
  <2>6. u * (k - i) = u * j
    BY <2>1
  <2> QED BY <1>2, <2>2, <2>3, <2>4, <2>5, <2>6 DEF n
<1>5. CASE k < i
  <2>1. PICK j \in Nat : j = i - k /\ i = k + j
    BY <1>5
  <2>2. u * j \in Nat /\ u * j <= w * j /\ w * j \in Nat /\ w * (2 * i + 1) \in Nat
    BY TimesNat, TimesLess
  <2>3. w * (2 * i + 1) = 2 * (w * j) + w * (2 * k + 1) /\ w * (2 * k + 1) \in Nat
    BY <2>1
  <2>4. w * (2 * i + 1) <= (2 * w) * n
    BY <1>1, <1>3
  <2>5. (2 * w) * n \in Nat /\ n * n \in Nat
    BY <1>1
  <2>6. u * (k - i) = -(u * j)
    BY <2>1
  <2> QED BY <1>2, <2>2, <2>3, <2>4, <2>5, <2>6 DEF n
<1> QED BY <1>4, <1>5

LEMMA CurvePoints ==
    ASSUME NEW xs \in Curves
    PROVE  /\ \A k \in 1..Len(xs) : xs[k] \in Nat /\ xs[1] <= xs[k] /\ xs[k] <= xs[Len(xs)]
           /\ Len(xs) \in {3, 4} /\ xs[1] < xs[Len(xs)]
<1>1. xs \in Seq(Nat) /\ Len(xs) \in {3, 4} /\ xs[1] < xs[Len(xs)]
      /\ \A k \in DOMAIN xs : xs[1] <= xs[k] /\ xs[k] <= xs[Len(xs)]
  BY BezierAssumption
<1>2. DOMAIN xs = 1..Len(xs) /\ \A k \in 1..Len(xs) : xs[k] \in Nat
  BY <1>1
<1> QED BY <1>1, <1>2

Denominator(xs, n) == IF Len(xs) = 3 THEN n * n ELSE n * n * n

LEMMA XIsRounded ==
    ASSUME NEW xs, NEW i \in Nat, NEW n \in Nat
    PROVE  XAt(xs, i, n) = RoundedTo(Interpolated(xs, i, n), Denominator(xs, n))
BY DEF XAt, RoundedTo, Denominator

\* The points of a curve as differences from the first one.
LEMMA CurveNumbers ==
    ASSUME NEW xs \in Curves, NEW n \in Nat \ {0}, NEW i \in 0..n
    PROVE  /\ Interpolated(xs, i, n) \in Nat
           /\ Denominator(xs, n) \in Nat \ {0}
           /\ xs[1] * Denominator(xs, n) <= Interpolated(xs, i, n)
<1>1. PICK m \in Nat : m = n - i /\ n = m + i
  OBVIOUS
<1>2. PICK a \in Nat, u \in Nat, v \in Nat : a = xs[1] /\ xs[2] = a + u /\ xs[3] = a + v
  <2>1. xs[1] \in Nat /\ xs[2] \in Nat /\ xs[3] \in Nat /\ xs[1] <= xs[2] /\ xs[1] <= xs[3]
    BY CurvePoints
  <2>2. PICK a \in Nat, b \in Nat, c \in Nat : a = xs[1] /\ b = xs[2] /\ c = xs[3]
    BY <2>1
  <2>3. b - a \in Nat /\ c - a \in Nat /\ b = a + (b - a) /\ c = a + (c - a)
    BY <2>1, <2>2
  <2> QED BY <2>2, <2>3
<1>3. CASE Len(xs) = 3
  <2>1. Interpolated(xs, i, n) = a * m * m + (a + u) * 2 * m * i + (a + v) * i * i
    BY <1>1, <1>2, <1>3 DEF Interpolated
  <2>2. n * n \in Nat \ {0}
    BY <1>1
  <2>3. Denominator(xs, n) = n * n
    BY <1>3 DEF Denominator
  <2>4. /\ a * m * m + (a + u) * 2 * m * i + (a + v) * i * i \in Nat
        /\ a * (n * n) <= a * m * m + (a + u) * 2 * m * i + (a + v) * i * i
    BY <1>1, QuadraticAbove
  <2> QED BY <1>2, <2>1, <2>2, <2>3, <2>4
<1>4. CASE Len(xs) = 4
  <2>0. PICK w \in Nat : xs[4] = a + w
    <3>1. xs[4] \in Nat /\ xs[1] <= xs[4]
      <4>1. 4 \in 1..Len(xs)
        BY <1>4
      <4> QED BY <4>1, CurvePoints
    <3>2. xs[4] - a \in Nat
      BY <1>2, <3>1
    <3> QED BY <1>2, <3>1, <3>2
  <2> DEFINE p == a * m * m * m + (a + u) * 3 * m * m * i + (a + v) * 3 * m * i * i
                    + (a + w) * i * i * i
  <2>1. Interpolated(xs, i, n) = p
    BY <1>1, <1>2, <1>4, <2>0 DEF Interpolated
  <2>2. n * n * n \in Nat \ {0}
    BY <1>1
  <2>3. Denominator(xs, n) = n * n * n
    BY <1>4 DEF Denominator
  <2>4. p \in Nat /\ a * (n * n * n) <= p
    BY <1>1, CubicAbove
  <2> HIDE DEF p
  <2> QED BY <1>2, <2>1, <2>2, <2>3, <2>4
<1> QED BY <1>3, <1>4, CurvePoints

LEMMA CurveStaysAbove ==
    ASSUME NEW xs \in Curves, NEW n \in Nat \ {0}, NEW i \in 0..n
    PROVE  XAt(xs, i, n) \in Nat /\ xs[1] <= XAt(xs, i, n)
<1>1. PICK p \in Nat, d \in Nat \ {0} :
        p = Interpolated(xs, i, n) /\ d = Denominator(xs, n) /\ xs[1] * d <= p
  BY CurveNumbers
<1>2. PICK a \in Nat : a = xs[1]
  BY CurvePoints
<1>3. a * d \in Nat /\ RoundedTo(a * d, d) = a
  BY RoundedExact
<1>4. RoundedTo(a * d, d) <= RoundedTo(p, d) /\ RoundedTo(p, d) \in Nat
  BY <1>1, <1>2, <1>3, RoundedGrows
<1> QED BY <1>1, <1>2, <1>3, <1>4, XIsRounded

\* A curve begins at its first point and ends at its last one.
LEMMA CurveEnds ==
    ASSUME NEW xs \in Curves, NEW n \in Nat \ {0}
    PROVE  XAt(xs, 0, n) = xs[1] /\ XAt(xs, n, n) = xs[Len(xs)]
<1>1. PICK d \in Nat \ {0} : d = Denominator(xs, n)
  BY CurveNumbers
<1>2. PICK a \in Nat, b \in Nat, c \in Nat : a = xs[1] /\ b = xs[2] /\ c = xs[3]
  BY CurvePoints
<1>3. PICK e \in Nat : e = xs[Len(xs)]
  BY CurvePoints
<1>4. Interpolated(xs, 0, n) = a * d /\ Interpolated(xs, n, n) = e * d
  <2>1. CASE Len(xs) = 3
    <3>1. d = n * n /\ e = c
      BY <1>1, <1>2, <1>3, <2>1 DEF Denominator
    <3>2. a * (n - 0) * (n - 0) + b * 2 * (n - 0) * 0 + c * 0 * 0 = a * (n * n)
      OBVIOUS
    <3>3. a * (n - n) * (n - n) + b * 2 * (n - n) * n + c * n * n = c * (n * n)
      OBVIOUS
    <3> QED BY <1>2, <2>1, <3>1, <3>2, <3>3 DEF Interpolated
  <2>2. CASE Len(xs) = 4
    <3>1. d = n * n * n /\ e = xs[4]
      BY <1>1, <1>2, <1>3, <2>2 DEF Denominator
    <3>2. a * (n - 0) * (n - 0) * (n - 0) + b * 3 * (n - 0) * (n - 0) * 0
            + c * 3 * (n - 0) * 0 * 0 + e * 0 * 0 * 0 = a * (n * n * n)
      OBVIOUS
    <3>3. a * (n - n) * (n - n) * (n - n) + b * 3 * (n - n) * (n - n) * n
            + c * 3 * (n - n) * n * n + e * n * n * n = e * (n * n * n)
      OBVIOUS
    <3> QED BY <1>2, <2>2, <3>1, <3>2, <3>3 DEF Interpolated
  <2> QED BY <2>1, <2>2, CurvePoints
<1>5. RoundedTo(a * d, d) = a /\ RoundedTo(e * d, d) = e
  BY RoundedExact
<1> QED BY <1>1, <1>2, <1>3, <1>4, <1>5, XIsRounded

\* The samples of a quadratic curve neither go back nor skip a position.
LEMMA QuadraticSteps ==
    ASSUME NEW xs \in Curves, Len(xs) = 3, NEW n \in Nat \ {0}, 2 * (xs[3] - xs[1]) <= n,
           NEW i \in 0..(n - 1)
    PROVE  XAt(xs, i, n) <= XAt(xs, i + 1, n) /\ XAt(xs, i + 1, n) <= XAt(xs, i, n) + 1
<1>1. PICK k \in Nat : k = n - 1 - i /\ n = k + i + 1
  OBVIOUS
<1>2. PICK a \in Nat, u \in Nat, w \in Nat : a = xs[1] /\ xs[2] = a + u /\ xs[3] = a + w /\ u <= w
  <2>1. xs[1] \in Nat /\ xs[2] \in Nat /\ xs[3] \in Nat /\ xs[1] <= xs[2] /\ xs[2] <= xs[3]
    <3>1. \A j \in 1..3 : xs[j] \in Nat /\ xs[1] <= xs[j] /\ xs[j] <= xs[3]
      BY CurvePoints
    <3>2. 1 \in 1..3 /\ 2 \in 1..3 /\ 3 \in 1..3
      OBVIOUS
    <3> QED BY <3>1, <3>2
  <2>2. PICK a \in Nat, b \in Nat, c \in Nat : a = xs[1] /\ b = xs[2] /\ c = xs[3]
    BY <2>1
  <2>3. b - a \in Nat /\ c - a \in Nat /\ b = a + (b - a) /\ c = a + (c - a) /\ b - a <= c - a
    BY <2>1, <2>2
  <2> QED BY <2>2, <2>3
<1> DEFINE p(m, j) == a * m * m + (a + u) * 2 * m * j + (a + w) * j * j
<1>3. Interpolated(xs, i, n) = p(k + 1, i) /\ Interpolated(xs, i + 1, n) = p(k, i + 1)
  <2>1. n - i = k + 1 /\ n - (i + 1) = k
    BY <1>1
  <2> QED BY <1>2, <2>1 DEF Interpolated
<1> DEFINE inc == 2 * (u * (k - i)) + w * (2 * i + 1)
<1>4. p(k, i + 1) = p(k + 1, i) + inc
  BY QuadraticNext
<1>5. 2 * w <= k + i + 1
  BY <1>1, <1>2
<1>6. 0 <= inc /\ inc <= n * n /\ inc \in Int
  BY <1>1, <1>2, <1>5, QuadraticSmall
<1>7. PICK q \in Nat, r \in Nat, d \in Nat \ {0} :
        /\ q = Interpolated(xs, i, n) /\ r = Interpolated(xs, i + 1, n)
        /\ d = Denominator(xs, n) /\ d = n * n
  <2>1. Denominator(xs, n) = n * n
    BY DEF Denominator
  <2>2. i \in 0..n /\ i + 1 \in 0..n
    OBVIOUS
  <2> QED BY <2>1, <2>2, CurveNumbers
<1> HIDE DEF inc, p
<1>8. q <= r /\ r <= q + d
  BY <1>3, <1>4, <1>6, <1>7
<1>9. RoundedTo(q, d) <= RoundedTo(r, d) /\ RoundedTo(r, d) <= RoundedTo(q, d) + 1
  BY <1>7, <1>8, RoundedGrows, RoundedNear
<1>10. XAt(xs, i, n) = RoundedTo(q, d) /\ XAt(xs, i + 1, n) = RoundedTo(r, d)
  <2>1. /\ XAt(xs, i, n) = RoundedTo(Interpolated(xs, i, n), Denominator(xs, n))
        /\ XAt(xs, i + 1, n) = RoundedTo(Interpolated(xs, i + 1, n), Denominator(xs, n))
    BY XIsRounded
  <2> QED BY <1>7, <2>1
<1> QED BY <1>9, <1>10

\* A quadratic curve is at position i after i steps at most.
LEMMA QuadraticSlow ==
    ASSUME NEW xs \in Curves, Len(xs) = 3, NEW n \in Nat \ {0}, 2 * (xs[3] - xs[1]) <= n,
           NEW i \in 0..n
    PROVE  XAt(xs, i, n) <= xs[1] + i
<1> DEFINE Fast == {j \in 0..n : ~(XAt(xs, j, n) <= xs[1] + j)}
<1> SUFFICES ASSUME Fast # {} PROVE FALSE
  OBVIOUS
<1>1. PICK j \in Fast : \A k \in Fast : j <= k
  <2>1. Fast \subseteq Nat
    OBVIOUS
  <2> HIDE DEF Fast
  <2> QED BY <2>1, LeastNumber
<1>2. xs[1] \in Nat /\ XAt(xs, 0, n) = xs[1]
  BY CurvePoints, CurveEnds
<1>3. j # 0
  BY <1>1, <1>2
<1>4. PICK k \in 0..(n - 1) : j = k + 1
  <2>1. j - 1 \in 0..(n - 1) /\ j = (j - 1) + 1
    BY <1>1, <1>3
  <2> QED BY <2>1
<1>5. XAt(xs, k, n) <= xs[1] + k
  <2>1. k \notin Fast /\ k \in 0..n
    BY <1>1, <1>4
  <2> QED BY <2>1
<1>6. XAt(xs, k + 1, n) <= XAt(xs, k, n) + 1
  BY QuadraticSteps
<1>7. XAt(xs, k, n) \in Nat /\ XAt(xs, k + 1, n) \in Nat
  <2>1. k \in 0..n /\ k + 1 \in 0..n
    OBVIOUS
  <2> QED BY <2>1, CurveStaysAbove
<1> QED BY <1>1, <1>2, <1>4, <1>5, <1>6, <1>7

First == curve[1]
Final == curve[Len(curve)]

\* Every position up to p is in S.
UpTo(p, S) == \A q \in start..(end - 1) : q <= p => q \in S

CurveTypeOK ==
    /\ curve \in Curves
    /\ start \in First..Final /\ end \in (start + 1)..Final
    /\ step \in Nat /\ reached \in Nat /\ reads \subseteq Nat

\* The parameter does not leave the curve, and the last x is that of the
\* round before.
Rounds ==
    /\ start - First <= step /\ step <= Span + 1
    /\ step = start - First => reached = start /\ reads = {}
    /\ step > start - First => reached = XAt(curve, step - 1, Span)

CurveInv ==
    /\ CurveTypeOK /\ Rounds
    /\ samples \cup fills \subseteq start..(end - 1)
    /\ start = First /\ step > 0 => start \in samples /\ UpTo(reached, samples \cup fills)
    /\ Len(curve) = 3 =>
         reads = {} /\ (step > start - First => UpTo(reached, samples))

LEMMA CurveFacts ==
    ASSUME CurveTypeOK
    PROVE  /\ First \in Nat /\ Final \in Nat /\ start \in Nat /\ end \in Nat
           /\ First <= start /\ start < end /\ end <= Final
           /\ Resolution \in Nat /\ Span \in Nat \ {0}
           /\ 2 * (Final - First) <= Span /\ Resolution * (end - start) <= Span
           /\ start - First <= Span
<1>1. First \in Nat /\ Final \in Nat
  BY CurvePoints DEF CurveTypeOK, First, Final
<1>2. start \in Nat /\ end \in Nat /\ First <= start /\ start < end /\ end <= Final
  BY <1>1 DEF CurveTypeOK
<1>3. Resolution \in Nat /\ Resolution >= 2
  BY BezierAssumption
<1>4. PICK l \in Nat \ {0}, e \in Nat : l = Final - First /\ e = end - start /\ e <= l
  BY <1>1, <1>2
<1>5. Span = Resolution * l
  BY <1>4 DEF Span, First, Final
<1>6. 2 * l <= Resolution * l
  BY <1>3, TimesLess
<1>7. e * Resolution <= l * Resolution /\ e * Resolution = Resolution * e
      /\ l * Resolution = Resolution * l
  BY <1>3, <1>4, TimesLess
<1>8. Resolution * l \in Nat
  BY <1>3
<1> QED BY <1>1, <1>2, <1>3, <1>4, <1>5, <1>6, <1>7, <1>8

LEMMA CurveInitial == CurveInit => CurveInv
<1> SUFFICES ASSUME CurveInit PROVE CurveInv
  OBVIOUS
<1>1. curve \in Curves /\ First \in Nat /\ Final \in Nat
  BY CurvePoints DEF CurveInit, First, Final
<1>2. CurveTypeOK
  BY <1>1 DEF CurveInit, CurveTypeOK, First, Final
<1>3. Rounds
  BY <1>2, CurveFacts DEF Rounds, CurveInit, First, Final
<1>4. step = start - First
  BY DEF CurveInit, First
<1> QED BY <1>1, <1>2, <1>3, <1>4, CurveFacts DEF CurveInv, CurveInit

\* Where a gap is filled.
LEMMA GapFilled ==
    ASSUME CurveTypeOK, NEW b \in Nat, NEW x \in Nat
    PROVE  /\ Gap(b, x) \subseteq start..(end - 1)
           /\ \A p \in start..(end - 1) : b < p /\ (x < b \/ p < x) => p \in Gap(b, x)
<1>1. start \in Nat /\ end \in Nat /\ start < end
  BY CurveFacts
<1>2. PICK g \in Nat : g = GapBegin(b) /\ g = IF b + 1 < start THEN start - b ELSE 1
  BY <1>1 DEF GapBegin
<1>3. ASSUME NEW p \in Gap(b, x) PROVE p \in start..(end - 1)
  <2>1. PICK k \in g..(end - b) : p = b + k /\ b + k < end
    BY <1>2 DEF Gap
  <2> QED BY <1>1, <1>2, <2>1
<1>4. ASSUME NEW p \in start..(end - 1), b < p, x < b \/ p < x PROVE p \in Gap(b, x)
  <2>1. p - b \in g..(end - b) /\ p = b + (p - b) /\ b + (p - b) < end
    BY <1>1, <1>2, <1>4
  <2>2. x < b \/ p - b < x - b
    BY <1>1, <1>4
  <2> QED BY <1>2, <2>1, <2>2 DEF Gap
<1> QED BY <1>3, <1>4

LEMMA CurveStep == CurveInv /\ [Evaluate]_curveVars => CurveInv'
<1> SUFFICES ASSUME CurveInv, [Evaluate]_curveVars PROVE CurveInv'
  OBVIOUS
<1>1. CASE UNCHANGED curveVars
  BY <1>1 DEF curveVars, CurveInv, CurveTypeOK, Rounds, UpTo, First, Final, Span
<1>2. CASE Evaluate
  <2>1. CurveTypeOK /\ Rounds
    BY DEF CurveInv
  <2>2. /\ First \in Nat /\ Final \in Nat /\ start \in Nat /\ end \in Nat
        /\ First <= start /\ start < end /\ end <= Final
        /\ Resolution \in Nat /\ Span \in Nat \ {0}
        /\ 2 * (Final - First) <= Span /\ Resolution * (end - start) <= Span
        /\ start - First <= Span
    BY <2>1, CurveFacts
  <2>3. curve \in Curves /\ step \in Nat /\ reached \in Nat /\ reads \subseteq Nat
    BY <2>1 DEF CurveTypeOK
  <2>4. curve' = curve /\ start' = start /\ end' = end /\ step' = step + 1
    BY <1>2 DEF Evaluate
  <2>5. step \in 0..Span
    <3>1. step \in Nat /\ Span \in Nat /\ step <= Span + 1
      BY <2>1, <2>2, <2>3 DEF Rounds
    <3>2. ASSUME step = Span + 1 PROVE FALSE
      <4>1. reached = Final
        <5>1. step > start - First /\ step - 1 = Span
          BY <2>2, <3>2
        <5>2. reached = XAt(curve, Span, Span)
          BY <2>1, <5>1 DEF Rounds
        <5> QED BY <2>2, <2>3, <5>2, CurveEnds DEF Final
      <4>2. step < Resolution * (end - start) \/ reached < end
        BY <1>2 DEF Evaluate, Generated
      <4>3. Resolution * (end - start) \in Nat
        BY <2>2
      <4> QED BY <2>2, <2>3, <3>2, <4>1, <4>2, <4>3
    <3> QED BY <3>1, <3>2
  <2>6. PICK x \in Nat : x = XAt(curve, step, Span) /\ First <= x
    BY <2>2, <2>3, <2>5, CurveStaysAbove DEF First
  <2> DEFINE wide == x < reached \/ x - reached >= 2
  <2>7. /\ reached' = x
        /\ samples' = IF x >= start /\ x < end THEN samples \cup {x} ELSE samples
        /\ fills' = IF ~wide THEN fills
                    ELSE fills \cup Gap(IF start < reached THEN reached ELSE Earlier(x), x)
        /\ reads' = IF wide /\ start < reached THEN reads \cup {reached} ELSE reads
    BY <1>2, <2>6 DEF Evaluate
  <2>8. Earlier(x) \in Nat /\ (Earlier(x) = First \/ Earlier(x) = reached)
    BY <2>2, <2>3 DEF Earlier, First
  <2>9. First' = First /\ Final' = Final /\ Span' = Span
    BY <2>4 DEF First, Final, Span
  <2>10. CurveTypeOK'
    <3>1. reads' \subseteq Nat
      BY <2>3, <2>7
    <3> QED BY <2>1, <2>3, <2>4, <2>6, <2>7, <2>9, <3>1 DEF CurveTypeOK
  <2>11. Rounds'
    <3>1. step' > start' - First' /\ step' <= Span' + 1 /\ step' - 1 = step
      BY <2>1, <2>2, <2>4, <2>5, <2>9 DEF Rounds
    <3>2. reached' = XAt(curve', step' - 1, Span')
      BY <2>4, <2>6, <2>7, <2>9, <3>1
    <3>3. start' - First' <= step' /\ ~(step' = start' - First')
      BY <2>2, <2>4, <2>5, <2>9, <3>1
    <3> QED BY <3>1, <3>2, <3>3 DEF Rounds
  <2>12. (samples \cup fills)' \subseteq start'..(end' - 1)
    <3>1. samples' \subseteq start..(end - 1)
      BY <2>2, <2>6, <2>7 DEF CurveInv
    <3>2. fills' \subseteq start..(end - 1)
      <4>1. \A b \in Nat : Gap(b, x) \subseteq start..(end - 1)
        BY <2>1, <2>6, GapFilled
      <4>2. (IF start < reached THEN reached ELSE Earlier(x)) \in Nat
        BY <2>3, <2>8
      <4> QED BY <2>7, <4>1, <4>2 DEF CurveInv
    <3> QED BY <2>4, <3>1, <3>2
  <2>13. ASSUME start = First PROVE start \in samples' /\ UpTo(x, samples' \cup fills')
    <3>1. step = 0 => x = start
      BY <2>2, <2>3, <2>6, <2>13, CurveEnds DEF First
    <3>2. start \in samples'
      BY <2>2, <2>3, <2>7, <2>13, <3>1 DEF CurveInv
    <3>3. ASSUME NEW q \in start..(end - 1), q <= x, q # start PROVE q \in samples' \cup fills'
      <4>1. q \in Nat /\ start < q /\ q < end
        BY <2>2, <3>3
      <4>2. step # 0
        BY <2>2, <2>6, <3>1, <3>3, <4>1
      <4>3. UpTo(reached, samples \cup fills)
        BY <2>3, <2>13, <4>2 DEF CurveInv
      <4>4. CASE q <= reached
        BY <2>7, <3>3, <4>3, <4>4 DEF UpTo
      <4>5. CASE q = x
        BY <2>2, <2>6, <2>7, <3>3, <4>1, <4>5
      <4>6. CASE reached < q /\ q < x
        <5>1. wide
          BY <2>3, <2>6, <4>1, <4>6
        <5>2. PICK b \in Nat : b = (IF start < reached THEN reached ELSE Earlier(x)) /\ b < q
          BY <2>2, <2>3, <2>8, <2>13, <4>1, <4>6
        <5>3. q \in Gap(b, x)
          BY <2>1, <2>6, <3>3, <4>6, <5>2, GapFilled
        <5> QED BY <2>7, <5>1, <5>2, <5>3
      <4> QED BY <2>3, <2>6, <3>3, <4>1, <4>4, <4>5, <4>6
    <3> QED BY <3>2, <3>3 DEF UpTo
  <2>14. ASSUME Len(curve) = 3 PROVE reads' = {} /\ UpTo(x, samples')
    <3>1. Final = curve[3]
      BY <2>14 DEF Final
    <3>2. CASE step = start - First
      <4>1. reached = start /\ reads = {}
        BY <2>1, <3>2 DEF Rounds
      <4>2. XAt(curve, step, Span) <= curve[1] + step
        BY <2>2, <2>3, <2>5, <2>14, <3>1, QuadraticSlow DEF First
      <4>3. x <= start
        BY <2>2, <2>6, <3>2, <4>2 DEF First
      <4>4. ASSUME NEW q \in start..(end - 1), q <= x PROVE q \in samples'
        BY <2>2, <2>6, <2>7, <4>3, <4>4
      <4>5. reads' = {}
        BY <2>2, <2>7, <4>1
      <4> QED BY <4>4, <4>5 DEF UpTo
    <3>3. CASE step > start - First
      <4>1. reached = XAt(curve, step - 1, Span) /\ reads = {} /\ UpTo(reached, samples)
        BY <2>1, <2>14, <3>3 DEF Rounds, CurveInv
      <4>2. step - 1 \in 0..(Span - 1) /\ (step - 1) + 1 = step
        BY <2>2, <2>5, <3>3
      <4>3. reached <= x /\ x <= reached + 1
        <5>1. /\ XAt(curve, step - 1, Span) <= XAt(curve, (step - 1) + 1, Span)
              /\ XAt(curve, (step - 1) + 1, Span) <= XAt(curve, step - 1, Span) + 1
          BY <2>2, <2>3, <2>14, <3>1, <4>2, QuadraticSteps DEF First
        <5> QED BY <2>6, <4>1, <4>2, <5>1
      <4>4. ~wide
        BY <2>3, <2>6, <4>3
      <4>5. ASSUME NEW q \in start..(end - 1), q <= x PROVE q \in samples'
        <5>1. q <= reached \/ q = x
          BY <2>2, <2>3, <2>6, <4>3, <4>5
        <5>2. CASE q <= reached
          BY <2>7, <4>1, <5>2 DEF UpTo
        <5>3. CASE q = x
          BY <2>2, <2>6, <2>7, <5>3
        <5> QED BY <5>1, <5>2, <5>3
      <4>6. reads' = {}
        BY <2>7, <4>1, <4>4
      <4> QED BY <4>5, <4>6 DEF UpTo
    <3> QED
      <4>1. start - First <= step /\ start - First \in Int /\ step \in Int
        BY <2>1, <2>2, <2>3 DEF Rounds
      <4> QED BY <3>2, <3>3, <4>1
  <2>15. ASSUME NEW p, NEW S PROVE UpTo(p, S) => \A q \in start'..(end' - 1) : q <= p => q \in S
    BY <2>4 DEF UpTo
  <2>16. UpTo(x, samples' \cup fills') => UpTo(reached, samples \cup fills)'
    BY <2>4, <2>7 DEF UpTo
  <2>17. UpTo(x, samples') => UpTo(reached, samples)'
    BY <2>4, <2>7 DEF UpTo
  <2> QED BY <2>4, <2>9, <2>10, <2>11, <2>12, <2>13, <2>14, <2>16, <2>17 DEF CurveInv
<1> QED BY <1>1, <1>2

THEOREM CurvesAreFilled == CurveSpec => []Filled
<1>1. CurveInv => Filled
  <2> SUFFICES ASSUME CurveInv PROVE Filled
    OBVIOUS
  <2>1. CurveTypeOK /\ Rounds
    BY DEF CurveInv
  <2>2. /\ start \in Nat /\ end \in Nat /\ First \in Nat /\ First <= start /\ start < end
        /\ step \in Nat /\ reached \in Nat /\ Resolution * (end - start) \in Nat
    <3>1. Resolution \in Nat /\ end - start \in Nat
      BY <2>1, CurveFacts
    <3> QED BY <2>1, <3>1, CurveFacts DEF CurveTypeOK
  <2>3. ASSUME Generated PROVE step > start - First /\ \A p \in start..(end - 1) : p <= reached
    <3>1. step >= Resolution * (end - start) /\ reached >= end
      BY <2>2, <2>3 DEF Generated
    <3>2. step # start - First
      BY <2>1, <2>2, <3>1 DEF Rounds
    <3> QED BY <2>1, <2>2, <3>1, <3>2 DEF Rounds
  <2>4. ASSUME Generated, start = First PROVE samples \cup fills = start..(end - 1)
    <3>1. step > 0
      BY <2>2, <2>3, <2>4
    <3> QED BY <2>3, <2>4, <3>1 DEF CurveInv, UpTo
  <2>5. ASSUME Len(curve) = 3
        PROVE  reads = {} /\ (Generated => samples = start..(end - 1))
    BY <2>3, <2>5 DEF CurveInv, UpTo
  <2>6. samples \cup fills \subseteq start..(end - 1)
    BY DEF CurveInv
  <2> QED BY <2>4, <2>5, <2>6 DEF Filled, First
<1> QED BY <1>1, CurveInitial, CurveStep, PTL DEF CurveSpec

-----------------------------------------------------------------------------
(* TableSize: calculating the size, and the memory of tables               *)

LEMMA TableConstants ==
    /\ Bits \in Nat /\ Bits >= 2 /\ SizeFactor \in Nat \ {0} /\ Len(Shifts) \in Nat
    /\ Len(Shifts) > 0 /\ \A k \in 1..Len(Shifts) : Shifts[k] \in Nat /\ Shifts[k] > 0
<1>1. /\ Bits \in Nat /\ SizeFactor \in Nat \ {0} /\ Len(Shifts) \in Nat /\ Len(Shifts) > 0
      /\ \A k \in 1..Len(Shifts) : Shifts[k] \in Nat
      /\ Shifts[1] = 1 /\ 2 * Shifts[Len(Shifts)] = Bits
      /\ \A k \in 1..(Len(Shifts) - 1) : Shifts[k + 1] = 2 * Shifts[k]
  BY TableSizeAssumption
<1> DEFINE S == {k \in 0..(Len(Shifts) - 1) : Shifts[k + 1] > 0}
<1>2. 0 \in S
  BY <1>1
<1>3. ASSUME NEW k \in 1..(Len(Shifts) - 1), k - 1 \in S PROVE k \in S
  <2>1. k \in 1..Len(Shifts) /\ Shifts[(k - 1) + 1] > 0 /\ (k - 1) + 1 = k
    BY <1>1, <1>3
  <2>2. Shifts[k] \in Nat /\ Shifts[k] > 0 /\ Shifts[k + 1] = 2 * Shifts[k]
    BY <1>1, <2>1
  <2> QED BY <2>2
<1>4. 0..(Len(Shifts) - 1) \subseteq S
  <2>1. Len(Shifts) - 1 \in Nat
    BY <1>1
  <2> HIDE DEF S
  <2> QED BY <1>2, <1>3, <2>1, UpFromZero
<1>5. ASSUME NEW k \in 1..Len(Shifts) PROVE Shifts[k] > 0
  <2>1. k - 1 \in 0..(Len(Shifts) - 1) /\ (k - 1) + 1 = k
    BY <1>1
  <2>2. k - 1 \in S
    BY <1>4, <2>1
  <2> QED BY <2>1, <2>2
<1>6. Shifts[Len(Shifts)] \in Nat /\ Shifts[Len(Shifts)] > 0
  BY <1>1, <1>5
<1> QED BY <1>1, <1>5, <1>6

-----------------------------------------------------------------------------
(* Powers of two                                                             *)

LEMMA PowerUnfolds ==
    /\ PowerOfTwo \in [0..Bits -> Nat] /\ PowerOfTwo[0] = 1
    /\ \A k \in 1..Bits : PowerOfTwo[k] = 2 * PowerOfTwo[k - 1]
<1> DEFINE Is(g) == g = [k \in 0..Bits |-> IF k = 0 THEN 1 ELSE 2 * g[k - 1]]
<1>0. Bits \in Nat
  BY TableConstants
<1>1. PowerOfTwo = CHOOSE g : Is(g)
  BY DEF PowerOfTwo
<1>2. PICK T : T = Nat
  OBVIOUS
<1>3. PICK f \in [0..Bits -> Nat] : f[0] = 1 /\ \A k \in 1..Bits : f[k] = 2 * f[k - 1]
  <2>1. PICK next : next = [k \in 1..Bits |-> [v \in Nat |-> 2 * v]]
    OBVIOUS
  <2>2. next \in [1..Bits -> [T -> T]] /\ 1 \in T
    BY <1>2, <2>1
  <2>3. PICK f \in [0..Bits -> T] : f[0] = 1 /\ \A k \in 1..Bits : f[k] = next[k][f[k - 1]]
    <3>1. PICK f \in [0..Bits -> T] : Iterates(f, Bits, 1, next)
      BY <1>0, <2>2, RecursionExists
    <3> QED BY <3>1 DEF Iterates
  <2>4. ASSUME NEW k \in 1..Bits PROVE f[k] = 2 * f[k - 1]
    <3>1. k - 1 \in 0..Bits
      BY <1>0
    <3>2. f[k - 1] \in Nat
      BY <1>2, <3>1
    <3> QED BY <2>1, <2>3, <3>2
  <2> QED BY <1>2, <2>3, <2>4
<1>5. Is(f)
  <2>1. \A k \in 0..Bits : f[k] = IF k = 0 THEN 1 ELSE 2 * f[k - 1]
    <3>1. \A k \in 0..Bits : k = 0 \/ k \in 1..Bits
      BY <1>0
    <3> QED BY <1>3, <3>1
  <2>2. f = [k \in 0..Bits |-> f[k]]
    BY <1>3
  <2> QED BY <2>1, <2>2
<1>6. Is(PowerOfTwo)
  <2> HIDE DEF Is
  <2> QED BY <1>1, <1>5
<1> DEFINE P == PowerOfTwo
<1>7. \A k \in 0..Bits : P[k] = IF k = 0 THEN 1 ELSE 2 * P[k - 1]
  <2> HIDE DEF P
  <2>1. P = [k \in 0..Bits |-> IF k = 0 THEN 1 ELSE 2 * P[k - 1]]
    BY <1>6 DEF P
  <2> QED BY <2>1
<1> QED
  <2>0. P = [k \in 0..Bits |-> P[k]]
    BY <1>6
  <2> HIDE DEF P
  <2> DEFINE S == {k \in 0..Bits : P[k] \in Nat}
  <2>1. 0 \in S
    BY <1>0, <1>7
  <2>2. ASSUME NEW k \in 1..Bits, k - 1 \in S PROVE k \in S
    BY <1>0, <1>7, <2>2
  <2>3. 0..Bits \subseteq S
    <3> HIDE DEF S
    <3> QED BY <1>0, <2>1, <2>2, UpFromZero
  <2>5. P \in [0..Bits -> Nat]
    BY <2>0, <2>3
  <2>6. P[0] = 1 /\ \A k \in 1..Bits : P[k] = 2 * P[k - 1]
    BY <1>0, <1>7
  <2> QED BY <2>5, <2>6 DEF P

LEMMA PowerGrows ==
    ASSUME NEW j \in 0..Bits, NEW k \in 0..Bits
    PROVE  /\ PowerOfTwo[j] \in Nat /\ PowerOfTwo[j] > 0
           /\ j <= k => PowerOfTwo[j] <= PowerOfTwo[k]
           /\ j < k => 2 * PowerOfTwo[j] <= PowerOfTwo[k]
<1> DEFINE P == PowerOfTwo
           S == {n \in 0..Bits : P[n] > 0 /\ \A i \in 0..n : P[i] <= P[n]}
<1>1. Bits \in Nat /\ P \in [0..Bits -> Nat] /\ P[0] = 1 /\ \A n \in 1..Bits : P[n] = 2 * P[n - 1]
  BY TableConstants, PowerUnfolds
<1> HIDE DEF P
<1>2. 0 \in S
  BY <1>1
<1>3. ASSUME NEW n \in 1..Bits, n - 1 \in S PROVE n \in S
  <2>1. P[n] = 2 * P[n - 1] /\ P[n - 1] \in Nat /\ P[n - 1] > 0
    BY <1>1, <1>3
  <2>2. ASSUME NEW i \in 0..n PROVE P[i] <= P[n]
    <3>1. CASE i = n
      BY <1>1, <3>1
    <3>2. CASE i # n
      <4>1. i \in 0..(n - 1) /\ i \in 0..Bits
        BY <3>2, <1>1
      <4>2. P[i] <= P[n - 1] /\ P[i] \in Nat
        BY <1>1, <1>3, <4>1
      <4> QED BY <2>1, <4>2
    <3> QED BY <3>1, <3>2
  <2> QED BY <1>1, <2>1, <2>2
<1>4. 0..Bits \subseteq S
  <2> HIDE DEF S
  <2> QED BY <1>1, <1>2, <1>3, UpFromZero
<1>5. P[j] \in Nat /\ P[j] > 0 /\ P[k] \in Nat
  BY <1>1, <1>4
<1>6. ASSUME j <= k PROVE P[j] <= P[k]
  <2>1. j \in 0..k /\ k \in S
    BY <1>1, <1>4, <1>6
  <2> QED BY <2>1
<1>7. ASSUME j < k PROVE 2 * P[j] <= P[k]
  <2>1. j \in 0..(k - 1) /\ k - 1 \in S /\ k \in 1..Bits
    BY <1>1, <1>4, <1>7
  <2>2. P[j] <= P[k - 1] /\ P[k] = 2 * P[k - 1] /\ P[k - 1] \in Nat
    BY <1>1, <2>1
  <2> QED BY <1>5, <2>2
<1> QED BY <1>5, <1>6, <1>7 DEF P

LEMMA PowerAdds ==
    ASSUME NEW j \in Nat, NEW k \in Nat, j + k <= Bits
    PROVE  PowerOfTwo[j + k] = PowerOfTwo[j] * PowerOfTwo[k]
<1> DEFINE P == PowerOfTwo
           S == {n \in 0..k : P[j + n] = P[j] * P[n]}
<1>1. Bits \in Nat /\ P \in [0..Bits -> Nat] /\ P[0] = 1 /\ \A n \in 1..Bits : P[n] = 2 * P[n - 1]
  BY TableConstants, PowerUnfolds
<1> HIDE DEF P
<1>2. 0 \in S
  <2>1. j \in 0..Bits /\ j + 0 = j
    BY <1>1
  <2>2. P[j] \in Nat
    BY <1>1, <2>1
  <2> QED BY <1>1, <2>1, <2>2
<1>3. ASSUME NEW n \in 1..k, n - 1 \in S PROVE n \in S
  <2>1. n \in 1..Bits /\ j + n \in 1..Bits /\ (j + n) - 1 = j + (n - 1) /\ n - 1 \in 0..Bits /\ j \in 0..Bits
    BY <1>1
  <2>2. P[j + n] = 2 * P[j + (n - 1)] /\ P[n] = 2 * P[n - 1] /\ P[j] \in Nat /\ P[n - 1] \in Nat
    BY <1>1, <2>1
  <2>3. P[j + (n - 1)] = P[j] * P[n - 1]
    BY <1>3
  <2>4. \A a, b \in Nat : 2 * (a * b) = a * (2 * b)
    OBVIOUS
  <2>5. 2 * (P[j] * P[n - 1]) = P[j] * (2 * P[n - 1])
    BY <2>2, <2>4
  <2> QED BY <2>2, <2>3, <2>5
<1>4. 0..k \subseteq S
  <2> HIDE DEF S
  <2> QED BY <1>2, <1>3, UpFromZero
<1> QED BY <1>4 DEF P

-----------------------------------------------------------------------------
(* The bits of a number                                                      *)

\* The highest bit of a number.
LEMMA TopBit ==
    ASSUME NEW m \in Nat, m > 0, m < PowerOfTwo[Bits]
    PROVE  \E top \in 0..(Bits - 1) :
             PowerOfTwo[top] <= m /\ m < PowerOfTwo[top + 1]
<1> DEFINE Above == {k \in 0..Bits : m < PowerOfTwo[k]}
<1>1. Bits \in Nat /\ PowerOfTwo \in [0..Bits -> Nat] /\ PowerOfTwo[0] = 1
  BY TableConstants, PowerUnfolds
<1>2. Bits \in Above /\ Above \subseteq Nat /\ 0 \notin Above
  BY <1>1
<1>3. PICK k \in Above : \A n \in Above : k <= n
  <2> HIDE DEF Above
  <2> QED BY <1>2, LeastNumber
<1>4. k \in 1..Bits /\ k - 1 \in 0..Bits /\ ~(k <= k - 1) /\ (k - 1) + 1 = k
  BY <1>1, <1>2
<1>5. k - 1 \notin Above
  <2> HIDE DEF Above
  <2> QED BY <1>3, <1>4
<1>6. PowerOfTwo[k - 1] <= m /\ m < PowerOfTwo[(k - 1) + 1] /\ k - 1 \in 0..(Bits - 1)
  BY <1>1, <1>4, <1>5
<1> QED BY <1>6

LEMMA BitsBelow ==
    ASSUME NEW m \in Nat, NEW k \in 0..Bits, m < PowerOfTwo[k]
    PROVE  BitsOf(m) \subseteq 0..(k - 1)
<1>1. Bits \in Nat
  BY TableConstants
<1>2. ASSUME NEW b \in 0..(Bits - 1), b >= k PROVE (m \div PowerOfTwo[b]) % 2 # 1
  <2>1. k <= b /\ b \in 0..Bits
    BY <1>1, <1>2
  <2>2. PowerOfTwo[k] <= PowerOfTwo[b] /\ PowerOfTwo[b] \in Nat \ {0} /\ PowerOfTwo[k] \in Nat
    BY <2>1, PowerGrows
  <2>3. m \in 0..(PowerOfTwo[b] - 1) /\ m = PowerOfTwo[b] * 0 + m
    BY <2>2
  <2>4. m \div PowerOfTwo[b] = 0
    BY <2>2, <2>3, DivUnique
  <2> QED BY <2>4
<1>3. ASSUME NEW b \in BitsOf(m) PROVE b \in 0..(k - 1)
  <2>1. b \in 0..(Bits - 1) /\ (m \div PowerOfTwo[b]) % 2 = 1
    BY DEF BitsOf
  <2>2. ~(b >= k)
    BY <1>2, <2>1, Zenon
  <2> QED BY <1>1, <2>1, <2>2
<1> QED BY <1>3

LEMMA TopBitIsOne ==
    ASSUME NEW m \in Nat, NEW top \in 0..(Bits - 1),
           PowerOfTwo[top] <= m, m < PowerOfTwo[top + 1]
    PROVE  top \in BitsOf(m) /\ BitsOf(m) \subseteq 0..top
<1>1. Bits \in Nat /\ top \in 0..Bits /\ top + 1 \in 0..Bits /\ top + 1 \in 1..Bits /\ (top + 1) - 1 = top
  BY TableConstants
<1>2. PowerOfTwo[top + 1] = 2 * PowerOfTwo[top]
  BY <1>1, PowerUnfolds
<1>3. PowerOfTwo[top] \in Nat \ {0}
  BY <1>1, PowerGrows
<1>4. m - PowerOfTwo[top] \in 0..(PowerOfTwo[top] - 1) /\ m = PowerOfTwo[top] * 1 + (m - PowerOfTwo[top])
  BY <1>2, <1>3
<1>5. m \div PowerOfTwo[top] = 1
  <2>1. PICK p \in Nat \ {0}, r \in 0..(PowerOfTwo[top] - 1) : p = PowerOfTwo[top] /\ r = m - PowerOfTwo[top]
    BY <1>3, <1>4
  <2>2. (p * 1 + r) \div p = 1
    BY <2>1, DivUnique
  <2> QED BY <1>3, <1>4, <2>1, <2>2
<1>6. BitsOf(m) \subseteq 0..((top + 1) - 1)
  BY <1>1, BitsBelow
<1> QED BY <1>1, <1>5, <1>6 DEF BitsOf

\* A power of two has no bit below its own, the number before it has them all.
LEMMA BitsOfPower ==
    ASSUME NEW k \in 0..Bits
    PROVE  BitsOf(PowerOfTwo[k] - 1) = 0..(k - 1) /\ BitsOf(PowerOfTwo[k]) \cap (0..(k - 1)) = {}
<1>1. Bits \in Nat
  BY TableConstants
<1>2. PowerOfTwo[k] \in Nat /\ PowerOfTwo[k] > 0
  BY PowerGrows
<1>3. ASSUME NEW b \in 0..(k - 1)
      PROVE  /\ ((PowerOfTwo[k] - 1) \div PowerOfTwo[b]) % 2 = 1
             /\ (PowerOfTwo[k] \div PowerOfTwo[b]) % 2 = 0
  <2> DEFINE x == PowerOfTwo[(k - b) - 1]
             p == PowerOfTwo[b]
  <2>1. b \in 0..Bits /\ (k - b) - 1 \in 0..Bits /\ k - b \in 1..Bits /\ b + (k - b) = k
        /\ b \in Nat /\ k - b \in Nat /\ b + (k - b) <= Bits
    BY <1>1
  <2>2. x \in Nat /\ x > 0 /\ p \in Nat /\ p > 0 /\ PowerOfTwo[k - b] = 2 * x
    BY <2>1, PowerGrows, PowerUnfolds
  <2>3. PowerOfTwo[k] = p * (2 * x)
    BY <2>1, <2>2, PowerAdds
  <2> HIDE DEF x, p
  <2>4. \A c, d \in Nat : d > 0 => c * d - 1 = c * (d - 1) + (c - 1)
    <3>1. TAKE c, d \in Nat
    <3>2. HAVE d > 0
    <3>3. PICK e \in Nat : e = d - 1 /\ d = e + 1
      BY <3>2
    <3>4. c * (e + 1) = c * e + c
      OBVIOUS
    <3> QED BY <3>3, <3>4
  <2>5. 2 * x \in Nat /\ 2 * x > 0 /\ 2 * x - 1 \in Nat /\ p \in Nat \ {0} /\ p - 1 \in 0..(p - 1) /\ 0 \in 0..(p - 1)
    BY <2>2
  <2>6. PowerOfTwo[k] - 1 = p * (2 * x - 1) + (p - 1)
    <3>1. p * (2 * x) - 1 = p * (2 * x - 1) + (p - 1)
      BY <2>4, <2>5
    <3> QED BY <2>3, <3>1
  <2>7. (p * (2 * x - 1) + (p - 1)) \div p = 2 * x - 1
    <3>1. PICK q \in Nat, r \in 0..(p - 1) : q = 2 * x - 1 /\ r = p - 1
      BY <2>5
    <3>2. (p * q + r) \div p = q
      BY <2>5, DivUnique
    <3> QED BY <3>1, <3>2
  <2>8. (p * (2 * x) + 0) \div p = 2 * x /\ p * (2 * x) + 0 = p * (2 * x)
    <3>1. PICK q \in Nat : q = 2 * x
      BY <2>5
    <3>2. (p * q + 0) \div p = q /\ p * q + 0 = p * q
      BY <2>5, DivUnique, TimesNat
    <3> QED BY <3>1, <3>2
  <2>9. (2 * x - 1) % 2 = 1 /\ (2 * x) % 2 = 0
    BY <2>2
  <2>10. (PowerOfTwo[k] - 1) \div p = 2 * x - 1
    BY <2>6, <2>7
  <2>11. PowerOfTwo[k] \div p = 2 * x
    BY <2>3, <2>8
  <2> QED BY <2>9, <2>10, <2>11 DEF p
<1>4. BitsOf(PowerOfTwo[k] - 1) \subseteq 0..(k - 1)
  <2>1. PowerOfTwo[k] - 1 \in Nat /\ PowerOfTwo[k] - 1 < PowerOfTwo[k]
    BY <1>2
  <2> QED BY <2>1, BitsBelow
<1>5. 0..(k - 1) \subseteq 0..(Bits - 1)
  BY <1>1
<1>6. 0..(k - 1) \subseteq BitsOf(PowerOfTwo[k] - 1)
  BY <1>3, <1>5 DEF BitsOf
<1>7. BitsOf(PowerOfTwo[k]) \cap (0..(k - 1)) = {}
  <2>1. ASSUME NEW b \in BitsOf(PowerOfTwo[k]), b \in 0..(k - 1) PROVE FALSE
    <3>1. (PowerOfTwo[k] \div PowerOfTwo[b]) % 2 = 1
      BY DEF BitsOf
    <3>2. (PowerOfTwo[k] \div PowerOfTwo[b]) % 2 = 0
      BY <1>3, <2>1
    <3> QED BY <3>1, <3>2
  <2> QED BY <2>1
<1> QED BY <1>4, <1>6, <1>7

-----------------------------------------------------------------------------
(* The rounded size                                                          *)

\* Once the highest bit was shifted by each number, all bits below are one.
LEMMA SmearFills ==
    ASSUME NEW top \in 0..(Bits - 1), NEW bits \in SUBSET (0..top), top \in bits
    PROVE  Smeared(bits) = 0..top
<1> DEFINE after[k \in 0..Len(Shifts)] ==
              IF k = 0 THEN bits
              ELSE after[k - 1] \cup ShiftedRight(after[k - 1], Shifts[k])
           Is(g) == g = [k \in 0..Len(Shifts) |->
                           IF k = 0 THEN bits
                           ELSE g[k - 1] \cup ShiftedRight(g[k - 1], Shifts[k])]
<1>0. /\ Len(Shifts) \in Nat /\ Len(Shifts) > 0 /\ Bits \in Nat
      /\ \A k \in 1..Len(Shifts) : Shifts[k] \in Nat /\ Shifts[k] > 0
      /\ Shifts[1] = 1 /\ 2 * Shifts[Len(Shifts)] = Bits
      /\ \A k \in 1..(Len(Shifts) - 1) : Shifts[k + 1] = 2 * Shifts[k]
  BY TableConstants, TableSizeAssumption
<1>1. Smeared(bits) = after[Len(Shifts)]
  BY DEF Smeared
<1>2. after = CHOOSE g : Is(g)
  OBVIOUS
<1> HIDE DEF after
<1>3. \A S \in SUBSET (0..top), k \in 1..Len(Shifts) :
        ShiftedRight(S, Shifts[k]) \in SUBSET (0..top)
  BY <1>0 DEF ShiftedRight
<1>4. PICK f \in [0..Len(Shifts) -> SUBSET (0..top)] :
        f[0] = bits /\ \A k \in 1..Len(Shifts) :
                         f[k] = f[k - 1] \cup ShiftedRight(f[k - 1], Shifts[k])
  <2>1. PICK T : T = SUBSET (0..top)
    OBVIOUS
  <2>2. PICK next : next = [k \in 1..Len(Shifts) |->
                              [S \in T |-> S \cup ShiftedRight(S, Shifts[k])]]
    OBVIOUS
  <2>3. next \in [1..Len(Shifts) -> [T -> T]] /\ bits \in T
    <3>1. \A k \in 1..Len(Shifts) : [S \in T |-> S \cup ShiftedRight(S, Shifts[k])] \in [T -> T]
      BY <1>3, <2>1
    <3> QED BY <2>1, <2>2, <3>1
  <2>4. PICK f \in [0..Len(Shifts) -> T] : Iterates(f, Len(Shifts), bits, next)
    BY <1>0, <2>3, RecursionExists
  <2>5. ASSUME NEW k \in 1..Len(Shifts)
        PROVE  f[k] = f[k - 1] \cup ShiftedRight(f[k - 1], Shifts[k])
    <3>1. k - 1 \in 0..Len(Shifts)
      BY <1>0
    <3>2. f[k - 1] \in T
      BY <3>1
    <3>3. f[k] = next[k][f[k - 1]]
      BY <2>4 DEF Iterates
    <3> QED BY <2>2, <3>2, <3>3
  <2> QED BY <2>1, <2>4, <2>5 DEF Iterates
<1>5. Is(f)
  <2>1. \A k \in 0..Len(Shifts) : f[k] = IF k = 0 THEN bits
                                  ELSE f[k - 1] \cup ShiftedRight(f[k - 1], Shifts[k])
    <3>1. \A k \in 0..Len(Shifts) : k = 0 \/ k \in 1..Len(Shifts)
      BY <1>0
    <3> QED BY <1>4, <3>1
  <2>2. f = [k \in 0..Len(Shifts) |-> f[k]]
    BY <1>4
  <2> QED BY <2>1, <2>2
<1>6. Is(after)
  <2> HIDE DEF Is
  <2> QED BY <1>2, <1>5
<1>7. /\ after[0] = bits
      /\ \A k \in 1..Len(Shifts) : after[k] = after[k - 1] \cup ShiftedRight(after[k - 1], Shifts[k])
  <2>1. \A k \in 0..Len(Shifts) : after[k] = IF k = 0 THEN bits
                                  ELSE after[k - 1] \cup ShiftedRight(after[k - 1], Shifts[k])
    BY <1>6
  <2>2. \A k \in 1..Len(Shifts) : k \in 0..Len(Shifts) /\ k # 0
    BY <1>0
  <2>3. 0 \in 0..Len(Shifts)
    BY <1>0
  <2> HIDE DEF Is
  <2> QED BY <2>1, <2>2, <2>3
<1> HIDE DEF Is
<1> DEFINE reach(k) == IF k = 0 THEN 1 ELSE 2 * Shifts[k]
           S == {k \in 0..Len(Shifts) : /\ after[k] \subseteq 0..top
                                       /\ \A b \in 0..top : b > top - reach(k) => b \in after[k]}
<1>8. 0 \in S
  <2>1. \A b \in 0..top : b > top - 1 => b = top
    OBVIOUS
  <2>2. reach(0) = 1 /\ 0 \in 0..Len(Shifts)
    BY <1>0
  <2> HIDE DEF reach
  <2> QED BY <1>7, <2>1, <2>2
<1>9. ASSUME NEW k \in 1..Len(Shifts), k - 1 \in S PROVE k \in S
  <2>1. Shifts[k] = reach(k - 1) /\ Shifts[k] \in Nat /\ Shifts[k] > 0 /\ reach(k) = 2 * Shifts[k]
    <3>1. CASE k = 1
      BY <1>0, <3>1
    <3>2. CASE k # 1
      <4>1. k - 1 \in 1..(Len(Shifts) - 1) /\ (k - 1) + 1 = k
        BY <1>0, <3>2
      <4>2. Shifts[(k - 1) + 1] = 2 * Shifts[k - 1]
        BY <1>0, <4>1
      <4> QED BY <1>0, <4>1, <4>2
    <3> QED BY <3>1, <3>2
  <2>2. /\ after[k - 1] \subseteq 0..top
        /\ \A b \in 0..top : b > top - Shifts[k] => b \in after[k - 1]
    <3> HIDE DEF reach
    <3> QED BY <1>9, <2>1
  <2>3. after[k] = after[k - 1] \cup ShiftedRight(after[k - 1], Shifts[k])
    BY <1>7
  <2>4. after[k] \subseteq 0..top
    BY <1>3, <2>2, <2>3
  <2>5. ASSUME NEW b \in 0..top, b > top - reach(k) PROVE b \in after[k]
    <3>1. CASE b > top - Shifts[k]
      BY <2>2, <2>3, <3>1
    <3>2. CASE ~(b > top - Shifts[k])
      <4>1. b > top - 2 * Shifts[k]
        BY <2>1, <2>5
      <4>2. b + Shifts[k] \in 0..top /\ b + Shifts[k] > top - Shifts[k]
            /\ b + Shifts[k] >= Shifts[k] /\ (b + Shifts[k]) - Shifts[k] = b
        BY <2>1, <3>2, <4>1
      <4>3. b + Shifts[k] \in after[k - 1]
        BY <2>2, <4>2
      <4>4. b \in ShiftedRight(after[k - 1], Shifts[k])
        BY <4>2, <4>3 DEF ShiftedRight
      <4> QED BY <2>3, <4>4
    <3> QED BY <3>1, <3>2
  <2> HIDE DEF reach
  <2> QED BY <1>0, <2>4, <2>5
<1>10. 0..Len(Shifts) \subseteq S
  <2> HIDE DEF S
  <2> QED BY <1>0, <1>8, <1>9, UpFromZero
<1>11. Len(Shifts) \in S /\ reach(Len(Shifts)) = Bits
  <2> HIDE DEF S
  <2> QED BY <1>0, <1>10
<1>12. \A b \in 0..top : b > top - Bits
  BY <1>0
<1>13. after[Len(Shifts)] = 0..top
  <2> HIDE DEF reach
  <2> QED BY <1>11, <1>12
<1> QED BY <1>1, <1>13

\* The number whose bits are all those up to a given one.
LEMMA NumberOfAll ==
    ASSUME NEW top \in 0..(Bits - 1)
    PROVE  NumberOf(0..top) = PowerOfTwo[top + 1] - 1
<1> DEFINE bits == 0..top
           below[k \in 0..Bits] ==
              IF k = 0 THEN 0
              ELSE below[k - 1] + IF k - 1 \in bits THEN PowerOfTwo[k - 1] ELSE 0
           Is(g) == g = [k \in 0..Bits |->
                           IF k = 0 THEN 0
                           ELSE g[k - 1] + IF k - 1 \in bits THEN PowerOfTwo[k - 1] ELSE 0]
           Sum(k) == IF k <= top THEN PowerOfTwo[k] - 1 ELSE PowerOfTwo[top + 1] - 1
           f == [k \in 0..Bits |-> Sum(k)]
<1>0. /\ Bits \in Nat /\ PowerOfTwo \in [0..Bits -> Nat] /\ PowerOfTwo[0] = 1
      /\ \A k \in 1..Bits : PowerOfTwo[k] = 2 * PowerOfTwo[k - 1]
  BY TableConstants, PowerUnfolds
<1>1. NumberOf(bits) = below[Bits]
  BY DEF NumberOf
<1>2. below = CHOOSE g : Is(g)
  OBVIOUS
<1> HIDE DEF below
<1>3. Is(f)
  <2>1. ASSUME NEW k \in 1..Bits
        PROVE  Sum(k) = Sum(k - 1) + IF k - 1 \in bits THEN PowerOfTwo[k - 1] ELSE 0
    <3>1. /\ PowerOfTwo[k] = 2 * PowerOfTwo[k - 1] /\ PowerOfTwo[k - 1] \in Nat
          /\ top + 1 \in 1..Bits /\ PowerOfTwo[top + 1] \in Nat /\ PowerOfTwo[k] \in Nat
      BY <1>0
    <3>2. CASE k <= top
      BY <3>1, <3>2
    <3>3. CASE k = top + 1
      <4>1. k - 1 = top /\ k - 1 \in bits
        BY <3>3
      <4> QED BY <3>1, <3>3, <4>1
    <3>4. CASE k > top + 1
      BY <3>1, <3>4
    <3> QED BY <3>2, <3>3, <3>4
  <2>2. Sum(0) = 0
    BY <1>0
  <2> HIDE DEF Sum
  <2>3. \A k \in 0..Bits : f[k] = Sum(k)
    OBVIOUS
  <2>4. ASSUME NEW k \in 0..Bits
        PROVE  f[k] = IF k = 0 THEN 0
                      ELSE f[k - 1] + IF k - 1 \in bits THEN PowerOfTwo[k - 1] ELSE 0
    <3>1. CASE k = 0
      BY <2>2, <3>1
    <3>2. CASE k # 0
      <4>1. k \in 1..Bits /\ k - 1 \in 0..Bits
        BY <1>0, <3>2
      <4> QED BY <2>1, <2>3, <3>2, <4>1
    <3> QED BY <3>1, <3>2
  <2>5. f = [k \in 0..Bits |-> f[k]]
    OBVIOUS
  <2> HIDE DEF f
  <2> QED BY <2>4, <2>5
<1>4. Is(below)
  <2> HIDE DEF Is, f
  <2> QED BY <1>2, <1>3
<1>5. \A k \in 0..Bits : below[k] = IF k = 0 THEN 0
                         ELSE below[k - 1] + IF k - 1 \in bits THEN PowerOfTwo[k - 1] ELSE 0
  BY <1>4
<1>6. \A k \in 0..Bits : f[k] = IF k = 0 THEN 0
                         ELSE f[k - 1] + IF k - 1 \in bits THEN PowerOfTwo[k - 1] ELSE 0
  <2> HIDE DEF f
  <2> QED BY <1>3
<1> HIDE DEF Is, f, Sum
<1> DEFINE S == {k \in 0..Bits : below[k] = f[k]}
<1>7. 0 \in S
  BY <1>0, <1>5, <1>6
<1>8. ASSUME NEW k \in 1..Bits, k - 1 \in S PROVE k \in S
  <2>1. k \in 0..Bits /\ k # 0 /\ below[k - 1] = f[k - 1]
    BY <1>0, <1>8
  <2> QED BY <1>5, <1>6, <2>1
<1>9. 0..Bits \subseteq S
  <2> HIDE DEF S
  <2> QED BY <1>0, <1>7, <1>8, UpFromZero
<1>10. below[Bits] = f[Bits]
  BY <1>0, <1>9
<1>11. f[Bits] = PowerOfTwo[top + 1] - 1
  BY <1>0 DEF f, Sum
<1> QED BY <1>1, <1>10, <1>11

\* A request is rounded to the next power of two, wrapped as a word is.
LEMMA Rounded ==
    ASSUME NEW n \in Nat, NEW wanted \in Nat,
           wanted = (IF Wrapped(SizeFactor * n) < 2 THEN 2 ELSE Wrapped(SizeFactor * n))
    PROVE  \E top \in 0..(Bits - 1) :
             /\ PowerOfTwo[top] <= wanted - 1 /\ wanted - 1 < PowerOfTwo[top + 1]
             /\ CalculateSize(n) = (PowerOfTwo[top + 1]) % PowerOfTwo[Bits]
<1>0. /\ Bits \in Nat /\ Bits >= 2 /\ PowerOfTwo \in [0..Bits -> Nat] /\ PowerOfTwo[0] = 1
      /\ \A k \in 1..Bits : PowerOfTwo[k] = 2 * PowerOfTwo[k - 1]
      /\ SizeFactor \in Nat \ {0}
  BY TableConstants, PowerUnfolds
<1>1. PowerOfTwo[Bits] \in Nat /\ PowerOfTwo[Bits] > 2
  <2>1. PowerOfTwo[1] = 2
    <3>1. PowerOfTwo[1] = 2 * PowerOfTwo[1 - 1]
      BY <1>0
    <3> QED BY <1>0, <3>1
  <2>2. 1 \in 0..Bits /\ Bits \in 0..Bits /\ 1 < Bits
    BY <1>0
  <2>3. 2 * PowerOfTwo[1] <= PowerOfTwo[Bits] /\ PowerOfTwo[Bits] \in Nat
    BY <1>0, <2>2, PowerGrows
  <2> QED BY <2>1, <2>3
<1>2. Wrapped(SizeFactor * n) \in 0..(PowerOfTwo[Bits] - 1)
  <2>1. SizeFactor * n \in Nat /\ PowerOfTwo[Bits] \in Nat \ {0}
    BY <1>0, <1>1, TimesNat
  <2> QED BY <2>1, DivMod DEF Wrapped
<1>3. wanted - 1 \in Nat /\ wanted - 1 > 0 /\ wanted - 1 < PowerOfTwo[Bits]
  BY <1>1, <1>2
<1>4. PICK top \in 0..(Bits - 1) : PowerOfTwo[top] <= wanted - 1 /\ wanted - 1 < PowerOfTwo[top + 1]
  BY <1>3, TopBit
<1>5. top \in BitsOf(wanted - 1) /\ BitsOf(wanted - 1) \in SUBSET (0..top)
  <2>1. top \in BitsOf(wanted - 1) /\ BitsOf(wanted - 1) \subseteq 0..top
    BY <1>3, <1>4, TopBitIsOne
  <2> QED BY <2>1
<1>6. Smeared(BitsOf(wanted - 1)) = 0..top
  BY <1>5, SmearFills
<1>7. NumberOf(0..top) = PowerOfTwo[top + 1] - 1
  BY NumberOfAll
<1>8. CalculateSize(n) = Wrapped(1 + NumberOf(Smeared(BitsOf(wanted - 1))))
  BY DEF CalculateSize
<1>9. 1 + (PowerOfTwo[top + 1] - 1) = PowerOfTwo[top + 1]
  <2>1. top + 1 \in 0..Bits
    BY <1>0
  <2>2. PowerOfTwo[top + 1] \in Nat
    BY <1>0, <2>1
  <2> QED BY <2>2
<1>10. CalculateSize(n) = (PowerOfTwo[top + 1]) % PowerOfTwo[Bits]
  BY <1>6, <1>7, <1>8, <1>9 DEF Wrapped
<1> QED BY <1>4, <1>10

-----------------------------------------------------------------------------
(* TablesReady                                                               *)

\* What the program of a table keeps at all times.
TableSizeInvariant ==
    /\ layout \in {"table", "set"}
    /\ outcome = "made" => /\ asked \in Nat /\ slots = CalculateSize(asked)
                           /\ mask = Wrapped(slots - 1)
    /\ held = IF outcome = "made" THEN {Blocks(layout)[i] : i \in DOMAIN Blocks(layout)} ELSE {}

LEMMA MadeSizeFits ==
    ASSUME asked \in Nat, slots = CalculateSize(asked), mask = Wrapped(slots - 1)
    PROVE  SizeFits /\ slots \in Nat
<1>0. /\ Bits \in Nat /\ Bits >= 2 /\ PowerOfTwo \in [0..Bits -> Nat] /\ PowerOfTwo[0] = 1
      /\ \A k \in 1..Bits : PowerOfTwo[k] = 2 * PowerOfTwo[k - 1]
      /\ SizeFactor \in Nat \ {0}
  BY TableConstants, PowerUnfolds
<1> DEFINE full == PowerOfTwo[Bits]
           half == PowerOfTwo[Bits - 1]
           request == SizeFactor * asked
           wanted == IF request < 2 THEN 2 ELSE request
           used == IF Wrapped(request) < 2 THEN 2 ELSE Wrapped(request)
<1>1. /\ full \in Nat \ {0} /\ half \in Nat \ {0} /\ full = 2 * half
      /\ full >= 4 /\ half >= 2 /\ Bits - 1 \in 0..Bits /\ Bits \in 0..Bits
  <2>1. Bits - 1 \in 0..Bits /\ Bits \in 0..Bits /\ Bits \in 1..Bits /\ 0 \in 0..Bits /\ 0 < Bits - 1
    BY <1>0
  <2>2. 2 * PowerOfTwo[0] <= half /\ half \in Nat /\ full = 2 * half
    BY <1>0, <2>1, PowerGrows
  <2> HIDE DEF full, half
  <2> QED BY <1>0, <2>1, <2>2
<1>2. request \in Nat /\ wanted \in Nat
  BY <1>0, TimesNat
<1>3. Wrapped(request) \in 0..(full - 1)
  BY <1>1, <1>2, DivMod DEF Wrapped
<1>4. used \in Nat
  BY <1>3
<1>5. PICK top \in 0..(Bits - 1) :
        /\ PowerOfTwo[top] <= used - 1 /\ used - 1 < PowerOfTwo[top + 1]
        /\ slots = (PowerOfTwo[top + 1]) % full
  <2> HIDE DEF full
  <2> QED BY <1>4, Rounded DEF full
<1> DEFINE low == PowerOfTwo[top]
           size == PowerOfTwo[top + 1]
<1>6. /\ top \in 0..Bits /\ top + 1 \in 0..Bits /\ low \in Nat \ {0} /\ size \in Nat \ {0}
      /\ size = 2 * low
  <2>1. top \in 0..Bits /\ top + 1 \in 0..Bits /\ top + 1 \in 1..Bits /\ (top + 1) - 1 = top
    BY <1>0
  <2>2. low \in Nat /\ low > 0
    BY <2>1, PowerGrows
  <2>3. size = 2 * low
    BY <1>0, <2>1
  <2> QED BY <2>1, <2>2, <2>3
<1>7. slots \in Nat
  <2>1. slots = size % full
    BY <1>5
  <2> HIDE DEF size, full
  <2>2. size % full \in 0..(full - 1)
    BY <1>1, <1>6, DivMod
  <2> QED BY <1>1, <2>1, <2>2
<1>8. ASSUME wanted < full PROVE used = wanted
  <2>1. request < full
    BY <1>1, <1>2, <1>8
  <2>2. \A a, b \in Nat : a < b => a % b = a
    <3>1. TAKE a, b \in Nat
    <3>2. HAVE a < b
    <3>3. b \in Nat \ {0} /\ a \in 0..(b - 1) /\ b * 0 + a = a
      BY <3>2
    <3>4. (b * 0 + a) % b = a
      BY <3>3, DivUnique
    <3> QED BY <3>3, <3>4
  <2>3. Wrapped(request) = request
    BY <1>1, <1>2, <2>1, <2>2 DEF Wrapped
  <2> QED BY <2>3
<1>9. ASSUME wanted > half, wanted < full PROVE slots = 0
  <2>1. used = wanted
    BY <1>8, <1>9
  <2>2. half <= wanted - 1 /\ half < size
    BY <1>1, <1>2, <1>5, <1>6, <1>9, <2>1
  <2>3. top = Bits - 1
    <3>1. CASE top + 1 <= Bits - 1
      <4>1. size <= half
        BY <1>1, <1>6, <3>1, PowerGrows
      <4> QED BY <1>1, <1>6, <2>2, <4>1
    <3> QED BY <1>0, <3>1
  <2>4. size = full
    BY <1>0, <2>3
  <2>5. \A a \in Nat \ {0} : a % a = 0
    <3>1. TAKE a \in Nat \ {0}
    <3>2. (a * 1 + 0) % a = 0
      BY DivUnique
    <3> QED BY <3>2
  <2> QED BY <1>1, <1>5, <2>4, <2>5
<1>10. ASSUME ~(wanted > half)
       PROVE  /\ wanted <= slots /\ slots < 2 * wanted
              /\ \A i \in 0..(slots - 1) : BitsOf(i) \subseteq BitsOf(mask)
              /\ BitsOf(slots) \cap BitsOf(mask) = {}
  <2>1. wanted < full /\ wanted <= half
    BY <1>1, <1>2, <1>10
  <2>2. low <= wanted - 1 /\ wanted - 1 < size
    BY <1>5, <1>8, <2>1
  <2>3. low < half
    BY <1>1, <1>2, <1>6, <2>1, <2>2
  <2>4. top < Bits - 1
    <3>1. CASE Bits - 1 <= top
      <4>1. half <= low
        BY <1>1, <1>6, <3>1, PowerGrows
      <4> QED BY <1>1, <1>6, <2>3, <4>1
    <3> QED BY <1>0, <3>1
  <2>5. size < full
    <3>1. top + 1 < Bits
      BY <1>0, <2>4
    <3>2. 2 * size <= full
      BY <1>1, <1>6, <3>1, PowerGrows
    <3> QED BY <1>1, <1>6, <3>2
  <2>6. \A a, b \in Nat : a < b => a % b = a
    <3>1. TAKE a, b \in Nat
    <3>2. HAVE a < b
    <3>3. b \in Nat \ {0} /\ a \in 0..(b - 1) /\ b * 0 + a = a
      BY <3>2
    <3>4. (b * 0 + a) % b = a
      BY <3>3, DivUnique
    <3> QED BY <3>3, <3>4
  <2>7. slots = size
    BY <1>1, <1>5, <1>6, <2>5, <2>6
  <2>8. mask = size - 1
    <3>1. size - 1 \in Nat /\ full \in Nat /\ size - 1 < full
      BY <1>1, <1>6, <2>5
    <3>2. (size - 1) % full = size - 1
      BY <2>6, <3>1
    <3> QED BY <2>7, <3>2 DEF Wrapped
  <2>9. BitsOf(mask) = 0..top /\ BitsOf(slots) \cap (0..top) = {}
    <3>1. (top + 1) - 1 = top
      BY <1>0
    <3>2. BitsOf(size - 1) = 0..((top + 1) - 1) /\ BitsOf(size) \cap (0..((top + 1) - 1)) = {}
      BY <1>6, BitsOfPower
    <3> QED BY <2>7, <2>8, <3>1, <3>2
  <2>10. ASSUME NEW i \in 0..(slots - 1) PROVE BitsOf(i) \subseteq 0..top
    <3>1. i \in Nat /\ i < size /\ (top + 1) - 1 = top
      BY <1>0, <1>6, <2>7
    <3>2. BitsOf(i) \subseteq 0..((top + 1) - 1)
      BY <1>6, <3>1, BitsBelow
    <3> QED BY <3>1, <3>2
  <2>11. wanted <= slots /\ slots < 2 * wanted
    BY <1>2, <1>6, <2>2, <2>7
  <2> QED BY <2>9, <2>10, <2>11
<1>11. SizeFits
  <2>1. SizeFits <=> (wanted <= half =>
                        /\ wanted <= slots /\ slots < 2 * wanted
                        /\ \A i \in 0..(slots - 1) : BitsOf(i) \subseteq BitsOf(mask)
                        /\ BitsOf(slots) \cap BitsOf(mask) = {})
    BY DEF SizeFits
  <2>2. wanted <= half => ~(wanted > half)
    BY <1>1, <1>2
  <2> HIDE DEF wanted, half, full
  <2> QED BY <1>10, <2>1, <2>2
<1> QED BY <1>7, <1>11

LEMMA EverySlotHasABit == ASSUME slots \in Nat PROVE SlotsHaveBits
<1> SUFFICES ASSUME NEW i \in 0..(slots - 1)
             PROVE  LET none == OccupiedSet([b \in Bytes(slots) |-> {}], i)
                        all == OccupiedClear([b \in Bytes(slots) |-> 0..7], i)
                    IN /\ i \div 8 \in Bytes(slots)
                       /\ \A j \in 0..(slots - 1) :
                            (OccupiedGet(none, j) <=> i = j) /\ (OccupiedGet(all, j) <=> i # j)
  BY DEF SlotsHaveBits
<1>1. \A j \in 0..(slots - 1) : j \div 8 \in Bytes(slots) /\ j % 8 \in 0..7
                               /\ j = 8 * (j \div 8) + (j % 8)
  <2>1. TAKE j \in 0..(slots - 1)
  <2>2. PICK q, r, last, rest :
          q = j \div 8 /\ r = j % 8 /\ last = (slots + 7) \div 8 /\ rest = (slots + 7) % 8
    OBVIOUS
  <2>3. q \in Nat /\ r \in 0..7 /\ j = 8 * q + r
    BY <2>2
  <2>4. last \in Nat /\ rest \in 0..7 /\ slots + 7 = 8 * last + rest
    BY <2>2
  <2>5. q \in 0..(last - 1)
    BY <2>3, <2>4
  <2>6. Bytes(slots) = 0..(last - 1)
    <3>1. Bytes(slots) = 0..(((slots + 7) \div 8) - 1)
      BY DEF Bytes
    <3> QED BY <2>2, <3>1, Zenon
  <2>7. j \div 8 \in Bytes(slots)
    <3>1. q \in Bytes(slots)
      BY <2>5, <2>6, Zenon
    <3> QED BY <2>2, <3>1, Zenon
  <2>8. j = 8 * (j \div 8) + (j % 8) /\ j % 8 \in 0..7
    OBVIOUS
  <2> QED BY <2>7, <2>8, Zenon
<1> DEFINE empty == [b \in Bytes(slots) |-> {}]
           full == [b \in Bytes(slots) |-> 0..7]
           none == OccupiedSet(empty, i)
           all == OccupiedClear(full, i)
<1>2. ASSUME NEW j \in 0..(slots - 1)
      PROVE  (OccupiedGet(none, j) <=> i = j) /\ (OccupiedGet(all, j) <=> i # j)
  <2>1. i \div 8 \in Bytes(slots) /\ j \div 8 \in Bytes(slots) /\ j % 8 \in 0..7
    BY <1>1
  <2>2. none = [empty EXCEPT ![i \div 8] = empty[i \div 8] \cup {i % 8}]
    BY DEF OccupiedSet
  <2>3. all = [full EXCEPT ![i \div 8] = full[i \div 8] \ {i % 8}]
    BY DEF OccupiedClear
  <2>4. none[j \div 8] = IF j \div 8 = i \div 8 THEN {i % 8} ELSE {}
    <3> HIDE DEF none
    <3> QED BY <2>1, <2>2
  <2>5. all[j \div 8] = IF j \div 8 = i \div 8 THEN (0..7) \ {i % 8} ELSE 0..7
    <3> HIDE DEF all
    <3> QED BY <2>1, <2>3
  <2>6. i = j <=> i \div 8 = j \div 8 /\ i % 8 = j % 8
    BY <1>1
  <2> HIDE DEF none, all
  <2> QED BY <2>1, <2>4, <2>5, <2>6 DEF OccupiedGet
<1> QED BY <1>1, <1>2

LEMMA FreedBlocks ==
    /\ layout = "table" => {Blocks(layout)[i] : i \in DOMAIN Blocks(layout)} = {"flags", "keys", "values"}
    /\ layout = "set" => {Blocks(layout)[i] : i \in DOMAIN Blocks(layout)} = {"values", "occupied"}
<1>1. ASSUME layout = "table" PROVE {Blocks(layout)[i] : i \in DOMAIN Blocks(layout)} = {"flags", "keys", "values"}
  <2>1. PICK s : s = <<"flags", "keys", "values">>
    OBVIOUS
  <2>2. Blocks(layout) = s /\ DOMAIN s = 1..3 /\ s[1] = "flags" /\ s[2] = "keys" /\ s[3] = "values"
    BY <1>1, <2>1 DEF Blocks
  <2>3. {s[i] : i \in 1..3} = {s[1], s[2], s[3]}
    OBVIOUS
  <2> QED BY <2>2, <2>3
<1>2. ASSUME layout = "set" PROVE {Blocks(layout)[i] : i \in DOMAIN Blocks(layout)} = {"values", "occupied"}
  <2>1. PICK s : s = <<"values", "occupied">>
    OBVIOUS
  <2>2. Blocks(layout) = s /\ DOMAIN s = 1..2 /\ s[1] = "values" /\ s[2] = "occupied"
    BY <1>2, <2>1 DEF Blocks
  <2>3. {s[i] : i \in 1..2} = {s[1], s[2]}
    OBVIOUS
  <2> QED BY <2>2, <2>3
<1> QED BY <1>1, <1>2

\* Where an allocation fails, all that was allocated before is freed.
LEMMA FailureReleases ==
    ASSUME layout \in {"table", "set"}, NEW i \in DOMAIN Blocks(layout)
    PROVE  {Blocks(layout)[j] : j \in 1..(i - 1)} \ Releases(layout)[i] = {}
<1>1. CASE layout = "table"
  <2>1. PICK s, r : s = <<"flags", "keys", "values">> /\ r = <<{}, {"flags"}, {"flags", "keys"}>>
    OBVIOUS
  <2>2. /\ Blocks(layout) = s /\ DOMAIN s = 1..3 /\ s[1] = "flags" /\ s[2] = "keys" /\ s[3] = "values"
        /\ Releases(layout) = r /\ r[1] = {} /\ r[2] = {"flags"} /\ r[3] = {"flags", "keys"}
    BY <1>1, <2>1 DEF Blocks, Releases
  <2>3. i = 1 \/ i = 2 \/ i = 3
    BY <2>2
  <2>4. ASSUME NEW j \in 1..(i - 1) PROVE s[j] \in r[i]
    <3>1. (i = 2 /\ j = 1) \/ (i = 3 /\ j = 1) \/ (i = 3 /\ j = 2)
      BY <2>3
    <3> QED BY <2>2, <3>1
  <2> QED BY <2>2, <2>4
<1>2. CASE layout = "set"
  <2>1. PICK s, r : s = <<"values", "occupied">> /\ r = <<{}, {"values"}>>
    OBVIOUS
  <2>2. /\ Blocks(layout) = s /\ DOMAIN s = 1..2 /\ s[1] = "values" /\ s[2] = "occupied"
        /\ Releases(layout) = r /\ r[1] = {} /\ r[2] = {"values"}
    BY <1>2, <2>1 DEF Blocks, Releases
  <2>3. i = 1 \/ i = 2
    BY <2>2
  <2>4. ASSUME NEW j \in 1..(i - 1) PROVE s[j] \in r[i]
    <3>1. i = 2 /\ j = 1
      BY <2>3
    <3> QED BY <2>2, <3>1
  <2> QED BY <2>2, <2>4
<1> QED BY <1>1, <1>2

LEMMA TableSizeInductive ==
    /\ TableSizeInit => TableSizeInvariant
    /\ TableSizeInvariant /\ [TableSizeNext]_tableSizeVars => TableSizeInvariant'
<1>1. TableSizeInit => TableSizeInvariant
  BY DEF TableSizeInit, TableSizeInvariant
<1>2. ASSUME TableSizeInvariant, [TableSizeNext]_tableSizeVars PROVE TableSizeInvariant'
  <2> USE DEF TableSizeInvariant
  <2>1. CASE NewTable
    <3>1. PICK n \in 0..(PowerOfTwo[Bits] - 1) :
            asked' = n /\ slots' = CalculateSize(n) /\ mask' = Wrapped(CalculateSize(n) - 1)
      BY <2>1 DEF NewTable
    <3>2. asked' \in Nat /\ slots' = CalculateSize(asked') /\ mask' = Wrapped(slots' - 1)
      BY <3>1
    <3>3. outcome' = "made" /\ layout' = layout /\ held' = {Blocks(layout)[i] : i \in DOMAIN Blocks(layout)}
      BY <2>1 DEF NewTable
    <3>4. held' = {Blocks(layout')[i] : i \in DOMAIN Blocks(layout')}
      BY <3>3
    <3> QED BY <1>2, <3>2, <3>3, <3>4
  <2>2. CASE NewTableFails
    <3>1. outcome' = "failed" /\ layout' = layout
      BY <2>2 DEF NewTableFails
    <3>2. held' = {}
      BY <1>2, <2>2, FailureReleases DEF NewTableFails
    <3> QED BY <1>2, <3>1, <3>2
  <2>3. CASE FreeTable
    <3>1. outcome' = "freed" /\ layout' = layout /\ outcome = "made"
      BY <2>3 DEF FreeTable
    <3>2. held' = held \ (IF layout = "table" THEN {"values", "keys", "flags"} ELSE {"occupied", "values"})
      BY <2>3 DEF FreeTable
    <3>3. held' = {}
      BY <1>2, <3>1, <3>2, FreedBlocks
    <3> QED BY <1>2, <3>1, <3>3
  <2>4. CASE UNCHANGED tableSizeVars
    <3>1. /\ layout' = layout /\ asked' = asked /\ outcome' = outcome
          /\ slots' = slots /\ mask' = mask /\ held' = held
      BY <2>4 DEF tableSizeVars
    <3> QED BY <1>2, <3>1
  <2> QED BY <1>2, <2>1, <2>2, <2>3, <2>4 DEF TableSizeNext
<1> QED BY <1>1, <1>2

\* For every width of a word and every factor, new and free keep TablesReady:
\* no block is lost or left behind, and the size is right for every request
\* whose rounded size a word can hold (hashtable.h:26-90, set.h:58-115).
THEOREM TablesAreReady == TableSizeSpec => []TablesReady
<1>1. TableSizeInvariant => TablesReady
  <2> SUFFICES ASSUME TableSizeInvariant PROVE TablesReady
    OBVIOUS
  <2>1. ASSUME outcome = "made" PROVE SizeFits /\ SlotsHaveBits
    BY <2>1, MadeSizeFits, EverySlotHasABit DEF TableSizeInvariant
  <2> QED BY <2>1 DEF TablesReady, TableSizeInvariant
<1> QED BY <1>1, TableSizeInductive, PTL DEF TableSizeSpec

-----------------------------------------------------------------------------
(* Memory that strings are copied to                                         *)

Content == Nat \cup {Unset}
Texts == Seq(Nat \ {0})

LEMMA AllocTyped == ASSUME NEW n \in Nat PROVE Alloc(n) \in Seq(Content) /\ Len(Alloc(n)) = n
BY DEF Alloc, Content

LEMMA Parted ==
    ASSUME NEW a \in Seq(Content), NEW b \in Seq(Content)
    PROVE  /\ a \o b \in Seq(Content) /\ Len(a \o b) = Len(a) + Len(b)
           /\ Len(a) \in Nat /\ Len(b) \in Nat
           /\ \A i \in 1..(Len(a) + Len(b)) :
                (a \o b)[i] = IF i <= Len(a) THEN a[i] ELSE b[i - Len(a)]
OBVIOUS

LEMMA Same ==
    ASSUME NEW a \in Seq(Content), NEW b \in Seq(Content), Len(a) = Len(b),
           \A i \in 1..Len(a) : a[i] = b[i]
    PROVE  a = b
OBVIOUS

LEMMA SingleTyped ==
    ASSUME NEW x \in Content PROVE <<x>> \in Seq(Content) /\ Len(<<x>>) = 1 /\ <<x>>[1] = x
OBVIOUS

LEMMA PartedTwice ==
    ASSUME NEW a \in Seq(Content), NEW b \in Seq(Content), NEW c \in Seq(Content)
    PROVE  /\ (a \o b) \o c \in Seq(Content)
           /\ Len((a \o b) \o c) = (Len(a) + Len(b)) + Len(c)
           /\ \A i \in 1..((Len(a) + Len(b)) + Len(c)) :
                ((a \o b) \o c)[i] = IF i <= Len(a) THEN a[i]
                                     ELSE IF i <= Len(a) + Len(b) THEN b[i - Len(a)]
                                     ELSE c[i - (Len(a) + Len(b))]
<1>1. PICK ab : ab = a \o b
  OBVIOUS
<1>2. /\ ab \in Seq(Content) /\ Len(ab) = Len(a) + Len(b)
      /\ \A i \in 1..(Len(a) + Len(b)) : ab[i] = IF i <= Len(a) THEN a[i] ELSE b[i - Len(a)]
  BY <1>1, Parted
<1>3. /\ ab \o c \in Seq(Content) /\ Len(ab \o c) = Len(ab) + Len(c)
      /\ \A i \in 1..(Len(ab) + Len(c)) : (ab \o c)[i] = IF i <= Len(ab) THEN ab[i] ELSE c[i - Len(ab)]
  BY <1>2, Parted
<1>4. Len(a) \in Nat /\ Len(b) \in Nat /\ Len(c) \in Nat
  OBVIOUS
<1>5. ASSUME NEW i \in 1..((Len(a) + Len(b)) + Len(c))
      PROVE  (ab \o c)[i] = IF i <= Len(a) THEN a[i]
                            ELSE IF i <= Len(a) + Len(b) THEN b[i - Len(a)]
                            ELSE c[i - (Len(a) + Len(b))]
  <2>1. CASE i <= Len(a) + Len(b)
    <3>1. i \in 1..(Len(a) + Len(b)) /\ i \in 1..(Len(ab) + Len(c))
      BY <1>2, <1>4, <2>1
    <3> QED BY <1>2, <1>3, <2>1, <3>1
  <2>2. CASE ~(i <= Len(a) + Len(b))
    <3>1. i \in 1..(Len(ab) + Len(c)) /\ ~(i <= Len(a))
      BY <1>2, <1>4, <2>2
    <3> QED BY <1>2, <1>3, <2>2, <3>1
  <2> QED BY <2>1, <2>2
<1> QED BY <1>1, <1>2, <1>3, <1>5

\* What is copied to the end of what was written takes the place of as much.
LEMMA MemcpyBehind ==
    ASSUME NEW to \in Seq(Content), NEW old \in Seq(Content), NEW from \in Seq(Content),
           NEW rest \in Seq(Content), Len(from) = Len(old)
    PROVE  Memcpy((to \o old) \o rest, Len(to), from) = (to \o from) \o rest
<1> DEFINE before == (to \o old) \o rest
           after == (to \o from) \o rest
<1>1. Len(to) \in Nat /\ Len(old) \in Nat /\ Len(from) \in Nat /\ Len(rest) \in Nat
  OBVIOUS
<1>2. /\ before \in Seq(Content) /\ Len(before) = (Len(to) + Len(old)) + Len(rest)
      /\ \A i \in 1..((Len(to) + Len(old)) + Len(rest)) :
           before[i] = IF i <= Len(to) THEN to[i]
                       ELSE IF i <= Len(to) + Len(old) THEN old[i - Len(to)]
                       ELSE rest[i - (Len(to) + Len(old))]
  BY PartedTwice
<1>3. /\ after \in Seq(Content) /\ Len(after) = (Len(to) + Len(from)) + Len(rest)
      /\ \A i \in 1..((Len(to) + Len(from)) + Len(rest)) :
           after[i] = IF i <= Len(to) THEN to[i]
                      ELSE IF i <= Len(to) + Len(from) THEN from[i - Len(to)]
                      ELSE rest[i - (Len(to) + Len(from))]
  BY PartedTwice
<1> HIDE DEF before, after
<1> DEFINE copied == Memcpy(before, Len(to), from)
<1>4. copied = [i \in 1..Len(before) |->
                  IF i - Len(to) \in DOMAIN from THEN from[i - Len(to)] ELSE before[i]]
  BY <1>1, <1>2 DEF Memcpy
<1>5. ASSUME NEW i \in 1..Len(before)
      PROVE  (IF i - Len(to) \in DOMAIN from THEN from[i - Len(to)] ELSE before[i]) = after[i]
  <2>1. DOMAIN from = 1..Len(old)
    OBVIOUS
  <2>2. i \in 1..((Len(to) + Len(old)) + Len(rest))
    BY <1>2
  <2>3. i - Len(to) \in DOMAIN from <=> Len(to) < i /\ i <= Len(to) + Len(old)
    BY <1>1, <2>1, <2>2
  <2>4. CASE Len(to) < i /\ i <= Len(to) + Len(old)
    BY <1>1, <1>3, <2>2, <2>3, <2>4
  <2>5. CASE i <= Len(to)
    <3>1. before[i] = to[i]
      BY <1>2, <2>2, <2>5
    <3>2. after[i] = to[i] /\ ~(i - Len(to) \in DOMAIN from)
      BY <1>1, <1>3, <2>2, <2>3, <2>5
    <3> QED BY <3>1, <3>2
  <2>6. CASE Len(to) + Len(old) < i
    <3>1. ~(i <= Len(to)) /\ ~(i <= Len(to) + Len(old)) /\ ~(i - Len(to) \in DOMAIN from)
      BY <1>1, <2>2, <2>3, <2>6
    <3>2. before[i] = rest[i - (Len(to) + Len(old))]
      BY <1>2, <2>2, <3>1
    <3>3. after[i] = rest[i - (Len(to) + Len(old))]
      BY <1>3, <2>2, <3>1
    <3> QED BY <3>1, <3>2, <3>3
  <2> QED BY <1>1, <2>2, <2>4, <2>5, <2>6
<1>6. copied = [i \in 1..Len(after) |-> after[i]]
  <2> HIDE DEF copied
  <2> QED BY <1>2, <1>3, <1>4, <1>5
<1>7. after = [i \in 1..Len(after) |-> after[i]]
  BY <1>3
<1>8. copied = after
  BY <1>6, <1>7
<1> QED BY <1>8 DEF copied, before, after

LEMMA AllocParts ==
    ASSUME NEW m \in Nat, NEW n \in Nat
    PROVE  Alloc(m + n) = Alloc(m) \o Alloc(n)
<1>1. /\ Alloc(m) \in Seq(Content) /\ Len(Alloc(m)) = m /\ Alloc(n) \in Seq(Content)
      /\ Len(Alloc(n)) = n /\ m + n \in Nat /\ Alloc(m + n) \in Seq(Content) /\ Len(Alloc(m + n)) = m + n
  BY AllocTyped
<1>2. \A k \in Nat : \A i \in 1..k : Alloc(k)[i] = Unset
  BY DEF Alloc
<1> DEFINE both == Alloc(m) \o Alloc(n)
<1>3. /\ both \in Seq(Content) /\ Len(both) = m + n
      /\ \A i \in 1..(m + n) : both[i] = IF i <= m THEN Alloc(m)[i] ELSE Alloc(n)[i - m]
  BY <1>1, Parted
<1> HIDE DEF both
<1>4. ASSUME NEW i \in 1..(m + n) PROVE both[i] = Unset
  <2>1. CASE i <= m
    BY <1>2, <1>3, <2>1
  <2>2. CASE ~(i <= m)
    <3>1. i - m \in 1..n
      BY <2>2
    <3> QED BY <1>2, <1>3, <2>2, <3>1
  <2> QED BY <2>1, <2>2
<1>5. \A i \in 1..(m + n) : Alloc(m + n)[i] = both[i]
  BY <1>1, <1>2, <1>4
<1>6. Alloc(m + n) = both
  BY <1>1, <1>3, <1>5, Same
<1> QED BY <1>6 DEF both

LEMMA Associated ==
    ASSUME NEW a \in Seq(Content), NEW b \in Seq(Content), NEW c \in Seq(Content)
    PROVE  (a \o b) \o c = a \o (b \o c)
BY ConcatAssociative

LEMMA WithNothing ==
    ASSUME NEW a \in Seq(Content)
    PROVE  a \o <<>> = a /\ <<>> \o a = a /\ <<>> \in Seq(Content) /\ Len(<<>>) = 0
BY ConcatEmptySeq, EmptySeq

\* What is copied behind the written part of a new block.
LEMMA MemcpyFresh ==
    ASSUME NEW to \in Seq(Content), NEW from \in Seq(Content), NEW n \in Nat
    PROVE  Memcpy(to \o Alloc(Len(from) + n), Len(to), from) = (to \o from) \o Alloc(n)
<1>1. Len(from) \in Nat
  OBVIOUS
<1>2. /\ Alloc(Len(from)) \in Seq(Content) /\ Len(Alloc(Len(from))) = Len(from)
      /\ Alloc(n) \in Seq(Content) /\ Len(Alloc(n)) = n
  BY <1>1, AllocTyped
<1>3. to \o Alloc(Len(from) + n) = (to \o Alloc(Len(from))) \o Alloc(n)
  <2>1. Alloc(Len(from) + n) = Alloc(Len(from)) \o Alloc(n)
    BY <1>1, AllocParts
  <2>2. (to \o Alloc(Len(from))) \o Alloc(n) = to \o (Alloc(Len(from)) \o Alloc(n))
    BY <1>2, Associated
  <2> QED BY <2>1, <2>2
<1>4. Memcpy((to \o Alloc(Len(from))) \o Alloc(n), Len(to), from) = (to \o from) \o Alloc(n)
  BY <1>2, MemcpyBehind
<1> QED BY <1>3, <1>4

LEMMA NoneAllocated == Alloc(0) = <<>>
BY DEF Alloc

LEMMA MemcpyStart ==
    ASSUME NEW from \in Seq(Content), NEW n \in Nat
    PROVE  Memcpy(Alloc(Len(from) + n), 0, from) = from \o Alloc(n)
<1>1. PICK none \in Seq(Content) : none = <<>> /\ Len(none) = 0
  BY WithNothing
<1>2. Memcpy(none \o Alloc(Len(from) + n), Len(none), from) = (none \o from) \o Alloc(n)
  BY MemcpyFresh
<1>3. Len(from) + n \in Nat
  OBVIOUS
<1>4. none \o Alloc(Len(from) + n) = Alloc(Len(from) + n) /\ none \o from = from
  BY <1>1, <1>3, WithNothing, AllocTyped
<1> QED BY <1>1, <1>2, <1>4

LEMMA MemcpyFills ==
    ASSUME NEW to \in Seq(Content), NEW from \in Seq(Content)
    PROVE  Memcpy(to \o Alloc(Len(from)), Len(to), from) = to \o from
<1>1. Memcpy(to \o Alloc(Len(from) + 0), Len(to), from) = (to \o from) \o Alloc(0)
  BY MemcpyFresh
<1>2. Len(from) + 0 = Len(from) /\ to \o from \in Seq(Content)
  OBVIOUS
<1> QED BY <1>1, <1>2, NoneAllocated, WithNothing

LEMMA MemcpyOne ==
    ASSUME NEW n \in Nat, NEW d \in Content, NEW rest \in Seq(Content)
    PROVE  Memcpy(Alloc(n + 1) \o rest, n, <<d>>) = (Alloc(n) \o <<d>>) \o rest
<1>1. PICK to \in Seq(Content), one \in Seq(Content), from \in Seq(Content) :
        /\ to = Alloc(n) /\ Len(to) = n /\ one = Alloc(1) /\ Len(one) = 1
        /\ from = <<d>> /\ Len(from) = 1
  <2>1. Alloc(n) \in Seq(Content) /\ Len(Alloc(n)) = n
    BY AllocTyped
  <2>2. Alloc(1) \in Seq(Content) /\ Len(Alloc(1)) = 1
    BY AllocTyped
  <2>3. <<d>> \in Seq(Content) /\ Len(<<d>>) = 1
    BY SingleTyped
  <2> QED BY <2>1, <2>2, <2>3
<1>2. Alloc(n + 1) = to \o one
  BY <1>1, AllocParts
<1>3. Len(from) = Len(one)
  BY <1>1
<1>4. Memcpy((to \o one) \o rest, Len(to), from) = (to \o from) \o rest
  BY <1>3, MemcpyBehind, SMTT(40)
<1> QED BY <1>1, <1>2, <1>4

\* Written in front of what was written before it.
LEMMA MemcpyLast ==
    ASSUME NEW n \in Nat, NEW d \in Content, NEW x \in Seq(Content), NEW last \in Seq(Content)
    PROVE  Memcpy((Alloc(n + 1) \o x) \o last, n, <<d>>)
             = (Alloc(n) \o (<<d>> \o x)) \o last
<1>1. \A rest \in Seq(Content) :
        Memcpy(Alloc(n + 1) \o rest, n, <<d>>) = (Alloc(n) \o <<d>>) \o rest
  BY MemcpyOne
<1>2. PICK rest \in Seq(Content) : rest = x \o last
  BY Parted
<1>3. PICK new \in Seq(Content), one \in Seq(Content), to \in Seq(Content) :
        new = Alloc(n + 1) /\ one = <<d>> /\ to = Alloc(n)
  <2>1. n + 1 \in Nat
    OBVIOUS
  <2> QED BY <2>1, AllocTyped, SingleTyped
<1>4. (new \o x) \o last = new \o rest
  BY <1>2, Associated
<1>5. (to \o (one \o x)) \o last = (to \o one) \o rest
  <2>1. PICK both \in Seq(Content) : both = to \o one
    BY Parted
  <2>2. both \o x = to \o (one \o x)
    <3>1. (to \o one) \o x = to \o (one \o x)
      BY Associated
    <3> QED BY <2>1, <3>1
  <2>3. (both \o x) \o last = both \o (x \o last)
    BY Associated
  <2> QED BY <1>2, <2>1, <2>2, <2>3
<1> QED BY <1>1, <1>3, <1>4, <1>5

\* Writing once more what is there.
LEMMA MemcpyAgain ==
    ASSUME NEW to \in Seq(Content), NEW from \in Seq(Content)
    PROVE  Memcpy(to \o from, Len(to), from) = to \o from
<1>1. PICK none \in Seq(Content) : none = <<>>
  BY WithNothing
<1>2. Len(from) = Len(from)
  OBVIOUS
<1>3. Memcpy((to \o from) \o none, Len(to), from) = (to \o from) \o none
  BY <1>2, MemcpyBehind
<1>4. (to \o from) \o none = to \o from
  BY <1>1, Parted, WithNothing
<1> QED BY <1>3, <1>4

LEMMA Terminated ==
    ASSUME NEW a \in Texts
    PROVE  /\ a \in Seq(Content) /\ Len(a) \in Nat
           /\ Append(a, 0) = a \o <<0>> /\ Append(a, 0) \in Seq(Content)
           /\ Len(Append(a, 0)) = Len(a) + 1
<1>1. a \in Seq(Content)
  BY SeqMonotonic DEF Texts, Content
<1> QED BY <1>1 DEF Content

LEMMA CloneExact == ASSUME NEW a \in Texts PROVE Clone(a) = Append(a, 0)
<1>1. PICK whole \in Seq(Content) : whole = Append(a, 0) /\ Len(whole) = Len(a) + 1
  BY Terminated
<1>2. Memcpy(Alloc(Len(whole) + 0), 0, whole) = whole \o Alloc(0)
  BY MemcpyStart
<1>3. 1 + Len(a) = Len(whole) + 0
  BY <1>1, Terminated
<1> QED BY <1>1, <1>2, <1>3, NoneAllocated, WithNothing DEF Clone

LEMMA AppendExact ==
    ASSUME NEW a \in Texts, NEW b \in Texts PROVE StringAppend(a, b) = Append(a \o b, 0)
<1>1. PICK x \in Seq(Content), y \in Seq(Content) : x = a /\ y = Append(b, 0) /\ Len(y) = Len(b) + 1
  BY Terminated
<1>2. Memcpy(Alloc(Len(x) + Len(y)), 0, x) = x \o Alloc(Len(y))
  <2>1. PICK n \in Nat : n = Len(y)
    OBVIOUS
  <2>2. Memcpy(Alloc(Len(x) + n), 0, x) = x \o Alloc(n)
    BY MemcpyStart
  <2> QED BY <2>1, <2>2
<1>3. Memcpy(x \o Alloc(Len(y)), Len(x), y) = x \o y
  BY MemcpyFills
<1>4. (1 + Len(a)) + Len(b) = Len(x) + Len(y)
  BY <1>1, Terminated
<1>5. PICK both \in Seq(Content), last \in Seq(Content), none \in Seq(Content) :
        both = a \o b /\ last = <<0>> /\ none = <<>> /\ Len(last) = 1
  BY Terminated, WithNothing, Parted, SingleTyped DEF Content
<1>6. both \in Texts /\ Len(both) = Len(a) + Len(b)
  BY <1>5 DEF Texts
<1>7. x \o y = (both \o last) \o none
  <2>1. x \o y = a \o (b \o last)
    BY <1>1, <1>5, Terminated
  <2>2. a \o (b \o last) = both \o last
    BY <1>5, Terminated, Associated
  <2>3. both \o last \in Seq(Content)
    BY Parted
  <2> QED BY <1>5, <2>1, <2>2, <2>3, WithNothing
<1>8. Memcpy((both \o last) \o none, Len(both), last) = (both \o last) \o none
  <2>1. Memcpy(both \o last, Len(both), last) = both \o last
    BY MemcpyAgain
  <2>2. (both \o last) \o none = both \o last
    BY <1>5, Parted, WithNothing
  <2> QED BY <2>1, <2>2
<1>9. StringAppend(a, b) = (both \o last) \o none
  BY <1>1, <1>2, <1>3, <1>4, <1>5, <1>6, <1>7, <1>8 DEF StringAppend
<1>10. (both \o last) \o none = Append(a \o b, 0)
  <2>1. both \o last \in Seq(Content) /\ Append(both, 0) = both \o <<0>>
    BY <1>6, Parted, Terminated
  <2> QED BY <1>5, <2>1, WithNothing
<1> QED BY <1>9, <1>10

\* Lengths that 32 bits hold are kept.
LEMMA NarrowKeeps ==
    ASSUME NEW n \in Nat, n < LengthMod PROVE Narrow(n) = n
BY StringsAssumption DEF Narrow

LEMMA SlashedExact ==
    ASSUME NEW a \in Texts, Len(a) + 2 < LengthMod
    PROVE  Slashed(a) = Append(Append(a, Slash), 0)
<1>0. /\ Len(a) \in Nat /\ Narrow(Len(a)) = Len(a) /\ SubSeq(a, 1, Len(a)) = a
      /\ Narrow(2 + Len(a)) = 2 + Len(a) /\ Narrow(Len(a) + 1) = Len(a) + 1
  <2>1. Len(a) \in Nat /\ 2 + Len(a) \in Nat /\ Len(a) + 1 \in Nat /\ LengthMod \in Nat
    BY Terminated, StringsAssumption
  <2>2. Len(a) < LengthMod /\ 2 + Len(a) < LengthMod /\ Len(a) + 1 < LengthMod
    BY <2>1
  <2>3. SubSeq(a, 1, Len(a)) = a
    BY DEF Texts
  <2> QED BY <2>1, <2>2, <2>3, NarrowKeeps
<1>1. PICK x \in Seq(Content), slash \in Seq(Content), last \in Seq(Content) :
        x = a /\ slash = <<Slash>> /\ last = <<0>> /\ Len(slash) = 1 /\ Len(last) = 1
  BY Terminated, SingleTyped DEF Content, Slash
<1>2. Memcpy(Alloc(Len(x) + 2), 0, x) = x \o Alloc(2)
  BY MemcpyStart
<1>3. Memcpy(x \o Alloc(Len(slash) + 1), Len(x), slash) = (x \o slash) \o Alloc(1)
  <2>1. PICK one \in Nat : one = 1
    OBVIOUS
  <2>2. Memcpy(x \o Alloc(Len(slash) + one), Len(x), slash) = (x \o slash) \o Alloc(one)
    BY MemcpyFresh
  <2> QED BY <2>1, <2>2
<1>4. PICK to \in Seq(Content) : to = x \o slash /\ Len(to) = Len(x) + 1
  <2>1. x \o slash \in Seq(Content) /\ Len(x \o slash) = Len(x) + Len(slash)
    BY Parted
  <2> QED BY <1>1, <2>1
<1>5. Memcpy(to \o Alloc(Len(last)), Len(to), last) = to \o last
  BY MemcpyFills
<1>6. 2 + Len(a) = Len(x) + 2 /\ Len(slash) + 1 = 2 /\ Len(a) = Len(x)
  BY <1>1, Terminated
<1>7. Slashed(a) = to \o last
  <2>1. Slashed(a) = Memcpy(Memcpy(Memcpy(Alloc(2 + Len(a)), 0, a), Len(a), <<Slash>>),
                            Len(a) + 1, <<0>>)
    BY <1>0 DEF Slashed
  <2> QED BY <1>1, <1>2, <1>3, <1>4, <1>5, <1>6, <2>1
<1>8. Append(a, Slash) \in Texts
  BY DEF Texts, Slash
<1>9. Append(a, Slash) = to
  BY <1>1, <1>4 DEF Texts
<1> QED BY <1>1, <1>7, <1>8, <1>9, Terminated

\* A string in memory is read up to its terminator.
LEMMA ReadBack ==
    ASSUME NEW a \in Texts PROVE Characters(Append(a, 0)) = a
<1> DEFINE b == Append(a, 0)
           Is(n) == b[n + 1] = 0 /\ \A i \in 1..n : b[i] # 0
<1>1. /\ Len(b) = Len(a) + 1 /\ Len(a) \in Nat /\ b[Len(a) + 1] = 0
      /\ \A i \in 1..Len(a) : b[i] = a[i] /\ a[i] # 0
  BY DEF Texts
<1> HIDE DEF b
<1>2. Len(a) \in 0..(Len(b) - 1) /\ Is(Len(a))
  BY <1>1
<1>3. ASSUME NEW n \in 0..(Len(b) - 1), Is(n) PROVE n = Len(a)
  <2>1. ~(n < Len(a))
    <3>1. SUFFICES ASSUME n < Len(a) PROVE FALSE
      OBVIOUS
    <3>2. n + 1 \in 1..Len(a)
      BY <1>1, <3>1
    <3> QED BY <1>1, <1>3, <3>2
  <2> QED BY <1>1, <2>1
<1>4. Strlen(b) = Len(a)
  <2>1. Strlen(b) = CHOOSE n \in 0..(Len(b) - 1) : Is(n)
    BY DEF Strlen
  <2> HIDE DEF Is
  <2> QED BY <1>2, <1>3, <2>1
<1>5. SubSeq(b, 1, Len(a)) = a
  BY DEF b, Texts
<1> QED BY <1>4, <1>5 DEF Characters, b

-----------------------------------------------------------------------------
(* Joined strings                                                            *)

LEMMA StringAt ==
    ASSUME NEW strings \in Seq(Texts), NEW k \in 1..Len(strings)
    PROVE  strings[k] \in Texts /\ Len(strings[k]) \in Nat
<1>1. strings[k] \in Texts
  OBVIOUS
<1> QED BY <1>1, Terminated

LEMMA JoinedUnfolds ==
    ASSUME NEW strings \in Seq(Texts), strings # <<>>, NEW delimiter \in Texts
    PROVE  \E g \in [0..(Len(strings) - 1) -> Texts] :
             /\ g[0] = strings[1]
             /\ \A k \in 1..(Len(strings) - 1) : g[k] = (g[k - 1] \o delimiter) \o strings[k + 1]
             /\ Joined(strings, delimiter) = g[Len(strings) - 1]
<1> DEFINE joined[k \in 0..(Len(strings) - 1)] ==
              IF k = 0 THEN strings[1] ELSE joined[k - 1] \o delimiter \o strings[k + 1]
           Is(g) == g = [k \in 0..(Len(strings) - 1) |->
                           IF k = 0 THEN strings[1] ELSE g[k - 1] \o delimiter \o strings[k + 1]]
<1>0. Len(strings) - 1 \in Nat /\ Len(strings) \in Nat /\ strings[1] \in Texts
  OBVIOUS
<1>1. Joined(strings, delimiter) = joined[Len(strings) - 1]
  BY DEF Joined
<1>2. joined = CHOOSE g : Is(g)
  OBVIOUS
<1> HIDE DEF joined
<1>3. PICK n \in Nat : n = Len(strings) - 1
  BY <1>0
<1>4. PICK f \in [0..n -> Texts] :
        f[0] = strings[1] /\ \A k \in 1..n : f[k] = (f[k - 1] \o delimiter) \o strings[k + 1]
  <2>1. PICK next : next = [k \in 1..n |-> [s \in Texts |-> (s \o delimiter) \o strings[k + 1]]]
    OBVIOUS
  <2>2. \A k \in 1..n : [s \in Texts |-> (s \o delimiter) \o strings[k + 1]] \in [Texts -> Texts]
    <3>1. TAKE k \in 1..n
    <3>2. k + 1 \in 1..Len(strings)
      BY <1>0, <1>3
    <3>3. strings[k + 1] \in Texts
      BY <3>2, StringAt
    <3> QED BY <3>3 DEF Texts
  <2>3. next \in [1..n -> [Texts -> Texts]]
    BY <2>1, <2>2
  <2>4. PICK f \in [0..n -> Texts] : Iterates(f, n, strings[1], next)
    BY <1>0, <2>3, RecursionExists
  <2>5. ASSUME NEW k \in 1..n PROVE f[k] = (f[k - 1] \o delimiter) \o strings[k + 1]
    <3>1. k - 1 \in 0..n
      OBVIOUS
    <3>2. f[k - 1] \in Texts
      BY <3>1
    <3>3. f[k] = next[k][f[k - 1]]
      BY <2>4 DEF Iterates
    <3> QED BY <2>1, <3>2, <3>3
  <2> QED BY <2>4, <2>5 DEF Iterates
<1>5. Is(f)
  <2>1. \A k \in 0..n : f[k] = IF k = 0 THEN strings[1]
                               ELSE f[k - 1] \o delimiter \o strings[k + 1]
    <3>1. \A k \in 0..n : k = 0 \/ k \in 1..n
      OBVIOUS
    <3> QED BY <1>4, <3>1
  <2>2. f = [k \in 0..n |-> f[k]]
    BY <1>4
  <2> QED BY <1>3, <2>1, <2>2
<1>6. Is(joined)
  <2> HIDE DEF Is
  <2> QED BY <1>2, <1>5
<1>7. \A k \in 0..n : joined[k] = IF k = 0 THEN strings[1]
                                  ELSE joined[k - 1] \o delimiter \o strings[k + 1]
  BY <1>3, <1>6
<1>8. joined = [k \in 0..n |-> joined[k]]
  BY <1>3, <1>6
<1> HIDE DEF Is
<1> DEFINE S == {k \in 0..n : joined[k] = f[k]}
<1>9. 0 \in S
  BY <1>4, <1>7
<1>10. ASSUME NEW k \in 1..n, k - 1 \in S PROVE k \in S
  <2>1. k \in 0..n /\ k # 0 /\ joined[k - 1] = f[k - 1]
    BY <1>10
  <2>2. joined[k] = joined[k - 1] \o delimiter \o strings[k + 1]
    BY <1>7, <2>1
  <2> QED BY <1>4, <2>1, <2>2
<1>11. 0..n \subseteq S
  <2> HIDE DEF S
  <2> QED BY <1>9, <1>10, UpFromZero
<1>12. joined[n] = f[n]
  BY <1>11
<1> QED BY <1>1, <1>3, <1>4, <1>12

LEMMA TotalUnfolds ==
    ASSUME NEW strings \in Seq(Texts)
    PROVE  \E g \in [0..Len(strings) -> Nat] :
             /\ g[0] = 0
             /\ \A k \in 1..Len(strings) : g[k] = g[k - 1] + Len(strings[k])
             /\ TotalLength(strings) = g[Len(strings)]
<1> DEFINE total[k \in 0..Len(strings)] == IF k = 0 THEN 0 ELSE total[k - 1] + Len(strings[k])
           Is(g) == g = [k \in 0..Len(strings) |-> IF k = 0 THEN 0 ELSE g[k - 1] + Len(strings[k])]
<1>0. Len(strings) \in Nat
  OBVIOUS
<1>1. TotalLength(strings) = total[Len(strings)]
  BY DEF TotalLength
<1>2. total = CHOOSE g : Is(g)
  OBVIOUS
<1> HIDE DEF total
<1>3. PICK n \in Nat : n = Len(strings)
  BY <1>0
<1>4. PICK f \in [0..n -> Nat] : f[0] = 0 /\ \A k \in 1..n : f[k] = f[k - 1] + Len(strings[k])
  <2>1. PICK T : T = Nat
    OBVIOUS
  <2>2. PICK next : next = [k \in 1..n |-> [v \in T |-> v + Len(strings[k])]]
    OBVIOUS
  <2>3. next \in [1..n -> [T -> T]] /\ 0 \in T
    <3>1. \A k \in 1..n : Len(strings[k]) \in Nat
      BY <1>3, StringAt
    <3>2. \A k \in 1..n : [v \in T |-> v + Len(strings[k])] \in [T -> T]
      BY <2>1, <3>1
    <3> QED BY <2>1, <2>2, <3>2
  <2>4. PICK f \in [0..n -> T] : Iterates(f, n, 0, next)
    BY <2>3, RecursionExists
  <2>5. ASSUME NEW k \in 1..n PROVE f[k] = f[k - 1] + Len(strings[k])
    <3>1. k - 1 \in 0..n
      OBVIOUS
    <3>2. f[k - 1] \in T
      BY <3>1
    <3>3. f[k] = next[k][f[k - 1]]
      BY <2>4 DEF Iterates
    <3> QED BY <2>2, <3>2, <3>3
  <2> QED BY <2>1, <2>4, <2>5 DEF Iterates
<1>5. Is(f)
  <2>1. \A k \in 0..n : f[k] = IF k = 0 THEN 0 ELSE f[k - 1] + Len(strings[k])
    <3>1. \A k \in 0..n : k = 0 \/ k \in 1..n
      OBVIOUS
    <3> QED BY <1>4, <3>1
  <2>2. f = [k \in 0..n |-> f[k]]
    BY <1>4
  <2> QED BY <1>3, <2>1, <2>2
<1>6. Is(total)
  <2> HIDE DEF Is
  <2> QED BY <1>2, <1>5
<1>7. \A k \in 0..n : total[k] = IF k = 0 THEN 0 ELSE total[k - 1] + Len(strings[k])
  BY <1>3, <1>6
<1> HIDE DEF Is
<1> DEFINE S == {k \in 0..n : total[k] = f[k]}
<1>8. 0 \in S
  BY <1>4, <1>7
<1>9. ASSUME NEW k \in 1..n, k - 1 \in S PROVE k \in S
  <2>1. k \in 0..n /\ k # 0 /\ total[k - 1] = f[k - 1]
    BY <1>9
  <2>2. total[k] = total[k - 1] + Len(strings[k])
    BY <1>7, <2>1
  <2> QED BY <1>4, <2>1, <2>2
<1>10. 0..n \subseteq S
  <2> HIDE DEF S
  <2> QED BY <1>8, <1>9, UpFromZero
<1>11. total[n] = f[n]
  BY <1>10
<1> QED BY <1>1, <1>3, <1>4, <1>11

\* The size that is counted is that of what is written.
LEMMA JoinSizeExact ==
    ASSUME NEW strings \in Seq(Texts), strings # <<>>, NEW delimiter \in Texts,
           NEW g \in [0..(Len(strings) - 1) -> Texts], g[0] = strings[1],
           \A k \in 1..(Len(strings) - 1) : g[k] = (g[k - 1] \o delimiter) \o strings[k + 1]
    PROVE  JoinSize(strings, delimiter) = 1 + Len(g[Len(strings) - 1])
<1>1. PICK n \in Nat : n = Len(strings) - 1 /\ Len(strings) = n + 1
  OBVIOUS
<1>2. PICK t \in [0..(n + 1) -> Nat] :
        /\ t[0] = 0 /\ \A k \in 1..(n + 1) : t[k] = t[k - 1] + Len(strings[k])
        /\ TotalLength(strings) = t[n + 1]
  BY <1>1, TotalUnfolds
<1>3. PICK d \in Nat : d = Len(delimiter)
  BY Terminated
<1> DEFINE S == {k \in 0..n : Len(g[k]) = d * k + t[k + 1]}
<1>4. 0 \in S
  <2>1. 1 \in 1..(n + 1) /\ 1 - 1 = 0 /\ 0 + 1 = 1 /\ 1 \in 1..Len(strings)
    BY <1>1
  <2>2. t[1] = t[1 - 1] + Len(strings[1])
    BY <1>2, <2>1
  <2>3. Len(strings[1]) \in Nat
    BY <2>1, StringAt
  <2>4. t[0 + 1] = Len(g[0])
    BY <1>2, <2>1, <2>2, <2>3
  <2>5. d * 0 = 0 /\ t[0 + 1] \in Nat
    BY <2>1, <2>2, <1>2, <2>3
  <2> QED BY <2>4, <2>5
<1>5. ASSUME NEW k \in 1..n, k - 1 \in S PROVE k \in S
  <2>1. /\ k \in 1..(Len(strings) - 1) /\ k + 1 \in 1..Len(strings) /\ k + 1 \in 1..(n + 1)
        /\ (k + 1) - 1 = k /\ (k - 1) + 1 = k /\ k - 1 \in 0..(Len(strings) - 1) /\ k \in 0..(n + 1)
    BY <1>1
  <2>2. g[k] = (g[k - 1] \o delimiter) \o strings[k + 1] /\ g[k - 1] \in Texts /\ strings[k + 1] \in Texts
    BY <2>1, StringAt
  <2>3. PICK a \in Texts, b \in Texts : a = g[k - 1] /\ b = strings[k + 1]
    BY <2>2
  <2>4. Len((a \o delimiter) \o b) = (Len(a) + d) + Len(b) /\ Len(a) \in Nat /\ Len(b) \in Nat
    BY <1>3 DEF Texts
  <2>5. t[k + 1] = t[k] + Len(b) /\ t[k] \in Nat
    BY <1>2, <2>1, <2>3
  <2>6. Len(a) = d * (k - 1) + t[k]
    BY <1>5, <2>1, <2>3
  <2>7. d * k = d * (k - 1) + d
    <3>1. PICK j \in Nat : j = k - 1 /\ k = j + 1
      OBVIOUS
    <3>2. d * (j + 1) = d * j + d
      BY TimesNext
    <3> QED BY <3>1, <3>2
  <2>8. d * (k - 1) \in Nat /\ d * k \in Nat
    BY TimesNat
  <2>9. Len(g[k]) = d * k + t[k + 1]
    <3>1. PICK p \in Nat, q \in Nat : p = d * (k - 1) /\ q = d * k
      BY <2>8
    <3>2. Len(g[k]) = (Len(a) + d) + Len(b)
      BY <2>2, <2>3, <2>4
    <3>3. Len(a) = p + t[k] /\ q = p + d
      BY <2>6, <2>7, <3>1
    <3>4. Len(g[k]) = q + t[k + 1]
      <4>1. PICK x \in Nat, y \in Nat, z \in Nat :
              x = Len(a) /\ y = Len(b) /\ z = t[k] /\ t[k + 1] = z + y
        BY <2>4, <2>5
      <4>2. Len(g[k]) = (x + d) + y /\ x = p + z
        BY <3>2, <3>3, <4>1
      <4>3. (x + d) + y = q + (z + y)
        BY <3>3, <4>2
      <4> QED BY <4>1, <4>2, <4>3
    <3> QED BY <3>1, <3>4
  <2> QED BY <2>9
<1>6. 0..n \subseteq S
  <2> HIDE DEF S
  <2> QED BY <1>4, <1>5, UpFromZero
<1>7. Len(g[n]) = d * n + t[n + 1]
  BY <1>6
<1>8. d * n \in Nat /\ t[n + 1] \in Nat
  BY <1>2, TimesNat
<1>9. JoinSize(strings, delimiter) = (1 + d * n) + t[n + 1]
  BY <1>1, <1>2, <1>3 DEF JoinSize
<1> QED BY <1>1, <1>7, <1>8, <1>9

LEMMA JoinExact ==
    ASSUME NEW strings \in Seq(Texts), strings # <<>>, NEW delimiter \in Texts
    PROVE  /\ Joined(strings, delimiter) \in Texts
           /\ Join(strings, delimiter).block = Append(Joined(strings, delimiter), 0)
           /\ Join(strings, delimiter).length = Len(Joined(strings, delimiter))
<1>1. PICK n \in Nat : n = Len(strings) - 1 /\ Len(strings) = n + 1
  OBVIOUS
<1>2. PICK g \in [0..n -> Texts] :
        /\ g[0] = strings[1]
        /\ \A k \in 1..n : g[k] = (g[k - 1] \o delimiter) \o strings[k + 1]
        /\ Joined(strings, delimiter) = g[n]
  BY <1>1, JoinedUnfolds
<1>3. PICK size \in Nat : size = JoinSize(strings, delimiter) /\ size = 1 + Len(g[n])
  <2>1. JoinSize(strings, delimiter) = 1 + Len(g[n])
    BY <1>1, <1>2, JoinSizeExact
  <2>2. g[n] \in Texts
    OBVIOUS
  <2> QED BY <2>1, <2>2, Terminated
<1> DEFINE filled[k \in 0..(Len(strings) - 1)] ==
              IF k = 0
              THEN [block |-> Memcpy(Alloc(size), 0, strings[1]), cursor |-> Len(strings[1])]
              ELSE LET done == filled[k - 1]
                       behind == done.cursor + Len(delimiter)
                   IN [block |-> Memcpy(Memcpy(done.block, done.cursor, delimiter),
                                        behind, strings[k + 1]),
                       cursor |-> behind + Len(strings[k + 1])]
           Added(done, s) ==
              [block |-> Memcpy(Memcpy(done.block, done.cursor, delimiter),
                                done.cursor + Len(delimiter), s),
               cursor |-> (done.cursor + Len(delimiter)) + Len(s)]
           front == [block |-> Memcpy(Alloc(size), 0, strings[1]), cursor |-> Len(strings[1])]
           Is(h) == h = [k \in 0..(Len(strings) - 1) |->
                           IF k = 0 THEN front ELSE Added(h[k - 1], strings[k + 1])]
           f == [k \in 0..n |-> [block |-> g[k] \o Alloc(size - Len(g[k])), cursor |-> Len(g[k])]]
<1>4. Join(strings, delimiter) =
        [block |-> Memcpy(filled[Len(strings) - 1].block, size - 1, <<0>>), length |-> size - 1]
  BY <1>3 DEF Join
<1>5. filled = CHOOSE h : Is(h)
  OBVIOUS
<1> HIDE DEF filled
<1>6. /\ \A k \in 0..n : g[k] \in Seq(Content) /\ Len(g[k]) \in Nat
      /\ delimiter \in Seq(Content) /\ Len(delimiter) \in Nat
      /\ \A k \in 1..(n + 1) : strings[k] \in Seq(Content) /\ Len(strings[k]) \in Nat
  BY <1>1, StringAt, Terminated
<1>7. \A k \in 1..n : Len(g[k]) = (Len(g[k - 1]) + Len(delimiter)) + Len(strings[k + 1])
  <2>1. TAKE k \in 1..n
  <2>2. k - 1 \in 0..n /\ k + 1 \in 1..(n + 1)
    OBVIOUS
  <2>3. PICK a \in Seq(Content), b \in Seq(Content) : a = g[k - 1] /\ b = strings[k + 1]
    BY <1>6, <2>2
  <2>4. Len((a \o delimiter) \o b) = (Len(a) + Len(delimiter)) + Len(b)
    BY <1>6, PartedTwice
  <2> QED BY <1>2, <2>3, <2>4
<1>8. \A k \in 0..n : Len(g[k]) <= Len(g[n])
  <2> DEFINE S == {j \in 0..n : Len(g[n - j]) <= Len(g[n])}
  <2>1. 0 \in S
    BY <1>6
  <2>2. ASSUME NEW j \in 1..n, j - 1 \in S PROVE j \in S
    <3>1. n - j \in 0..n /\ n - (j - 1) \in 1..n /\ (n - (j - 1)) - 1 = n - j
          /\ (n - (j - 1)) + 1 \in 1..(n + 1) /\ n - (j - 1) \in 0..n /\ n \in 0..n
      OBVIOUS
    <3>2. Len(g[n - (j - 1)]) = (Len(g[n - j]) + Len(delimiter)) + Len(strings[(n - (j - 1)) + 1])
      BY <1>7, <3>1
    <3>3. Len(g[n - (j - 1)]) <= Len(g[n])
      BY <2>2
    <3>4. /\ Len(g[n - j]) \in Nat /\ Len(g[n - (j - 1)]) \in Nat /\ Len(g[n]) \in Nat
          /\ Len(strings[(n - (j - 1)) + 1]) \in Nat
      BY <1>6, <3>1
    <3>5. Len(g[n - j]) <= Len(g[n])
      <4>1. PICK x \in Nat, y \in Nat, z \in Nat, w \in Nat :
              /\ x = Len(g[n - (j - 1)]) /\ y = Len(g[n - j]) /\ z = Len(delimiter)
              /\ w = Len(strings[(n - (j - 1)) + 1])
        BY <1>6, <3>4
      <4>2. x = (y + z) + w /\ x <= Len(g[n])
        BY <3>2, <3>3, <4>1
      <4>3. y <= Len(g[n])
        BY <3>4, <4>2
      <4> QED BY <4>1, <4>3
    <3> QED BY <3>5
  <2>3. 0..n \subseteq S
    <3> HIDE DEF S
    <3> QED BY <2>1, <2>2, UpFromZero
  <2>4. TAKE k \in 0..n
  <2>5. n - k \in 0..n /\ n - (n - k) = k
    OBVIOUS
  <2>6. n - k \in S
    <3> HIDE DEF S
    <3> QED BY <2>3, <2>5
  <2> QED BY <2>5, <2>6
<1>9. ASSUME NEW k \in 1..n PROVE f[k] = Added(f[k - 1], strings[k + 1])
  <2>1. k - 1 \in 0..n /\ k + 1 \in 1..(n + 1) /\ k \in 0..n
    OBVIOUS
  <2>2. PICK a \in Seq(Content), b \in Seq(Content), d \in Seq(Content) :
          a = g[k - 1] /\ b = strings[k + 1] /\ d = delimiter
    BY <1>6, <2>1
  <2>3. PICK rest \in Nat : rest = size - Len(g[k])
    <3>1. Len(g[k]) \in Nat /\ Len(g[n]) \in Nat /\ Len(g[k]) <= Len(g[n])
      BY <1>6, <1>8, <2>1
    <3>2. size - Len(g[k]) \in Nat
      BY <1>3, <3>1
    <3> QED BY <3>2
  <2>4. size - Len(a) = Len(d) + (Len(b) + rest) /\ Len(b) + rest \in Nat
    <3>1. Len(g[k]) = (Len(a) + Len(d)) + Len(b)
      BY <1>7, <2>2
    <3>2. Len(a) \in Nat /\ Len(b) \in Nat /\ Len(d) \in Nat
      OBVIOUS
    <3>3. rest = size - ((Len(a) + Len(d)) + Len(b))
      BY <2>3, <3>1
    <3> QED BY <1>3, <3>2, <3>3
  <2>5. Memcpy(a \o Alloc(Len(d) + (Len(b) + rest)), Len(a), d) = (a \o d) \o Alloc(Len(b) + rest)
    BY <2>4, MemcpyFresh
  <2>6. PICK ad \in Seq(Content) : ad = a \o d /\ Len(ad) = Len(a) + Len(d)
    BY Parted
  <2>7. Memcpy(ad \o Alloc(Len(b) + rest), Len(ad), b) = (ad \o b) \o Alloc(rest)
    BY MemcpyFresh
  <2>8. f[k - 1] = [block |-> a \o Alloc(size - Len(a)), cursor |-> Len(a)]
    BY <2>1, <2>2
  <2>9. g[k] = ad \o b
    BY <1>2, <2>2, <2>6
  <2>10. f[k] = [block |-> (ad \o b) \o Alloc(rest), cursor |-> Len(g[k])]
    BY <2>1, <2>3, <2>9
  <2>11. Len(g[k]) = (Len(a) + Len(d)) + Len(b)
    BY <1>7, <2>2
  <2> HIDE DEF f
  <2>12. /\ f[k - 1].block = a \o Alloc(size - Len(a)) /\ f[k - 1].cursor = Len(a)
    BY <2>8
  <2>13. Memcpy(f[k - 1].block, f[k - 1].cursor, delimiter) = ad \o Alloc(Len(b) + rest)
    BY <2>2, <2>4, <2>5, <2>6, <2>12
  <2>14. f[k - 1].cursor + Len(delimiter) = Len(ad)
    BY <2>2, <2>6, <2>12
  <2>15. Memcpy(Memcpy(f[k - 1].block, f[k - 1].cursor, delimiter),
                f[k - 1].cursor + Len(delimiter), strings[k + 1]) = (ad \o b) \o Alloc(rest)
    BY <2>2, <2>7, <2>13, <2>14
  <2>16. (f[k - 1].cursor + Len(delimiter)) + Len(strings[k + 1]) = Len(g[k])
    BY <2>2, <2>11, <2>12
  <2> QED BY <2>10, <2>15, <2>16
<1>10. f[0] = front
  <2>1. PICK a \in Seq(Content) : a = strings[1] /\ a = g[0] /\ Len(a) \in Nat
    BY <1>2, <1>6
  <2>2. PICK rest \in Nat : rest = size - Len(a) /\ size = Len(a) + rest
    <3>1. 0 \in 0..n /\ n \in 0..n
      OBVIOUS
    <3>2. Len(a) <= Len(g[n]) /\ Len(g[n]) \in Nat
      BY <1>6, <1>8, <2>1, <3>1
    <3>3. size - Len(a) \in Nat /\ size = Len(a) + (size - Len(a))
      BY <1>3, <2>1, <3>2
    <3> QED BY <3>3
  <2>3. Memcpy(Alloc(Len(a) + rest), 0, a) = a \o Alloc(rest)
    BY MemcpyStart
  <2>4. f[0] = [block |-> a \o Alloc(rest), cursor |-> Len(a)]
    BY <2>1, <2>2
  <2> QED BY <2>1, <2>2, <2>3, <2>4
<1> HIDE DEF front, Added
<1>11. Is(f)
  <2>1. \A k \in 0..n : f[k] = IF k = 0 THEN front ELSE Added(f[k - 1], strings[k + 1])
    <3>1. \A k \in 0..n : k = 0 \/ k \in 1..n
      OBVIOUS
    <3> HIDE DEF f
    <3> QED BY <1>9, <1>10, <3>1
  <2>2. f = [k \in 0..n |-> f[k]]
    OBVIOUS
  <2> HIDE DEF f
  <2> QED BY <1>1, <2>1, <2>2
<1>12. Is(filled)
  <2> HIDE DEF Is, f
  <2> QED BY <1>5, <1>11
<1>13. \A k \in 0..n : filled[k] = IF k = 0 THEN front ELSE Added(filled[k - 1], strings[k + 1])
  BY <1>1, <1>12
<1> HIDE DEF Is
<1> DEFINE S == {k \in 0..n : filled[k] = f[k]}
<1>14. filled[n] = f[n]
  <2> HIDE DEF f
  <2>1. 0 \in S
    BY <1>10, <1>13
  <2>2. ASSUME NEW k \in 1..n, k - 1 \in S PROVE k \in S
    <3>1. k \in 0..n /\ k # 0 /\ filled[k - 1] = f[k - 1]
      BY <2>2
    <3>2. filled[k] = Added(filled[k - 1], strings[k + 1])
      BY <1>13, <3>1
    <3> QED BY <1>9, <3>1, <3>2
  <2>3. 0..n \subseteq S
    <3> HIDE DEF S
    <3> QED BY <2>1, <2>2, UpFromZero
  <2> QED BY <2>3
<1>15. Memcpy(filled[Len(strings) - 1].block, size - 1, <<0>>) = Append(g[n], 0)
  <2>1. PICK a \in Seq(Content), last \in Seq(Content) :
          a = g[n] /\ last = <<0>> /\ Len(last) = 1
    <3>1. g[n] \in Seq(Content)
      BY <1>6
    <3>2. 0 \in Content
      BY DEF Content
    <3>3. <<0>> \in Seq(Content) /\ Len(<<0>>) = 1
      BY <3>2, SingleTyped
    <3> QED BY <3>1, <3>3
  <2>2. g[n] \in Texts
    OBVIOUS
  <2>3. size - Len(a) = Len(last) /\ size - 1 = Len(a)
    BY <1>3, <2>1, <2>2, Terminated
  <2>4. filled[n].block = a \o Alloc(size - Len(a))
    <3>1. f[n].block = g[n] \o Alloc(size - Len(g[n]))
      OBVIOUS
    <3> HIDE DEF f
    <3> QED BY <1>14, <2>1, <3>1
  <2>5. Memcpy(a \o Alloc(Len(last)), Len(a), last) = a \o last
    BY MemcpyFills
  <2>6. Append(g[n], 0) = g[n] \o <<0>>
    BY <2>2, Terminated
  <2> QED BY <1>1, <2>1, <2>3, <2>4, <2>5, <2>6
<1>16. size - 1 = Len(g[n]) /\ g[n] \in Texts
  BY <1>3, Terminated
<1> QED BY <1>2, <1>4, <1>15, <1>16

-----------------------------------------------------------------------------
(* Printed numbers                                                           *)

LEMMA DecimalDigits ==
    ASSUME NEW s \in Texts, Decimal(s)
    PROVE  /\ Len(s) \in Nat /\ Len(s) > 0 /\ Digit(0) = 48
           /\ \A k \in 1..Len(s) : s[k] \in 48..57
           /\ Len(s) > 1 => s[1] # 48
<1>1. Digit(0) = 48 /\ Digit(9) = 57
  BY DEF Digit
<1>2. Len(s) \in Nat /\ DOMAIN s = 1..Len(s) /\ (s # <<>> => Len(s) > 0)
  BY DEF Texts
<1>3. s # <<>> /\ \A k \in 1..Len(s) : s[k] \in 48..57
  BY <1>1, <1>2 DEF Decimal
<1>4. Len(s) > 1 => s[1] # 48
  BY <1>1, <1>2 DEF Decimal
<1> QED BY <1>1, <1>2, <1>3, <1>4

\* What is written in the first k digits.
LEMMA NumberUnfolds ==
    ASSUME NEW s \in Texts, Decimal(s)
    PROVE  \E v \in [0..Len(s) -> Nat] :
             /\ v[0] = 0 /\ Number(s) = v[Len(s)]
             /\ \A k \in 1..Len(s) : v[k] = 10 * v[k - 1] + (s[k] - 48)
<1> DEFINE value[k \in 0..Len(s)] == IF k = 0 THEN 0 ELSE 10 * value[k - 1] + (s[k] - Digit(0))
           Is(g) == g = [k \in 0..Len(s) |-> IF k = 0 THEN 0 ELSE 10 * g[k - 1] + (s[k] - Digit(0))]
<1>0. Len(s) \in Nat /\ Digit(0) = 48 /\ \A k \in 1..Len(s) : s[k] \in 48..57
  BY DecimalDigits
<1>1. Number(s) = value[Len(s)]
  BY DEF Number
<1>2. value = CHOOSE g : Is(g)
  OBVIOUS
<1> HIDE DEF value
<1>3. PICK n \in Nat : n = Len(s)
  BY <1>0
<1>4. PICK f \in [0..n -> Nat] : f[0] = 0 /\ \A k \in 1..n : f[k] = 10 * f[k - 1] + (s[k] - Digit(0))
  <2>1. PICK T : T = Nat
    OBVIOUS
  <2>2. PICK next : next = [k \in 1..n |-> [u \in T |-> 10 * u + (s[k] - Digit(0))]]
    OBVIOUS
  <2>3. next \in [1..n -> [T -> T]] /\ 0 \in T
    <3>1. \A k \in 1..n : [u \in T |-> 10 * u + (s[k] - Digit(0))] \in [T -> T]
      BY <1>0, <1>3, <2>1
    <3> QED BY <2>1, <2>2, <3>1
  <2>4. PICK f \in [0..n -> T] : Iterates(f, n, 0, next)
    BY <2>3, RecursionExists
  <2>5. ASSUME NEW k \in 1..n PROVE f[k] = 10 * f[k - 1] + (s[k] - Digit(0))
    <3>1. k - 1 \in 0..n
      OBVIOUS
    <3>2. f[k - 1] \in T
      BY <3>1
    <3>3. f[k] = next[k][f[k - 1]]
      BY <2>4 DEF Iterates
    <3> QED BY <2>2, <3>2, <3>3
  <2> QED BY <2>1, <2>4, <2>5 DEF Iterates
<1>5. Is(f)
  <2>1. \A k \in 0..n : f[k] = IF k = 0 THEN 0 ELSE 10 * f[k - 1] + (s[k] - Digit(0))
    <3>1. \A k \in 0..n : k = 0 \/ k \in 1..n
      OBVIOUS
    <3> QED BY <1>4, <3>1
  <2>2. f = [k \in 0..n |-> f[k]]
    BY <1>4
  <2> QED BY <1>3, <2>1, <2>2
<1>6. Is(value)
  <2> HIDE DEF Is
  <2> QED BY <1>2, <1>5
<1>7. \A k \in 0..n : value[k] = IF k = 0 THEN 0 ELSE 10 * value[k - 1] + (s[k] - Digit(0))
  BY <1>3, <1>6
<1> HIDE DEF Is
<1> DEFINE S == {k \in 0..n : value[k] = f[k]}
<1>8. 0 \in S
  BY <1>4, <1>7
<1>9. ASSUME NEW k \in 1..n, k - 1 \in S PROVE k \in S
  <2>1. k \in 0..n /\ k # 0 /\ value[k - 1] = f[k - 1]
    BY <1>9
  <2>2. value[k] = 10 * value[k - 1] + (s[k] - Digit(0))
    BY <1>7, <2>1
  <2> QED BY <1>4, <2>1, <2>2
<1>10. 0..n \subseteq S
  <2> HIDE DEF S
  <2> QED BY <1>8, <1>9, UpFromZero
<1>11. value[n] = f[n]
  BY <1>10
<1> QED BY <1>0, <1>1, <1>3, <1>4, <1>11

\* A digit is left over where a number is divided by ten.
LEMMA DigitsLeft ==
    ASSUME NEW s \in Texts, Decimal(s), NEW n \in Nat, n = Len(s), NEW v \in [0..n -> Nat],
           v[0] = 0, \A k \in 1..n : v[k] = 10 * v[k - 1] + (s[k] - 48)
    PROVE  /\ n > 0 /\ v[1] < 10
           /\ \A k \in 1..n : v[k] \div 10 = v[k - 1] /\ Digit(v[k]) = s[k]
           /\ \A k \in 1..n : n > 1 => v[k] >= k /\ (k > 1 => v[k] >= 10)
<1>1. /\ n > 0 /\ \A k \in 1..n : s[k] \in 48..57
      /\ n > 1 => s[1] # 48
  BY DecimalDigits
<1>2. ASSUME NEW k \in 1..n PROVE v[k] \div 10 = v[k - 1] /\ Digit(v[k]) = s[k]
  <2>1. PICK q \in Nat, m \in 0..9, ten \in Nat \ {0} :
          /\ q = v[k - 1] /\ m = s[k] - 48 /\ s[k] = 48 + m
          /\ ten = 10 /\ m \in 0..(ten - 1)
    <3>1. k - 1 \in 0..n
      OBVIOUS
    <3>2. PICK c \in 48..57 : c = s[k]
      BY <1>1
    <3>3. v[k - 1] \in Nat /\ c - 48 \in 0..9 /\ c = 48 + (c - 48)
      BY <3>1
    <3> QED BY <3>2, <3>3
  <2>2. (ten * q + m) \div ten = q /\ (ten * q + m) % ten = m
    BY <2>1, DivUnique
  <2>3. v[k] = ten * q + m
    BY <2>1
  <2>4. v[k] \div 10 = q /\ v[k] % 10 = m
    BY <2>1, <2>2, <2>3
  <2>5. Digit(v[k]) = 48 + m
    BY <2>4 DEF Digit
  <2> QED BY <2>1, <2>4, <2>5
<1>3. v[1] = s[1] - 48 /\ 1 \in 1..n /\ v[1] < 10
  <2>1. 1 \in 1..n /\ 1 - 1 = 0
    BY <1>1
  <2>2. v[1] = 10 * v[1 - 1] + (s[1] - 48)
    BY <2>1
  <2> QED BY <1>1, <2>1, <2>2
<1>4. ASSUME n > 1, NEW k \in 1..n PROVE v[k] >= k /\ (k > 1 => v[k] >= 10)
  <2> DEFINE S == {j \in 0..n : v[j] >= j /\ (j > 1 => v[j] >= 10) /\ (j = 1 => v[j] >= 1)}
  <2>1. 0 \in S
    OBVIOUS
  <2>2. ASSUME NEW j \in 1..n, j - 1 \in S PROVE j \in S
    <3>1. v[j] = 10 * v[j - 1] + (s[j] - 48) /\ v[j - 1] \in Nat /\ s[j] - 48 \in 0..9 /\ j \in 0..n
      BY <1>1
    <3>2. CASE j = 1
      BY <1>1, <1>3, <1>4, <3>1, <3>2
    <3>3. CASE j > 1
      <4>1. v[j - 1] >= j - 1
        BY <2>2
      <4>2. PICK u \in Nat, x \in 0..9 : u = v[j - 1] /\ v[j] = 10 * u + x
        BY <3>1
      <4>3. 10 * u + x >= 10 * (j - 1)
        BY <4>1, <4>2
      <4> QED BY <3>1, <3>3, <4>2, <4>3
    <3> QED BY <3>2, <3>3
  <2>3. 0..n \subseteq S
    <3> HIDE DEF S
    <3> QED BY <2>1, <2>2, UpFromZero
  <2>4. k \in S
    BY <2>3
  <2> QED BY <2>4
<1> QED BY <1>1, <1>2, <1>3, <1>4

\* The digits of a number are the ones it was written in.
LEMMA PrintedExact ==
    ASSUME NEW s \in Texts, Decimal(s)
    PROVE  /\ UintToString(Number(s)).block = Append(s, 0)
           /\ UintToString(Number(s)).length = Len(s)
<1>1. PICK n \in Nat : n = Len(s)
  BY Terminated
<1>2. PICK v \in [0..n -> Nat] :
        /\ v[0] = 0 /\ Number(s) = v[n]
        /\ \A k \in 1..n : v[k] = 10 * v[k - 1] + (s[k] - 48)
  BY <1>1, NumberUnfolds
<1>3. /\ n > 0 /\ v[1] < 10
      /\ \A k \in 1..n : v[k] \div 10 = v[k - 1] /\ Digit(v[k]) = s[k]
      /\ \A k \in 1..n : n > 1 => v[k] >= k /\ (k > 1 => v[k] >= 10)
  BY <1>1, <1>2, DigitsLeft
<1>4. PICK a \in Nat : a = v[n] /\ n - 1 \in 0..a /\ n \in 1..(a + 1)
  <2>1. v[n] \in Nat /\ n \in 1..n
    BY <1>3
  <2>2. n > 1 => v[n] >= n
    BY <1>3, <2>1
  <2>3. n - 1 \in 0..v[n] /\ n \in 1..(v[n] + 1)
    BY <1>3, <2>1, <2>2
  <2> QED BY <2>1, <2>3
<1> DEFINE t[k \in 0..(a + 1)] == IF k = 0 THEN a ELSE t[k - 1] \div 10
           IsT(h) == h = [k \in 0..(a + 1) |-> IF k = 0 THEN a ELSE h[k - 1] \div 10]
           Few(k) == t[k] < 10 /\ \A j \in 0..(k - 1) : t[j] >= 10
           Nought(k) == t[k] = 0 /\ \A j \in 1..(k - 1) : t[j] > 0
           digits == 1 + CHOOSE k \in 0..a : Few(k)
           rounds == CHOOSE k \in 1..(a + 1) : Nought(k)
           written[k \in 0..rounds] ==
             IF k = 0 THEN Memcpy(Alloc(digits + 1), digits, <<0>>)
             ELSE Memcpy(written[k - 1], digits - k, <<Digit(t[k - 1])>>)
<1>5. UintToString(a) = [block |-> written[rounds], length |-> digits]
  BY DEF UintToString
<1> DEFINE IsW(h) == h = [k \in 0..rounds |->
                 IF k = 0 THEN Memcpy(Alloc(digits + 1), digits, <<0>>)
                 ELSE Memcpy(h[k - 1], digits - k, <<Digit(t[k - 1])>>)]
<1>6. t = CHOOSE h : IsT(h)
  OBVIOUS
<1>7. written = CHOOSE h : IsW(h)
  OBVIOUS
<1> HIDE DEF written, t
<1> DEFINE left == [k \in 0..(a + 1) |-> IF k <= n THEN v[n - k] ELSE 0]
<1>8. ASSUME NEW k \in 1..(a + 1) PROVE left[k] = left[k - 1] \div 10
  <2>1. k - 1 \in 0..(a + 1) /\ k \in 0..(a + 1)
    OBVIOUS
  <2>2. CASE k <= n
    <3>1. n - (k - 1) \in 1..n /\ (n - (k - 1)) - 1 = n - k /\ k - 1 <= n
      BY <2>2
    <3>2. v[n - (k - 1)] \div 10 = v[n - k]
      BY <1>3, <3>1
    <3> QED BY <2>1, <2>2, <3>1, <3>2
  <2>3. CASE k = n + 1
    <3>1. left[k - 1] = v[0] /\ left[k] = 0
      BY <2>1, <2>3
    <3> QED BY <1>2, <3>1
  <2>4. CASE k > n + 1
    <3>1. left[k - 1] = 0 /\ left[k] = 0
      BY <2>1, <2>4
    <3> QED BY <3>1
  <2> QED BY <2>2, <2>3, <2>4
<1>9. left[0] = a
  BY <1>4
<1>10. IsT(left)
  <2>1. \A k \in 0..(a + 1) : left[k] = IF k = 0 THEN a ELSE left[k - 1] \div 10
    <3>1. \A k \in 0..(a + 1) : k = 0 \/ k \in 1..(a + 1)
      OBVIOUS
    <3> HIDE DEF left
    <3> QED BY <1>8, <1>9, <3>1
  <2>2. left = [k \in 0..(a + 1) |-> left[k]]
    OBVIOUS
  <2> HIDE DEF left
  <2> QED BY <2>1, <2>2
<1>11. IsT(t)
  <2> HIDE DEF IsT, left
  <2> QED BY <1>6, <1>10
<1>12. \A k \in 0..(a + 1) : t[k] = IF k = 0 THEN a ELSE t[k - 1] \div 10
  BY <1>11
<1>13. \A k \in 0..(a + 1) : t[k] = IF k <= n THEN v[n - k] ELSE 0
  <2> DEFINE S == {k \in 0..(a + 1) : t[k] = left[k]}
  <2> HIDE DEF IsT, left
  <2>1. 0 \in S
    BY <1>9, <1>12
  <2>2. ASSUME NEW k \in 1..(a + 1), k - 1 \in S PROVE k \in S
    <3>1. k \in 0..(a + 1) /\ k # 0 /\ t[k - 1] = left[k - 1]
      BY <2>2
    <3> QED BY <1>8, <1>12, <3>1
  <2>3. 0..(a + 1) \subseteq S
    <3> HIDE DEF S
    <3>1. a + 1 \in Nat
      OBVIOUS
    <3> QED BY <2>1, <2>2, <3>1, UpFromZero
  <2>4. \A k \in 0..(a + 1) : t[k] = left[k]
    BY <2>3
  <2> QED BY <2>4 DEF left
<1> HIDE DEF IsT
<1>14. \A k \in 0..n : t[k] = v[n - k]
  BY <1>4, <1>13
<1>15. Few(n - 1) /\ n - 1 \in 0..a
  <2>1. t[n - 1] = v[1]
    <3>1. n - 1 \in 0..n /\ n - (n - 1) = 1
      BY <1>3
    <3> QED BY <1>14, <3>1
  <2>2. ASSUME NEW j \in 0..((n - 1) - 1) PROVE t[j] >= 10
    <3>1. j \in 0..n /\ n - j \in 1..n /\ n - j > 1 /\ n > 1
      BY <1>3
    <3>2. v[n - j] >= 10
      BY <1>3, <3>1
    <3> QED BY <1>14, <3>1, <3>2
  <2> QED BY <1>3, <1>4, <2>1, <2>2
<1>16. ASSUME NEW k \in 0..a, Few(k) PROVE k = n - 1
  <2>1. ~(k < n - 1)
    <3>1. SUFFICES ASSUME k < n - 1 PROVE FALSE
      OBVIOUS
    <3>2. k \in 0..((n - 1) - 1)
      BY <1>3, <3>1
    <3>3. t[k] >= 10 /\ t[k] < 10
      BY <1>15, <1>16, <3>2
    <3>4. t[k] \in Nat
      <4>1. k \in 0..n /\ n - k \in 0..n
        BY <3>1
      <4> QED BY <1>14, <4>1
    <3> QED BY <3>3, <3>4
  <2>2. ~(n - 1 < k)
    <3>1. SUFFICES ASSUME n - 1 < k PROVE FALSE
      OBVIOUS
    <3>2. n - 1 \in 0..(k - 1)
      BY <1>3, <3>1
    <3>3. t[n - 1] >= 10 /\ t[n - 1] < 10
      BY <1>15, <1>16, <3>2
    <3>4. t[n - 1] \in Nat
      BY <1>3, <1>14
    <3> QED BY <3>3, <3>4
  <2> QED BY <1>3, <2>1, <2>2
<1>17. digits = n
  <2> HIDE DEF Few
  <2>1. (CHOOSE k \in 0..a : Few(k)) = n - 1
    BY <1>15, <1>16
  <2>2. PICK c : c = CHOOSE k \in 0..a : Few(k)
    OBVIOUS
  <2>3. digits = 1 + c
    BY <2>2
  <2>4. 1 + (n - 1) = n
    OBVIOUS
  <2> HIDE DEF digits
  <2> QED BY <2>1, <2>2, <2>3, <2>4
<1>18. Nought(n)
  <2>1. t[n] = v[0]
    <3>1. n \in 0..n /\ n - n = 0
      OBVIOUS
    <3> QED BY <1>14, <3>1
  <2>2. ASSUME NEW j \in 1..(n - 1) PROVE t[j] > 0
    <3>1. j \in 0..n /\ n - j \in 1..n /\ n > 1
      OBVIOUS
    <3>2. v[n - j] >= n - j
      BY <1>3, <3>1
    <3>3. v[n - j] \in Nat
      BY <3>1
    <3> QED BY <1>14, <3>1, <3>2, <3>3
  <2> QED BY <1>2, <2>1, <2>2
<1>19. ASSUME NEW k \in 1..(a + 1), Nought(k) PROVE k = n
  <2>1. ~(k < n)
    <3>1. SUFFICES ASSUME k < n PROVE FALSE
      OBVIOUS
    <3>2. k \in 1..(n - 1)
      BY <3>1
    <3>3. t[k] > 0 /\ t[k] = 0
      BY <1>18, <1>19, <3>2
    <3> QED BY <3>3
  <2>2. ~(n < k)
    <3>1. SUFFICES ASSUME n < k PROVE FALSE
      OBVIOUS
    <3>2. n \in 1..(k - 1)
      BY <1>3, <3>1
    <3>3. t[n] > 0 /\ t[n] = 0
      BY <1>18, <1>19, <3>2
    <3> QED BY <3>3
  <2> QED BY <2>1, <2>2
<1>20. rounds = n
  <2> HIDE DEF Nought
  <2> QED BY <1>4, <1>18, <1>19
<1> HIDE DEF digits, rounds
<1> DEFINE suf(k) == SubSeq(s, (n - k) + 1, n)
           done(k) == (Alloc(n - k) \o suf(k)) \o <<0>>
           front == Memcpy(Alloc(digits + 1), digits, <<0>>)
           after(block, k) == Memcpy(block, digits - k, <<Digit(t[k - 1])>>)
<1>21. /\ s \in Seq(Content) /\ \A i \in 1..n : s[i] \in Content
       /\ \A k \in 0..n : suf(k) \in Seq(Content)
  <2>1. s \in Seq(Content) /\ \A i \in 1..n : s[i] \in Content
    <3>1. s \in Seq(Content)
      BY Terminated
    <3> QED BY <1>1, <3>1
  <2>2. ASSUME NEW k \in 0..n PROVE suf(k) \in Seq(Content)
    <3>1. \A i \in ((n - k) + 1)..n : s[i] \in Content
      <4>1. \A i \in ((n - k) + 1)..n : i \in 1..n
        OBVIOUS
      <4> QED BY <2>1, <4>1
    <3>2. (n - k) + 1 \in Int /\ n \in Int
      OBVIOUS
    <3> QED BY <3>1, <3>2, SubSeqProperties
  <2> HIDE DEF suf
  <2> QED BY <2>1, <2>2
<1>22. front = done(0)
  <2>1. PICK to \in Seq(Content), last \in Seq(Content) :
          to = Alloc(n) /\ Len(to) = n /\ last = <<0>> /\ Len(last) = 1
    <3>1. 0 \in Content
      BY DEF Content
    <3> QED BY <3>1, AllocTyped, SingleTyped
  <2>2. Memcpy(to \o Alloc(Len(last)), Len(to), last) = to \o last
    BY MemcpyFills
  <2>3. Alloc(n + 1) = to \o Alloc(1)
    BY <2>1, AllocParts
  <2>4. suf(0) = <<>>
    <3>1. n < (n - 0) + 1 /\ (n - 0) + 1 \in Int /\ n \in Int
      OBVIOUS
    <3> QED BY <3>1, SubSeqEmpty
  <2>5. to \o <<>> = to /\ n - 0 = n
    BY <2>1, WithNothing
  <2> HIDE DEF suf
  <2> QED BY <1>17, <2>1, <2>2, <2>3, <2>4, <2>5
<1>23. ASSUME NEW k \in 1..n PROVE after(done(k - 1), k) = done(k)
  <2>1. n - k \in Nat /\ n - (k - 1) = (n - k) + 1 /\ k - 1 \in 0..n /\ (n - k) + 1 \in 1..n /\ k \in 0..n
    OBVIOUS
  <2>2. PICK d \in Content : d = s[(n - k) + 1] /\ d = Digit(t[k - 1])
    <3>1. t[k - 1] = v[(n - k) + 1]
      BY <1>14, <2>1
    <3>2. Digit(v[(n - k) + 1]) = s[(n - k) + 1]
      BY <1>3, <2>1
    <3> QED BY <1>21, <2>1, <3>1, <3>2
  <2>3. PICK x \in Seq(Content), last \in Seq(Content), m \in Nat :
          x = suf(k - 1) /\ last = <<0>> /\ m = n - k /\ n - (k - 1) = m + 1
    <3>1. 0 \in Content
      BY DEF Content
    <3>2. <<0>> \in Seq(Content)
      BY <3>1, SingleTyped
    <3>3. suf(k - 1) \in Seq(Content)
      BY <1>21, <2>1
    <3> HIDE DEF suf
    <3> QED BY <2>1, <3>2, <3>3
  <2>4. Memcpy((Alloc(m + 1) \o x) \o last, m, <<d>>) = (Alloc(m) \o (<<d>> \o x)) \o last
    BY MemcpyLast
  <2>5. suf(k) = <<d>> \o x
    <3>1. n \in ((n - k) + 1)..Len(s) /\ (n - k) + 1 \in 1..Len(s)
      BY <1>1, <2>1
    <3>2. SubSeq(s, (n - k) + 1, n) = <<s[(n - k) + 1]>> \o SubSeq(s, ((n - k) + 1) + 1, n)
      BY <1>21, <3>1, SubSeqRecursiveFirst
    <3>3. ((n - k) + 1) + 1 = (n - (k - 1)) + 1
      BY <2>1
    <3> QED BY <2>2, <2>3, <3>2, <3>3
  <2> HIDE DEF suf
  <2>6. done(k - 1) = (Alloc(m + 1) \o x) \o last
    BY <2>3
  <2>7. done(k) = (Alloc(m) \o (<<d>> \o x)) \o last
    BY <2>3, <2>5
  <2> HIDE DEF done
  <2>8. after(done(k - 1), k) = Memcpy(done(k - 1), m, <<d>>)
    BY <1>17, <2>2, <2>3
  <2> HIDE DEF after
  <2> QED BY <2>4, <2>6, <2>7, <2>8
<1> HIDE DEF done, after, front
<1> DEFINE f == [k \in 0..rounds |-> done(k)]
<1>24. IsW(f)
  <2>1. ASSUME NEW k \in 0..rounds
        PROVE  f[k] = IF k = 0 THEN front ELSE after(f[k - 1], k)
    <3>1. CASE k = 0
      BY <1>22, <3>1
    <3>2. CASE k # 0
      <4>1. k \in 1..n /\ k - 1 \in 0..rounds
        BY <1>20, <3>2
      <4> QED BY <1>23, <3>2, <4>1
    <3> QED BY <3>1, <3>2
  <2>2. f = [k \in 0..rounds |-> f[k]]
    OBVIOUS
  <2> HIDE DEF f
  <2>3. f = [k \in 0..rounds |-> IF k = 0 THEN front ELSE after(f[k - 1], k)]
    BY <2>1, <2>2
  <2> QED BY <2>3 DEF front, after
<1>25. IsW(written)
  <2> HIDE DEF IsW, f
  <2> QED BY <1>7, <1>24
<1>26. \A k \in 0..rounds : written[k] = IF k = 0 THEN front ELSE after(written[k - 1], k)
  <2>1. written = [k \in 0..rounds |-> IF k = 0 THEN front ELSE after(written[k - 1], k)]
    BY <1>25 DEF front, after
  <2> QED BY <2>1
<1> HIDE DEF IsW, f
<1>27. written[n] = done(n)
  <2> DEFINE S == {k \in 0..n : written[k] = done(k)}
  <2>1. 0 \in S
    BY <1>20, <1>22, <1>26
  <2>2. ASSUME NEW k \in 1..n, k - 1 \in S PROVE k \in S
    <3>1. k \in 0..rounds /\ k # 0 /\ written[k - 1] = done(k - 1)
      BY <1>20, <2>2
    <3>2. written[k] = after(written[k - 1], k)
      BY <1>26, <3>1
    <3> QED BY <1>23, <3>1, <3>2
  <2>3. 0..n \subseteq S
    <3> HIDE DEF S
    <3> QED BY <2>1, <2>2, UpFromZero
  <2> QED BY <2>3
<1>28. done(n) = Append(s, 0)
  <2>1. suf(n) = s
    <3>1. SubSeq(s, 1, Len(s)) = s
      BY <1>21, SubSeqFull
    <3>2. (n - n) + 1 = 1
      OBVIOUS
    <3> QED BY <1>1, <3>1, <3>2
  <2>2. Alloc(n - n) = <<>> /\ <<>> \o s = s
    <3>1. n - n = 0
      OBVIOUS
    <3> QED BY <1>21, <3>1, NoneAllocated, WithNothing
  <2> HIDE DEF suf
  <2> QED BY <2>1, <2>2, Terminated DEF done
<1>29. UintToString(Number(s)) = [block |-> Append(s, 0), length |-> n]
  BY <1>2, <1>4, <1>5, <1>17, <1>20, <1>27, <1>28
<1> QED BY <1>1, <1>29

-----------------------------------------------------------------------------
(* Strung                                                                    *)

StringsInv == text \in Texts /\ Strung

LEMMA MakesKeeps ==
    ASSUME StringsInv, NEW newText \in Texts, NEW newBlock, NEW newLength,
           newBlock = Append(newText, 0), newLength \in {-1, Len(newText)},
           Makes(newText, newBlock, newLength)
    PROVE  StringsInv'
BY DEF StringsInv, Strung, Makes

LEMMA ReadsText == ASSUME StringsInv PROVE Characters(result) = text
BY ReadBack DEF StringsInv, Strung

LEMMA WordsAreWords == ASSUME NEW word \in Words PROVE word \in Texts
BY StringsAssumption DEF Texts

LEMMA ConcatWord ==
    ASSUME NEW a \in Texts, NEW b \in Texts PROVE a \o b \in Texts
BY DEF Texts

LEMMA JoinKeeps == StringsInv /\ JoinStrings => StringsInv'
<1> SUFFICES ASSUME StringsInv, JoinStrings PROVE StringsInv'
  OBVIOUS
<1>1. PICK n \in 0..MaxOthers : \E others \in [1..n -> Words], delimiter \in Words :
        Makes(Joined(<<text>> \o others, delimiter),
              Join(<<Characters(result)>> \o others, delimiter).block,
              Join(<<Characters(result)>> \o others, delimiter).length)
  BY DEF JoinStrings
<1>2. PICK others \in [1..n -> Words], delimiter \in Words :
        Makes(Joined(<<text>> \o others, delimiter),
              Join(<<Characters(result)>> \o others, delimiter).block,
              Join(<<Characters(result)>> \o others, delimiter).length)
  BY <1>1
<1>3. PICK strings \in Seq(Texts) : strings = <<text>> \o others /\ strings # <<>>
  <2>1. n \in Nat
    BY StringsAssumption
  <2>2. others \in Seq(Words)
    BY <2>1
  <2>3. others \in Seq(Texts)
    BY <2>2, WordsAreWords, SeqMonotonic
  <2>4. <<text>> \in Seq(Texts) /\ <<text>> # <<>>
    BY DEF StringsInv
  <2>5. <<text>> \o others \in Seq(Texts) /\ Len(<<text>> \o others) > 0
    BY <2>3, <2>4
  <2>6. PICK strings \in Seq(Texts) : strings = <<text>> \o others /\ Len(strings) > 0
    BY <2>5
  <2>7. strings # <<>>
    BY <2>6
  <2> QED BY <2>6, <2>7
<1>4. delimiter \in Texts
  BY WordsAreWords
<1>5. /\ Joined(strings, delimiter) \in Texts
      /\ Join(strings, delimiter).block = Append(Joined(strings, delimiter), 0)
      /\ Join(strings, delimiter).length = Len(Joined(strings, delimiter))
  BY <1>3, <1>4, JoinExact
<1>6. Makes(Joined(strings, delimiter), Join(strings, delimiter).block,
            Join(strings, delimiter).length)
  BY <1>2, <1>3, ReadsText
<1> QED BY <1>5, <1>6, MakesKeeps

LEMMA JoinNothingKeeps ==
    ASSUME ~JoinNone, StringsInv, JoinNothing PROVE StringsInv'
<1>1. /\ resultLen' = -1 /\ result' = result /\ text' = text
      /\ slashStatus' = 0 /\ slashDue' = FALSE
  BY DEF JoinNothing
<1> QED BY <1>1 DEF StringsInv, Strung

LEMMA AppendKeeps == StringsInv /\ AppendString => StringsInv'
<1> SUFFICES ASSUME StringsInv, AppendString PROVE StringsInv'
  OBVIOUS
<1>1. PICK word \in Words : \/ Makes(text \o word, StringAppend(Characters(result), word), -1)
                            \/ Makes(word \o text, StringAppend(word, Characters(result)), -1)
  BY DEF AppendString
<1>2. word \in Texts /\ text \in Texts
  BY WordsAreWords DEF StringsInv
<1>3. Characters(result) = text
  BY ReadsText
<1>4. CASE Makes(text \o word, StringAppend(Characters(result), word), -1)
  <2>1. StringAppend(text, word) = Append(text \o word, 0) /\ text \o word \in Texts
    BY <1>2, AppendExact, ConcatWord
  <2>2. Makes(text \o word, StringAppend(text, word), -1)
    BY <1>3, <1>4
  <2> QED BY <2>1, <2>2, MakesKeeps
<1>5. CASE Makes(word \o text, StringAppend(word, Characters(result)), -1)
  <2>1. StringAppend(word, text) = Append(word \o text, 0) /\ word \o text \in Texts
    BY <1>2, AppendExact, ConcatWord
  <2>2. Makes(word \o text, StringAppend(word, text), -1)
    BY <1>3, <1>5
  <2> QED BY <2>1, <2>2, MakesKeeps
<1> QED BY <1>1, <1>4, <1>5

LEMMA CloneKeeps == StringsInv /\ CloneString => StringsInv'
<1> SUFFICES ASSUME StringsInv, CloneString PROVE StringsInv'
  OBVIOUS
<1>1. text \in Texts /\ Makes(text, Clone(text), -1)
  BY ReadsText DEF CloneString, StringsInv
<1>2. Clone(text) = Append(text, 0)
  BY <1>1, CloneExact
<1> QED BY <1>1, <1>2, MakesKeeps

LEMMA SlashKeeps ==
    ASSUME ~SlashAny, StringsInv, EnsureTrailingSlash PROVE StringsInv'
<1>1. /\ text \in Texts /\ result = Append(text, 0) /\ Characters(result) = text
      /\ Len(text) \in Nat
  BY ReadsText, Terminated DEF StringsInv, Strung
<1>2. /\ IF EndsWithSlash(text) THEN slashStatus' = 0 /\ result' = result
         ELSE \/ slashStatus' = 1 /\ result' = result
              \/ slashStatus' = 2 /\ result' = Slashed(text)
      /\ slashDue' = ~(text # <<>> /\ text[Len(text)] = Slash)
      /\ text' = IF slashDue' /\ slashStatus' # 1 THEN Append(text, Slash) ELSE text
      /\ resultLen' = -1
      /\ text # <<>> /\ Len(text) + 2 < LengthMod
  BY <1>1 DEF EnsureTrailingSlash
<1>3. EndsWithSlash(text) <=> ~slashDue'
  <2>1. Len(text) < LengthMod /\ Len(text) # 0
    BY <1>1, <1>2, StringsAssumption DEF Texts
  <2>2. Narrow(Len(text)) = Len(text)
    BY <1>1, <2>1, NarrowKeeps
  <2> QED BY <1>2, <2>1, <2>2 DEF EndsWithSlash
<1>4. CASE EndsWithSlash(text)
  <2>1. slashDue' = FALSE /\ slashStatus' = 0 /\ text' = text /\ result' = result
    BY <1>2, <1>3, <1>4
  <2> QED BY <1>1, <1>2, <2>1 DEF StringsInv, Strung
<1>5. CASE ~EndsWithSlash(text)
  <2>1. slashDue' = TRUE
    BY <1>2, <1>3, <1>5
  <2>2. CASE slashStatus' = 1 /\ result' = result
    <3>1. text' = text
      BY <1>2, <2>2
    <3> QED BY <1>1, <1>2, <2>1, <2>2, <3>1 DEF StringsInv, Strung
  <2>3. CASE slashStatus' = 2 /\ result' = Slashed(text)
    <3>1. text' = Append(text, Slash) /\ text' \in Texts
      <4>1. text' = Append(text, Slash)
        BY <1>2, <2>1, <2>3
      <4>2. Append(text, Slash) \in Texts
        BY <1>1 DEF Texts, Slash
      <4> QED BY <4>1, <4>2
    <3>2. result' = Append(text', 0)
      BY <1>1, <1>2, <2>3, <3>1, SlashedExact
    <3> QED BY <1>2, <2>1, <2>3, <3>1, <3>2 DEF StringsInv, Strung
  <2> QED BY <1>2, <1>5, <2>2, <2>3
<1> QED BY <1>4, <1>5

LEMMA PrintKeeps == StringsInv /\ PrintNumber => StringsInv'
<1> SUFFICES ASSUME StringsInv, PrintNumber PROVE StringsInv'
  OBVIOUS
<1>1. /\ text \in Texts /\ Decimal(text)
      /\ Makes(text, UintToString(Number(text)).block, UintToString(Number(text)).length)
  BY ReadsText DEF PrintNumber, StringsInv
<1>2. /\ UintToString(Number(text)).block = Append(text, 0)
      /\ UintToString(Number(text)).length = Len(text)
  BY <1>1, PrintedExact
<1> QED BY <1>1, <1>2, MakesKeeps

LEMMA StringsInitial == StringsInit => StringsInv
BY DEF StringsInit, StringsInv, Strung, Texts

LEMMA StringsStep ==
    ASSUME ~SlashAny, ~JoinNone
    PROVE  StringsInv /\ [StringsNext]_stringsVars => StringsInv'
<1>1. StringsInv /\ UNCHANGED stringsVars => StringsInv'
  BY DEF StringsInv, Strung, stringsVars
<1> QED
  BY <1>1, JoinKeeps, JoinNothingKeeps, AppendKeeps, CloneKeeps, SlashKeeps, PrintKeeps
  DEF StringsNext

\* Whatever strings are joined, appended, copied, completed and printed, and
\* whichever allocations fail, the blocks are filled exactly (string.h:8-118),
\* where ensure_trailing_slash is given neither the empty string nor one of
\* 2^32 - 2 characters or more, and string_join no empty list with a delimiter
\* of less than two characters.
THEOREM StringsAreExact ==
    ASSUME ~SlashAny, ~JoinNone
    PROVE  StringsSpec => []Strung
<1>1. StringsInv => Strung
  BY DEF StringsInv
<1>2. StringsInv /\ [StringsNext]_stringsVars => StringsInv'
  BY StringsStep
<1> QED BY <1>1, <1>2, StringsInitial, PTL DEF StringsSpec
=============================================================================
