------------------------------- MODULE Random ------------------------------
(* random.c: numbers below a bound, made from numbers of a whole word by     *)
(* multiplication, with draws rejected until what remains is unbiased.       *)
EXTENDS Integers, Sequences, FiniteSets

CONSTANT WordSize   \* how many numbers sph_random_u64 draws from, 2^64

ASSUME RandomAssumption == WordSize \in Nat /\ WordSize >= 2

Word == 0..(WordSize - 1)
Low(m) == m % WordSize
High(m) == m \div WordSize

\* Mutant of Threshold: the remainder of the division is not taken.
ThresholdUnreduced(range) == (WordSize - range) % WordSize
\* t: -range in a word, less range, modulo range
Threshold(range) ==
    LET t == (WordSize - range) % WordSize IN
    IF t >= range
    THEN IF t - range >= range THEN (t - range) % range ELSE t - range
    ELSE t

\* the test before the loop, which spares the division, and that of the loop
TakenFirst(range, x) == Low(x * range) >= range
Taken(range, x) == Low(x * range) >= Threshold(range)

Result(range, x) == High(x * range)

VARIABLES
    bound,    \* the range that was asked for
    draws,    \* "first", "again" in the loop, or "done"
    number    \* what was returned

randomVars == <<bound, draws, number>>

RandomInit == bound \in Word /\ draws = "first" /\ number = 0

Accept(x) == draws' = "done" /\ number' = Result(bound, x)

FirstDraw ==
    /\ draws = "first"
    /\ \E x \in Word : IF TakenFirst(bound, x) \/ Taken(bound, x)
                       THEN Accept(x)
                       ELSE draws' = "again" /\ UNCHANGED number
    /\ UNCHANGED bound

\* a draw that is not taken leaves everything as it is
NextDraw ==
    /\ draws = "again"
    /\ \E x \in Word : Taken(bound, x) /\ Accept(x)
    /\ UNCHANGED bound

RandomNext == FirstDraw \/ NextDraw

RandomSpec == RandomInit /\ [][RandomNext]_randomVars

-----------------------------------------------------------------------------
\* the draws that would now give v
Giving(v) ==
    {x \in Word : /\ Taken(bound, x) \/ (draws = "first" /\ TakenFirst(bound, x))
                  /\ Result(bound, x) = v}

\* Whatever was rejected before, the numbers below the bound are equally
\* likely, and as few draws are rejected as that needs; no other number is
\* returned, and a bound of zero gives zero at once (random.c:48-71).
Uniform ==
    IF bound = 0 THEN draws # "again" /\ number = 0
    ELSE /\ draws # "done" =>
              \A v \in 0..(bound - 1) : Cardinality(Giving(v)) = WordSize \div bound
         /\ draws = "done" => number \in 0..(bound - 1)
=============================================================================
