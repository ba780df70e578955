------------------------------- MODULE Bezier ------------------------------
(* spline-path.c: how spline_path_beziern_generate fills its range.  A curve *)
(* is evaluated at even steps of its parameter, which gives x as well as y;  *)
(* positions that no sample falls on are filled from the samples around.     *)
(* Of out only is kept which positions were written and read.                *)
EXTENDS Integers, Sequences

CONSTANTS
    Resolution,   \* spline_path_bezier_resolution
    Curves        \* the x of the points of curves, three or four of each

\* Points lie between the first and the last one: curves that fold back are
\* not supported (spline-path.h:20).
ASSUME BezierAssumption ==
    /\ Resolution \in Nat /\ Resolution >= 2
    /\ \A xs \in Curves :
         /\ xs \in Seq(Nat) /\ Len(xs) \in {3, 4} /\ xs[1] < xs[Len(xs)]
         /\ \A k \in DOMAIN xs : xs[1] <= xs[k] /\ xs[k] <= xs[Len(xs)]

VARIABLES
    curve, start, end,   \* what is generated
    step,                \* i, the parameter times Span
    reached,             \* x of the last round, x_previous in the next one
    samples, fills,      \* the positions written with samples, and in gaps
    reads                \* the positions of out that were read

curveVars == <<curve, start, end, step, reached, samples, fills, reads>>

\* x of the curve with the points xs at the parameter i / n, times n^2 or n^3
Interpolated(xs, i, n) ==
    LET m == n - i IN
    IF Len(xs) = 3
    THEN xs[1] * m * m + xs[2] * 2 * m * i + xs[3] * i * i
    ELSE xs[1] * m * m * m + xs[2] * 3 * m * m * i + xs[3] * 3 * m * i * i
           + xs[4] * i * i * i

\* round, for numbers that are not negative
XAt(xs, i, n) ==
    LET d == IF Len(xs) = 3 THEN n * n ELSE n * n * n
    IN (2 * Interpolated(xs, i, n) + d) \div (2 * d)

Span == Resolution * (curve[Len(curve)] - curve[1])

\* the first position of the gap behind "before" that is filled: the next one,
\* or the start of the range
GapBegin(before) == IF before + 1 < start THEN start - before ELSE 1

\* Mutant of Gap: the last position of a gap is not filled.
GapShort(before, x) ==
    {before + j : j \in {k \in GapBegin(before)..(end - before) :
                           before + k < end /\ (x < before \/ k < x - before - 1)}}
\* the positions between the previous sample and x that are in the range;
\* the difference wraps to a huge number where x is smaller
Gap(before, x) ==
    {before + j : j \in {k \in GapBegin(before)..(end - before) :
                           before + k < end /\ (x < before \/ k < x - before)}}

\* where a gap across the start of the range is taken to begin: at the start
\* of the segment, if some earlier parameter gives a smaller x
Earlier(x) ==
    IF \E j \in 1..step : XAt(curve, j, Span) < x THEN curve[1] ELSE reached

CurveInit ==
    /\ curve \in Curves
    /\ start \in curve[1]..curve[Len(curve)] /\ end \in (start + 1)..curve[Len(curve)]
    /\ step = start - curve[1] /\ reached = start
    /\ samples = {} /\ fills = {} /\ reads = {}

Generated == ~(step < Resolution * (end - start) \/ reached < end)

\* a round of the loop
Evaluate ==
    /\ ~Generated
    /\ LET x == XAt(curve, step, Span)
           wide == x < reached \/ x - reached >= 2
       IN /\ reached' = x
          /\ samples' = IF x >= start /\ x < end THEN samples \cup {x} ELSE samples
          /\ fills' = IF ~wide THEN fills
                      ELSE fills \cup Gap(IF start < reached THEN reached ELSE Earlier(x), x)
          /\ reads' = IF wide /\ start < reached THEN reads \cup {reached} ELSE reads
    /\ step' = step + 1
    /\ UNCHANGED <<curve, start, end>>

CurveSpec == CurveInit /\ [][Evaluate]_curveVars

-----------------------------------------------------------------------------
\* Nothing outside of the range is written, and all of it is, if the curve is
\* quadratic or the range begins where the segment does: the gap between two
\* samples is filled also where it lies across the end of the range.  Samples
\* of a quadratic curve leave no gaps, so that nothing is read back from out
\* (spline-path.c:263-330).
Filled ==
    /\ samples \cup fills \subseteq start..(end - 1)
    /\ Generated /\ (Len(curve) = 3 \/ start = curve[1]) =>
         samples \cup fills = start..(end - 1)
    /\ Len(curve) = 3 => reads = {} /\ (Generated => samples = start..(end - 1))
=============================================================================
