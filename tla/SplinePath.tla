----------------------------- MODULE SplinePath -----------------------------
(* spline-path.c: a path is an array of segments along x and is sampled in    *)
(* ranges.  A path remembers the segment where the last range ended and goes  *)
(* on from there; a segment may itself be a path, with a cursor of its own    *)
(* behind a pointer that all copies of the outer path share.                  *)
(*                                                                            *)
(* x coordinates are whole numbers.  The value at x is told by the segment it *)
(* comes from; every segment type is taken to fill the range it is given.     *)
EXTENDS Integers, Sequences, FiniteSetsExt

CONSTANTS
    Shapes,      \* the paths of the program: what the constructors were given
    SizeMax,     \* spline_path_size_max
    Horizon,     \* bound: ranges end here
    Users,       \* threads, each with its own copy of the path
    Discipline   \* which ranges they ask for: "any", "each" or "all", see MayGet

ASSUME SplineAssumption ==
    /\ SizeMax \in Nat /\ Horizon \in Nat /\ Horizon < SizeMax
    /\ Discipline \in {"any", "each", "all"}

VARIABLES
    segments,  \* path->segments: where each starts and ends, and the nested path
    cursor,    \* of each user's copy: current_segment_index, previous_start
    nested,    \* the same of the nested path of each segment
    last,      \* the end of each user's last range
    got        \* the last range, and what was written to out

splineVars == <<segments, cursor, nested, last, got>>

-----------------------------------------------------------------------------
(* spline_path_set                                                            *)

\* the end of a path, that of a constant at its end being where it starts
PathEnd(segs) ==
    LET s == segs[Len(segs)] IN IF s.end = SizeMax THEN s.start ELSE s.end

\* where a segment ends that starts at x: a nested path is as long as that
\* path, a constant goes on for ever
EndFrom(s, x) ==
    CASE s.kind = "constant" -> SizeMax
      [] s.kind = "path" -> x + PathEnd(s.sub)
      [] OTHER -> s.x

\* spline_path_prepare_segments: each segment starts where the previous ends
Prepared(shape) ==
    LET end[i \in 0..Len(shape)] ==
          IF i = 0 THEN 0 ELSE EndFrom(shape[i], end[i - 1])
    IN [i \in 1..Len(shape) |->
          [start |-> end[i - 1], end |-> end[i], sub |-> shape[i].sub]]

\* a path as spline_path_set prepares one, without paths in it
Flat == Seq([start : Nat, end : Nat, sub : {<<>>}])
Contiguous(segs) ==
    /\ segs # <<>> /\ segs[1].start = 0
    /\ \A i \in 2..Len(segs) : segs[i].start = segs[i - 1].end

\* spline_path_path is given a path that was set before
ASSUME ShapesAssumption ==
    \A shape \in Shapes :
      /\ shape \in Seq([kind : {"line", "constant", "path"}, x : Nat, sub : Flat])
      /\ \A i \in DOMAIN shape :
           IF shape[i].kind = "path" THEN Contiguous(shape[i].sub) ELSE shape[i].sub = <<>>

\* spline_path_validate, for segments whose second point is their end
Valid(segs) ==
    /\ segs # <<>>
    /\ \A i \in DOMAIN segs :
         /\ segs[i].end >= segs[i].start
         /\ \A j \in DOMAIN segs[i].sub : segs[i].sub[j].end >= segs[i].sub[j].start

AtStart == [index |-> 1, start |-> 0]
NoRange == [start |-> 0, end |-> 0, out |-> <<>>]

\* the path was set and validated, and copied for each user
SplineInit ==
    /\ segments \in {Prepared(shape) : shape \in Shapes}
    /\ Valid(segments)
    /\ cursor = [u \in Users |-> AtStart]
    /\ nested = [i \in DOMAIN segments |-> AtStart]
    /\ last = [u \in Users |-> 0]
    /\ got = NoRange

HasNested == \E i \in DOMAIN segments : segments[i].sub # <<>>

\* spline_path_set again, with the same segments: nested paths are left alone
SetAgain(u) ==
    /\ Discipline = "all" => ~HasNested
    /\ cursor' = [cursor EXCEPT ![u] = AtStart]
    /\ last' = [last EXCEPT ![u] = 0]
    /\ UNCHANGED <<segments, nested, got>>

-----------------------------------------------------------------------------
(* spline_path_get                                                            *)

\* Mutant of First: never goes back.
FirstForward(c, start) == c.index
\* where the loop begins
First(c, start) == IF start < c.start THEN 1 ELSE c.index

\* the rounds before the loop ends at a segment behind the range
Rounds(segs, c, start, end) ==
    {i \in First(c, start)..Len(segs) :
       \A j \in First(c, start)..i : segs[j].start <= end}

\* the cursor afterwards
Advance(segs, c, start, end) ==
    LET done == Rounds(segs, c, start, end)
    IN [index |-> IF done = {} THEN c.index ELSE Max(done), start |-> start]

\* the segments that are generated, and the part of the range each one gets
Parts(segs, c, start, end) ==
    {i \in Rounds(segs, c, start, end) : segs[i].end >= start}
From(s, start) == Max({s.start, start})
To(s, end) == Min({s.end, end})

\* the piece that covers x, or 0 where out is not written
PieceAt(segs, c, start, end, x) ==
    LET covering == {i \in Parts(segs, c, start, end) :
                       From(segs[i], start) <= x /\ x < To(segs[i], end)}
    IN IF covering = {} THEN 0 ELSE Max(covering)

Untouched == <<0, 0>>

\* what is written for x: by spline_path_path_generate through a get on the
\* nested path
Written(c, start, end, x) ==
    LET i == PieceAt(segments, c, start, end, x) IN
    IF i = 0 THEN Untouched
    ELSE LET s == segments[i] IN
         IF s.sub = <<>> THEN <<i, 0>>
         ELSE LET j == PieceAt(s.sub, nested[i], From(s, start) - s.start,
                               To(s, end) - s.start, x - s.start)
              IN IF j = 0 THEN Untouched ELSE <<i, j>>

\* What the users keep to.  "each": the ranges of a copy follow one another.
\* "all": those of all copies do; where no path is nested a range may also
\* begin before the previous one of its copy did.
MayGet(u, start) ==
    CASE Discipline = "any"  -> TRUE
      [] Discipline = "each" -> start >= last[u]
      [] Discipline = "all"  ->
           IF HasNested THEN \A v \in Users : start >= last[v]
           ELSE start >= last[u] \/ start < cursor[u].start

Get(u, start, end) ==
    /\ MayGet(u, start)
    /\ LET c == cursor[u] IN
       /\ got' = [start |-> start, end |-> end,
                  out |-> [x \in start..(end - 1) |-> Written(c, start, end, x)]]
       /\ cursor' = [cursor EXCEPT ![u] = Advance(segments, c, start, end)]
       /\ nested' = [i \in DOMAIN segments |->
                       LET s == segments[i] IN
                       IF s.sub # <<>> /\ i \in Parts(segments, c, start, end)
                       THEN Advance(s.sub, nested[i], From(s, start) - s.start,
                                    To(s, end) - s.start)
                       ELSE nested[i]]
    /\ last' = [last EXCEPT ![u] = end]
    /\ UNCHANGED segments

SplineNext ==
    \E u \in Users :
      \/ SetAgain(u)
      \/ \E start, end \in 0..Horizon : start < end /\ Get(u, start, end)

SplineSpec == SplineInit /\ [][SplineNext]_splineVars

-----------------------------------------------------------------------------
\* Types; a cursor always is at a segment of its path.
SplineTypeOK ==
    /\ Valid(segments)
    /\ cursor \in [Users -> [index : DOMAIN segments, start : 0..Horizon]]
    /\ \A i \in DOMAIN segments :
         /\ nested[i].start \in 0..Horizon
         /\ nested[i].index \in DOMAIN segments[i].sub \cup {1}
    /\ last \in [Users -> 0..Horizon]

\* the segment that x is on, which begins at x or before and ends behind x
On(segs, x) ==
    LET there == {i \in DOMAIN segs : segs[i].start <= x /\ x < segs[i].end}
    IN IF there = {} THEN 0 ELSE Max(there)

\* the value of the path at x, whatever was sampled before
ValueAt(x) ==
    LET i == On(segments, x) IN
    IF i = 0 THEN Untouched
    ELSE LET s == segments[i] IN
         IF s.sub = <<>> THEN <<i, 0>>
         ELSE LET j == On(s.sub, x - s.start)
              IN IF j = 0 THEN Untouched ELSE <<i, j>>

\* spline_path_get gives the "values on path between start (inclusive) and end
\* (exclusive)" (spline-path.c:118): no segment of the range is skipped or
\* taken for another one, wherever the cursors of the path and of the paths
\* nested in it were left by earlier ranges.
GetComplete ==
    got.out = [x \in got.start..(got.end - 1) |-> ValueAt(x)]
=============================================================================
