---------------------------- MODULE MCSplinePath ----------------------------
(* Small instances of SplinePath: every path of up to three segments.        *)
EXTENDS SplinePath

CONSTANT MaxX   \* bound on the x of the points that are given

Line(x) == [kind |-> "line", x |-> x, sub |-> <<>>]
Constant == [kind |-> "constant", x |-> 0, sub |-> <<>>]
Path(shape) == [kind |-> "path", x |-> 0, sub |-> Prepared(shape)]

InnerShapes == {<<Line(1), Line(2)>>, <<Line(0), Line(2)>>, <<Line(1), Constant>>}

Segments == {Line(x) : x \in 0..MaxX} \cup {Constant}
              \cup {Path(shape) : shape \in InnerShapes}

AllShapes == UNION {[1..n -> Segments] : n \in 1..3}
=============================================================================
