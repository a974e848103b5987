------------------------------- MODULE Geometry -------------------------------
(* Rectangles with half-open integer edges (geometry/rect.py), transforms and *)
(* placements (transform.py, placement.py). What raises ValueError is <<>>,   *)
(* what returns r is <<r>>. A transform holds floats, computed in the order   *)
(* of the source.                                                             *)
EXTENDS Floats

CONSTANT Tolerance  \* abs_tol of math.isclose, in units of 1 / One

ASSUME GeometryAssumption == Tolerance \in Nat

Rect(x, y, width, height) == [x |-> x, y |-> y, width |-> width, height |-> height]
Rects == [x : Int, y : Int, width : Nat \ {0}, height : Nat \ {0}]

Right(r) == r.x + r.width
Bottom(r) == r.y + r.height

FromLTRB(left, top, right, bottom) ==
    IF right <= left \/ bottom <= top THEN <<>>
    ELSE <<Rect(left, top, right - left, bottom - top)>>

ContainsRect(r, s) ==
    r.x <= s.x /\ r.y <= s.y /\ Right(s) <= Right(r) /\ Bottom(s) <= Bottom(r)

Translated(r, dx, dy) == [r EXCEPT !.x = @ + dx, !.y = @ + dy]
------------------------------------------------------------------------------
(* One axis of a transform: coordinates v become v * scale + offset.          *)
Axis(from, width, to, newWidth) ==
    LET scale == Over(FloatOf(newWidth), FloatOf(width))
    IN  [scale |-> scale, offset |-> Minus(FloatOf(to), Times(FloatOf(from), scale))]

FromRects(source, target) ==
    [x |-> Axis(source.x, source.width, target.x, target.width),
     y |-> Axis(source.y, source.height, target.y, target.height)]

MapCoordinate(axis, v) == Plus(Times(v, axis.scale), axis.offset)

(* The images of the four edges: left, top, right, bottom.                    *)
Edges(t, r) == <<MapCoordinate(t.x, FloatOf(r.x)), MapCoordinate(t.y, FloatOf(r.y)),
                 MapCoordinate(t.x, FloatOf(Right(r))), MapCoordinate(t.y, FloatOf(Bottom(r)))>>

MapRectExact(t, r) ==
    LET edges == Edges(t, r)
        rounded == [i \in 1..4 |-> RoundOf(edges[i])]
    IN  IF \A i \in 1..4 : Magnitude(edges[i] - rounded[i] * One) <= Tolerance
        THEN FromLTRB(rounded[1], rounded[2], rounded[3], rounded[4]) ELSE <<>>

(* Faulty variant: the far edges are cut off instead of enclosed.             *)
MapRectWithin(t, r) ==
    LET edges == Edges(t, r) IN
    FromLTRB(FloorOf(edges[1]), FloorOf(edges[2]), FloorOf(edges[3]), FloorOf(edges[4]))

MapRectEnclosing(t, r) ==
    LET edges == Edges(t, r) IN
    FromLTRB(FloorOf(edges[1]), FloorOf(edges[2]), CeilOf(edges[3]), CeilOf(edges[4]))

(* LocalPlacement and ApplicationPresentationMapping: from bounds to bounds.  *)
MapRectBetween(source, target, r) ==
    IF ContainsRect(source, r) THEN MapRectEnclosing(FromRects(source, target), r) ELSE <<>>
==============================================================================
