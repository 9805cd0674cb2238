------------------------------- MODULE Vec2 -------------------------------
(***************************************************************************)
(* Integer vectors of game/Vec2.roc.  A vector is a record [x, y]; a list  *)
(* of vectors is a set, because the points of one block are distinct and   *)
(* no function of the game reads their order.                              *)
(***************************************************************************)
EXTENDS Integers, FiniteSetsExt

Vec == [x : Int, y : Int]

vec2(x, y) == [x |-> x, y |-> y]

zero == vec2(0, 0)

add(a, b) == vec2(a.x + b.x, a.y + b.y)

subtract(a, b) == vec2(a.x - b.x, a.y - b.y)

(* Num.divTruncChecked with default 0: the quotient is rounded towards     *)
(* zero, and a division by zero gives zero.                                *)
DivTrunc(n, d) ==
  LET magnitude(a, b) == (IF a < 0 THEN -a ELSE a) \div (IF b < 0 THEN -b ELSE b)
  IN  IF d = 0 THEN 0
      ELSE IF (n < 0) = (d < 0) THEN magnitude(n, d)
      ELSE -magnitude(n, d)

divide(a, b) == vec2(DivTrunc(a.x, b.x), DivTrunc(a.y, b.y))

(* Variant: half the sum, which is rounded the other way below zero.       *)
midpoint_HalfSum(a, b) == divide(add(a, b), vec2(2, 2))

midpoint(a, b) == add(divide(subtract(b, a), vec2(2, 2)), a)

(* Corners of the smallest rectangle around a set of points; both are the  *)
(* zero vector when there is no point.                                     *)
boundsMin(points) ==
  IF points = {} THEN zero
  ELSE vec2(Min({p.x : p \in points}), Min({p.y : p \in points}))

boundsMax(points) ==
  IF points = {} THEN zero
  ELSE vec2(Max({p.x : p \in points}), Max({p.y : p \in points}))

boundsCenter(points) == midpoint(boundsMin(points), boundsMax(points))
=============================================================================
