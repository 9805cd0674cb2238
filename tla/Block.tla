------------------------------- MODULE Block -------------------------------
(***************************************************************************)
(* Blocks of game/Block.roc.  A block is the set of its points: the colour *)
(* is only drawn, and Block.empty, the white block without points, is the  *)
(* only block without points that the game ever holds as its moving block. *)
(***************************************************************************)
EXTENDS Vec2

empty == {}

min(block) == boundsMin(block)

max(block) == boundsMax(block)

size(block) == add(subtract(max(block), min(block)), vec2(1, 1))

translate(block, translation) == {add(p, translation) : p \in block}

(* Turn every point about the origin, then move the result so that the     *)
(* centre of its bounds is the centre of the bounds before the turn.       *)
(* Variant: it is not moved.                                               *)
rotate_AboutOrigin(block, xScale, yScale) ==
  {vec2(p.y * xScale, p.x * yScale) : p \in block}

rotate(block, xScale, yScale) ==
  LET rotatedPoints == {vec2(p.y * xScale, p.x * yScale) : p \in block}
      error == subtract(boundsCenter(block), boundsCenter(rotatedPoints))
  IN  translate(rotatedPoints, error)

(* Variant: a sign is lost.                                                *)
rotateClockwise_Mirrored(block) == rotate(block, 1, 1)

rotateClockwise(block) == rotate(block, -1, 1)

rotateCounterClockwise(block) == rotate(block, 1, -1)
=============================================================================
