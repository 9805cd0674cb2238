--------------------------- MODULE FallingBlocks ---------------------------
(***************************************************************************)
(* The rules of the game: what a frame may do to pieces, the pile and its  *)
(* rows, whatever the player presses and in whichever order the systems of *)
(* the frame run.  Keys, the timer, turns, levels and the score are not    *)
(* part of it.                                                             *)
(***************************************************************************)
EXTENDS Integers, FiniteSets

CONSTANTS Width, Height,  \* of the playable area
          Pieces          \* the pieces, each where it appears

VARIABLES phase,
          piece,    \* the cells of the moving piece
          pile,     \* how many pieces landed in each cell
          waiting   \* the full rows that are still to be taken away

vars == <<phase, piece, pile, waiting>>

Cells == [x : 0 .. Width - 1, y : 0 .. Height - 1]

Occupied(heap) == {p \in Cells : heap[p] > 0}

Full(heap) ==
  {y \in 0 .. Height - 1 :
     Cardinality(UNION {{p} \X (1..heap[p]) : p \in {p \in Cells : p.y = y}}) = Width}

(* On the floor or on the pile.                                            *)
Rests(points, heap) ==
  \E p \in points : p.y = Height - 1 \/ [p EXCEPT !.y = @ + 1] \in Occupied(heap)

(* A row is taken away: what lies above it comes down by one.              *)
Without(heap, y) ==
  [p \in Cells |-> IF p.y > y THEN heap[p]
                   ELSE IF p.y = 0 THEN 0 ELSE heap[[p EXCEPT !.y = @ - 1]]]

top == CHOOSE y \in waiting : \A z \in waiting : y <= z

(* Before anything moves, the highest row that waits goes.                 *)
left == IF waiting = {} THEN {} ELSE waiting \ {top}
rest == IF waiting = {} THEN pile ELSE Without(pile, top)
-----------------------------------------------------------------------------
Init == /\ phase = "Intro" /\ piece = {} /\ waiting = {}
        /\ pile = [p \in Cells |-> 0]

(* The piece is somewhere in the area, in one piece, and not in the pile   *)
(* unless it was there before.                                             *)
Move(old) ==
  /\ piece' # {} /\ piece' \subseteq Cells /\ Cardinality(piece') = Cardinality(old)
  /\ old \cap Occupied(rest) = {} => piece' \cap Occupied(rest) = {}
  /\ pile' = rest /\ waiting' = left

(* It lands where something supports it; the rows that it fills wait, and  *)
(* no row that is not full does.                                           *)
Land(old) ==
  LET landed == {p \in Cells : pile'[p] = rest[p] + 1}
  IN  /\ piece' = {} /\ Cardinality(landed) = Cardinality(old)
      /\ \A p \in Cells \ landed : pile'[p] = rest[p]
      /\ Rests(landed, rest)
      /\ old \cap Occupied(rest) = {} => landed \cap Occupied(rest) = {}
      /\ Full(pile') \ Full(rest) \subseteq waiting' /\ waiting' \subseteq Full(pile')

(* A frame: a piece appears once there is none, which ends the game when   *)
(* the pile leaves it no room, a row goes, and the piece moves or lands.   *)
Play ==
  /\ phase # "GameOver"
  /\ \E old \in IF piece = {} THEN Pieces ELSE {piece} :
       /\ phase' = IF piece = {} /\ old \cap Occupied(pile) # {}
                   THEN "GameOver" ELSE "Playing"
       /\ Move(old) \/ Land(old)

Again ==
  /\ phase = "GameOver" /\ phase' = "Intro" /\ piece' = {} /\ waiting' = {}
  /\ pile' = [p \in Cells |-> 0]

Next == Play \/ Again

Spec == Init /\ [][Next]_vars
=============================================================================
