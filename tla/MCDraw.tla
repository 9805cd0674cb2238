------------------------------- MODULE MCDraw -------------------------------
(***************************************************************************)
(* Games at the size of the program, seen by draw.  The one template is    *)
(* large, so that a game is over after a few blocks; it has room to touch  *)
(* either side.  Some games start when the debris has just gone, with      *)
(* numbers of several lengths.                                             *)
(***************************************************************************)
EXTENDS Draw

Angle == {vec2(0, y) : y \in 0 .. 8} \cup {vec2(x, 8) : x \in 1 .. 7}
Angles == {Angle}

playing(score, rowsCleared, level) ==
  [newGame EXCEPT !.state = "Playing", !.score = score,
                  !.rowsCleared = rowsCleared, !.level = level]

DrawInit == model \in {newGame, playing(1204, 10, 2), playing(800990, 509, 10)}

DrawSpec == DrawInit /\ [][Next]_vars

(* One score for each of the other parts of a state, which do not depend   *)
(* on it; the rows cleared tell the games apart.                           *)
BoardView == [f \in DOMAIN model \ {"input", "score"} |-> model[f]]
=============================================================================
