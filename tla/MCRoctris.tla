----------------------------- MODULE MCRoctris -----------------------------
(***************************************************************************)
(* Small instances of the game for TLC.                                    *)
(***************************************************************************)
EXTENDS Roctris

CONSTANTS MaxLevel, MaxRowsCleared  \* bounds of the exploration

Domino == {vec2(0, 0), vec2(1, 0)}
Corner == {vec2(0, 0), vec2(0, 1), vec2(1, 1)}

Stick == {vec2(x, 0) : x \in 0..3}
Tee == {vec2(1, 0), vec2(0, 1), vec2(1, 1), vec2(2, 1)}
LeftL == {vec2(0, 0), vec2(0, 1), vec2(1, 1), vec2(2, 1)}
Square == {vec2(0, 0), vec2(0, 1), vec2(1, 0), vec2(1, 1)}
TetrominoPool == {Stick, LeftL, Square}

SmallPool  == {Domino, Corner}
CornerPool == {Corner}

AllKeys == {"none", "right", "left", "down", "up", "ctrlUp", "spacebar", "r"}
PlayKeys == AllKeys \ {"ctrlUp"}

Bounded == model.level <= MaxLevel /\ model.rowsCleared <= MaxRowsCleared

(* The score is never read, and the input is always written by a Key       *)
(* before the Tick that reads it: two states that differ only in these     *)
(* have the same future.                                                   *)
PlayView == [f \in DOMAIN model \ {"input", "score"} |-> model[f]]

(* With MaxRate = 1 the level does not change the rate of the timer, and   *)
(* neither the level nor the rows cleared are read by anything else than   *)
(* the next level and the score: the view covers games of any length.      *)
EndlessView ==
  [f \in DOMAIN model \ {"input", "score", "rowsCleared", "level"} |-> model[f]]
=============================================================================
