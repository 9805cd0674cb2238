----------------------------- MODULE MCGameLoop -----------------------------
(***************************************************************************)
(* A small game for the loop: a light that a key switches and that every   *)
(* tick moves from one cell of the second row to the other.                *)
(***************************************************************************)
EXTENDS GameLoop

SmallModels == [at : {2, 3}, lit : BOOLEAN]
SmallModel  == [at |-> 2, lit |-> FALSE]

SmallUpdate(m, msg) ==
  IF msg.type = "Tick" THEN [m EXCEPT !.at = 5 - @]
  ELSE IF msg.key = "right" THEN [m EXCEPT !.lit = ~@]
  ELSE m

SmallDraw(m) ==
  [width |-> 2, height |-> 2,
   cells |-> [i \in 0..3 |->
                IF i # m.at THEN [grapheme |-> " ", foreColor |-> "black", backColor |-> "black"]
                ELSE [grapheme |-> "a", foreColor |-> "black",
                      backColor |-> IF m.lit THEN "red" ELSE "black"]]]

SmallViews == {SmallDraw(m) : m \in SmallModels}
=============================================================================
