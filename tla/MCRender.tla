------------------------------ MODULE MCRender ------------------------------
(***************************************************************************)
(* A small instance of the renderer for TLC: views of three by two cells,  *)
(* and one of two by one, with three kinds of cells that differ in the     *)
(* grapheme, in one colour and in both.                                    *)
(***************************************************************************)
EXTENDS TerminalRender

blank == [grapheme |-> " ", foreColor |-> "black", backColor |-> "black"]
text  == [grapheme |-> "a", foreColor |-> "white", backColor |-> "black"]
point == [grapheme |-> " ", foreColor |-> "black", backColor |-> "red"]

gridView(width, height, cells) == [width |-> width, height |-> height, cells |-> cells]

(* The second cell stays blank: see FirstChangeAssumption.                 *)
SmallViews ==
  {gridView(3, 2, c) : c \in {c \in [0..5 -> {blank, text, point}] :
                                c[0] # point /\ c[1] = blank /\ c[2] = blank}}
    \cup {gridView(2, 1, [i \in 0..1 |-> blank])}
=============================================================================
