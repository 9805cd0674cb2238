-------------------------------- MODULE View --------------------------------
(***************************************************************************)
(* The grid of game/View.roc.  Its cells are one list, row by row, counted *)
(* from 0; whatever is drawn beyond the end of a row goes on in the next   *)
(* row.  A string is the sequence of its graphemes.  Positions are natural *)
(* numbers: the game draws nothing left of or above the grid.              *)
(***************************************************************************)
EXTENDS Integers, Sequences, FiniteSetsExt

init(width, height, grapheme, foreColor, backColor) ==
  [width |-> width, height |-> height,
   cells |-> [i \in 0 .. width * height - 1 |->
                [grapheme |-> grapheme, foreColor |-> foreColor, backColor |-> backColor]]]

(* Variant: rows and columns are exchanged.                                *)
positionToIndex_Transposed(view, x, y) ==
  LET idx == x * view.height + y
  IN  IF idx < view.width * view.height THEN idx ELSE 0

(* A position outside of the grid is the first cell.                       *)
positionToIndex(view, x, y) ==
  LET idx == y * view.width + x
  IN  IF idx < view.width * view.height THEN idx ELSE 0

(* The end of a string that does not fit is left out.                      *)
string(view, x, y, graphemes, foreColor, backColor) ==
  LET idx == positionToIndex(view, x, y)
  IN  [view EXCEPT !.cells =
         [i \in DOMAIN @ |->
            IF i - idx \in 0 .. Len(graphemes) - 1
            THEN [grapheme |-> graphemes[i - idx + 1],
                  foreColor |-> foreColor, backColor |-> backColor]
            ELSE @[i]]]

(* A row of a rectangle is the string over and over again, each copy at    *)
(* its own position and the last one cut off: the copies that lie outside  *)
(* of the grid are all drawn at its first cell.                            *)
(* Variant: they are left out.                                             *)
rectColumns_Clipped(view, x, y, w, graphemes, foreColor, backColor) ==
  LET repeated == [j \in 1 .. w |-> graphemes[((j - 1) % Len(graphemes)) + 1]]
  IN  IF y * view.width + x < view.width * view.height
      THEN string(view, x, y, repeated, foreColor, backColor) ELSE view

rectColumns(view, x, y, w, graphemes, foreColor, backColor) ==
  LET size     == Len(graphemes)
      idx      == y * view.width + x
      repeated == [j \in 1 .. w |-> graphemes[((j - 1) % size) + 1]]
      outside  == {count \in 0 .. w - 1 : /\ count % size = 0
                                          /\ idx + count >= view.width * view.height}
      spilled  == Max({0} \cup {Min({size, w - count}) : count \in outside})
      inside   == IF idx < view.width * view.height
                  THEN string(view, x, y, repeated, foreColor, backColor) ELSE view
  IN  string(inside, 0, 0, SubSeq(graphemes, 1, spilled), foreColor, backColor)

rect(view, r, graphemes, foreColor, backColor) ==
  LET rows[h \in 0 .. r.h] ==
        IF h = 0 THEN view
        ELSE rectColumns(rows[h - 1], r.x, r.y + h - 1, r.w, graphemes, foreColor, backColor)
  IN  rows[r.h]

points(view, graphemes, foreColor, backColor, vectors) ==
  FoldSet(LAMBDA p, v : string(v, p.x, p.y, graphemes, foreColor, backColor), view, vectors)
-----------------------------------------------------------------------------
(* The cell that a reader of the view sees at a position.                  *)
cellAt(view, x, y) == view.cells[y * view.width + x]
=============================================================================
