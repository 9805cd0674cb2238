------------------------------ MODULE Terminal ------------------------------
(***************************************************************************)
(* The terminal, as the effects of the host change it: what it shows, the  *)
(* cursor, the colours it writes with, and its modes.  Each operator is    *)
(* one function roc_fx_... of crates/roc_host/src/lib.rs; what a terminal  *)
(* does with the bytes that they write is external to the program.         *)
(***************************************************************************)
EXTENDS Integers

CONSTANTS TermWidth, TermHeight,  \* the size of the terminal in cells
          Graphemes, Colors,      \* what a cell shows
          Space,                  \* the grapheme of an empty cell
          Default                 \* the colours of a terminal when they are reset

ASSUME TermAssumption ==
  /\ TermWidth \in Nat \ {0} /\ TermHeight \in Nat \ {0}
  /\ Space \in Graphemes /\ Default \in Colors

Cell == [grapheme : Graphemes, foreColor : Colors, backColor : Colors]

Positions == (0 .. TermWidth - 1) \X (0 .. TermHeight - 1)

(* Behind the last column the cursor waits at TermWidth.                   *)
Terminals ==
  [cells : [Positions -> Cell], x : 0 .. TermWidth, y : 0 .. TermHeight - 1,
   foreColor : Colors, backColor : Colors, raw : BOOLEAN, cursorVisible : BOOLEAN]

(* The cell that a terminal t writes for a grapheme.                       *)
written(t, grapheme) ==
  [grapheme |-> grapheme, foreColor |-> t.foreColor, backColor |-> t.backColor]

clear(t) == [t EXCEPT !.cells = [p \in Positions |-> written(t, Space)]]

setRawMode(t, raw) == [t EXCEPT !.raw = raw]

setCursorVisible(t, visible) == [t EXCEPT !.cursorVisible = visible]

setForecolor(t, color) == [t EXCEPT !.foreColor = color]

setBackcolor(t, color) == [t EXCEPT !.backColor = color]

resetForecolor(t) == setForecolor(t, Default)

resetBackcolor(t) == setBackcolor(t, Default)

setColors(t, foreColor, backColor) ==
  setBackcolor(setForecolor(t, foreColor), backColor)

(* A terminal stops the cursor at its last column and row.                 *)
goto(t, x, y) ==
  [t EXCEPT !.x = IF x < TermWidth THEN x ELSE TermWidth - 1,
            !.y = IF y < TermHeight THEN y ELSE TermHeight - 1]

(* One row down; in the last row everything scrolls up instead.            *)
lineFeed(t) ==
  IF t.y < TermHeight - 1 THEN [t EXCEPT !.y = @ + 1]
  ELSE [t EXCEPT !.cells = [p \in Positions |->
                              IF p[2] < TermHeight - 1 THEN t.cells[<<p[1], p[2] + 1>>]
                              ELSE written(t, Space)]]

(* Behind the last column a grapheme goes to the next row.                 *)
put(t, grapheme) ==
  LET at == IF t.x < TermWidth THEN t ELSE [lineFeed(t) EXCEPT !.x = 0]
  IN  [at EXCEPT !.cells[<<at.x, at.y>>] = written(at, grapheme), !.x = @ + 1]

(* The end of a line; in raw mode the cursor keeps its column.             *)
line(t) == IF t.raw THEN lineFeed(t) ELSE [lineFeed(t) EXCEPT !.x = 0]
=============================================================================
