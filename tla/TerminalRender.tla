--------------------------- MODULE TerminalRender ---------------------------
(***************************************************************************)
(* The renderer of game/TerminalRender.roc.  It writes a view, or only the *)
(* cells in which it differs from the view before, and saves commands by   *)
(* tracking where the cursor is and which colours are set.                 *)
(*                                                                         *)
(* The code walks the cells, collects the commands of each in one list and *)
(* then runs the list; a step of the specification runs the commands of    *)
(* one cell.  A write that fails ends the list, and with it the program.   *)
(***************************************************************************)
EXTENDS Terminal

CONSTANTS Views,  \* what the game may draw
          Black   \* the colour that a rendering starts with

(* The cells of a view are one list, row by row, counted from 0.           *)
Indices(v) == 0 .. v.width * v.height - 1

(* The terminal has room for every view, and for the line feed that ends a *)
(* rendering below the last row.                                           *)
ASSUME ViewsAssumption ==
  \A v \in Views :
    /\ v.width \in Nat \ {0} /\ v.height \in Nat \ {0}
    /\ v.width <= TermWidth /\ v.height + 2 <= TermHeight
    /\ TermWidth <= 65535 /\ TermHeight <= 65535
    /\ v.cells \in [Indices(v) -> Cell]
    /\ v = [width |-> v.width, height |-> v.height, cells |-> v.cells]

ASSUME BlackAssumption == Black \in Colors

(* The second cell of the first row never is the first one that changes:   *)
(* draw leaves the first row blank.                                        *)
ASSUME FirstChangeAssumption ==
  \A v, w \in Views :
    v.width = w.width /\ v.width > 1 /\ v.cells[1] # w.cells[1] => v.cells[0] # w.cells[0]

VARIABLES term,     \* the terminal
          oldView,  \* the view rendered before
          view,     \* the view being rendered, or rendered last
          idx,      \* the next cell
          state,    \* where the renderer takes the cursor and the colours to be
          mode      \* "render", "renderDelta", "done" or "failed"

vars == <<term, oldView, view, idx, state, mode>>

NoView == [width |-> 0, height |-> 0, cells |-> <<>>]

(* The terminal as GameLoop.run hands it over, cleared, raw and without a  *)
(* cursor, after the commands that begin the rendering.                    *)
newTerminal ==
  [cells |-> [p \in Positions |->
                [grapheme |-> Space, foreColor |-> Default, backColor |-> Default]],
   x |-> 0, y |-> 0, foreColor |-> Black, backColor |-> Black,
   raw |-> TRUE, cursorVisible |-> FALSE]

newState == [x |-> 0, y |-> 0, foreColor |-> Black, backColor |-> Black]

toU16(n) == IF n <= 65535 THEN n ELSE 0
-----------------------------------------------------------------------------
(* Rendering v after old, on terminal t: a view of another size is drawn   *)
(* in full.                                                                *)
Begin(old, v, t) ==
  /\ oldView' = old /\ view' = v /\ idx' = 0
  /\ term' = setColors(goto(t, 0, 0), Black, Black)
  /\ state' = newState
  /\ mode' = IF old.width # v.width \/ old.height # v.height
             THEN "render" ELSE "renderDelta"

(* The colours of a cell are set only where they change.                   *)
colored(t, cell) ==
  LET fore == IF cell.foreColor # state.foreColor THEN setForecolor(t, cell.foreColor) ELSE t
  IN  IF cell.backColor # state.backColor THEN setBackcolor(fore, cell.backColor) ELSE fore

(* Variant: the row is not compared.                                       *)
moved_ColumnOnly(t, x, y) ==
  IF x # state.x + 1 THEN goto(t, toU16(x), toU16(y)) ELSE t

(* The cursor is moved only where the cell does not follow the last one.   *)
moved(t, x, y) ==
  IF y # state.y \/ x # state.x + 1 THEN goto(t, toU16(x), toU16(y)) ELSE t

(* Variant: a row ends one cell late.                                      *)
endOfLine_Late == state.x >= view.width

endOfLine == state.x + 1 >= view.width

(* A whole view: every cell is written, and a row ends with a goto.        *)
addNextViewCommands ==
  LET cell == view.cells[idx]
      x    == IF endOfLine THEN 0 ELSE state.x + 1
      y    == IF endOfLine THEN state.y + 1 ELSE state.y
      shown == put(colored(term, cell), cell.grapheme)
  IN  /\ mode = "render" /\ idx \in Indices(view)
      /\ term' = IF endOfLine THEN goto(shown, toU16(x), toU16(y)) ELSE shown
      /\ state' = [x |-> x, y |-> y,
                   foreColor |-> cell.foreColor, backColor |-> cell.backColor]
      /\ idx' = idx + 1 /\ UNCHANGED <<oldView, view, mode>>

(* Variants: the colours follow the grapheme; they are not remembered.     *)
changeCell_ColorsLate(cell, x, y) ==
  /\ term' = colored(put(moved(term, x, y), cell.grapheme), cell)
  /\ state' = [x |-> x, y |-> y, foreColor |-> cell.foreColor, backColor |-> cell.backColor]

changeCell_ColorsForgotten(cell, x, y) ==
  /\ term' = put(colored(moved(term, x, y), cell), cell.grapheme)
  /\ state' = [state EXCEPT !.x = x, !.y = y]

changeCell(cell, x, y) ==
  /\ term' = put(colored(moved(term, x, y), cell), cell.grapheme)
  /\ state' = [x |-> x, y |-> y, foreColor |-> cell.foreColor, backColor |-> cell.backColor]

(* The difference: a cell that is the same in both views is passed over.   *)
renderDeltaLoop ==
  LET cell == view.cells[idx]
      y    == idx \div view.width
  IN  /\ mode = "renderDelta" /\ idx \in Indices(view)
      /\ IF cell = oldView.cells[idx] THEN UNCHANGED <<term, state>>
         ELSE changeCell(cell, idx - y * view.width, y)
      /\ idx' = idx + 1 /\ UNCHANGED <<oldView, view, mode>>

(* Stdout.line ends the rendering; the loop keeps only the view.           *)
Finish ==
  /\ mode \in {"render", "renderDelta"} /\ idx \notin Indices(view)
  /\ term' = line(term) /\ mode' = "done" /\ oldView' = view
  /\ idx' = 0 /\ state' = newState /\ view' = view

(* A write to the standard output fails.                                   *)
Fail ==
  /\ mode \in {"render", "renderDelta"}
  /\ mode' = "failed" /\ UNCHANGED <<term, oldView, view, idx, state>>

(* The loop hands over the next view.                                      *)
renderDelta == mode = "done" /\ \E v \in Views : Begin(view, v, term)
-----------------------------------------------------------------------------
(* The first view is drawn in full: there is none before it.               *)
Init ==
  /\ view \in Views /\ oldView = NoView /\ idx = 0 /\ mode = "render"
  /\ term = newTerminal
  /\ state = newState

Next == addNextViewCommands \/ renderDeltaLoop \/ Finish \/ Fail \/ renderDelta

Spec == Init /\ [][Next]_vars
-----------------------------------------------------------------------------
(* Properties.                                                             *)

(* What the renderer takes the cursor and the colours to be.               *)
States == [x : Nat, y : Nat, foreColor : Colors, backColor : Colors]

(* A well formed terminal, and a renderer at a cell of its view or past    *)
(* the last one, before the first rendering without a view.                *)
RenderTypeOK ==
  /\ term \in Terminals
  /\ view \in Views \cup {NoView} /\ oldView \in Views \cup {NoView}
  /\ idx \in 0 .. view.width * view.height /\ state \in States
  /\ mode \in {"render", "renderDelta", "done", "failed"}

position(v, i) == <<i - (i \div v.width) * v.width, i \div v.width>>

Area(v) == {position(v, i) : i \in Indices(v)}

(* Once a rendering is done every cell of the view is on the screen, with  *)
(* its grapheme and its colours: where the renderer takes the cursor and   *)
(* the colours to be is where they are, whatever cells it passed over.     *)
ScreenShowsView ==
  mode = "done" => \A i \in Indices(view) : term.cells[position(view, i)] = view.cells[i]

(* While the difference is drawn, and after a write failed too, each cell  *)
(* shows the old view or the new one: nothing flickers.                    *)
NoFlicker ==
  /\ mode \in {"renderDelta", "failed"}
  /\ oldView.width = view.width /\ oldView.height = view.height
  => \A i \in Indices(view) :
       term.cells[position(view, i)] \in {oldView.cells[i], view.cells[i]}

(* Rendering touches no cell outside of the view, and never scrolls.       *)
OnlyViewTouched ==
  [][\A p \in Positions \ Area(view) : term'.cells[p] = term.cells[p]]_vars

(* What the screen shows of view v.                                        *)
screenOf(v) ==
  [v EXCEPT !.cells = [i \in Indices(v) |-> term.cells[position(v, i)]]]

Screen == INSTANCE Screen
  WITH shown <- IF mode = "done" THEN screenOf(view) ELSE oldView

(* The renderer implements the screen: each view handed over is shown,     *)
(* whole, before the next.                                                 *)
ShowsEveryView == Screen!Spec
=============================================================================
