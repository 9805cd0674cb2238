--------------------------- MODULE GameLoopProofs ---------------------------
(***************************************************************************)
(* Proofs about the loop: the terminal is restored however the program     *)
(* ends, and what the loop leaves on the screen is the game as it is.  The *)
(* second rests on the invariant of the renderer, which holds from the     *)
(* first rendering until the player quits.                                 *)
(***************************************************************************)
EXTENDS GameLoop, SequenceTheorems, WellFoundedInduction, TLAPS

SameSize == oldView.width = view.width /\ oldView.height = view.height

Typed ==
  /\ term \in Terminals /\ view \in Views /\ oldView \in Views \cup {NoView}
  /\ idx \in 0 .. view.width * view.height /\ state \in States
  /\ mode \in {"render", "renderDelta", "done", "failed"}

ColorsTracked == term.foreColor = state.foreColor /\ term.backColor = state.backColor

(* A view drawn in full: the cursor is where the next cell belongs.        *)
RenderInv ==
  mode = "render" =>
    /\ ~SameSize /\ ColorsTracked
    /\ state.x \in 0 .. view.width - 1 /\ state.y \in 0 .. view.height
    /\ idx = state.y * view.width + state.x
    /\ term.x = state.x /\ term.y = state.y
    /\ \A i \in 0 .. idx - 1 : term.cells[position(view, i)] = view.cells[i]

(* Nothing was drawn yet, or the cursor is behind the cell drawn last.     *)
CursorFresh ==
  /\ state.x = 0 /\ state.y = 0 /\ term.x = 0 /\ term.y = 0
  /\ \A j \in 0 .. idx - 1 : view.cells[j] = oldView.cells[j]

CursorBehind ==
  /\ state.x \in 0 .. view.width - 1 /\ state.y \in 0 .. view.height - 1
  /\ term.x = state.x + 1 /\ term.y = state.y

DeltaInv ==
  mode = "renderDelta" =>
    /\ SameSize /\ oldView \in Views /\ ColorsTracked
    /\ CursorFresh \/ CursorBehind
    /\ \A i \in Indices(view) :
         term.cells[position(view, i)] = IF i < idx THEN view.cells[i] ELSE oldView.cells[i]

FailedInv ==
  mode = "failed" /\ SameSize =>
    \A i \in Indices(view) :
      term.cells[position(view, i)] \in {oldView.cells[i], view.cells[i]}

RInv == Typed /\ RenderInv /\ DeltaInv /\ FailedInv /\ ScreenShowsView
-----------------------------------------------------------------------------
(* The place of a cell.                                                    *)

LEMMA MulMonotone ==
  ASSUME NEW a \in Int, NEW b \in Int, NEW w \in Nat, a <= b
  PROVE  a * w <= b * w
  BY SMT

LEMMA Division ==
  ASSUME NEW i \in Nat, NEW w \in Nat \ {0}
  PROVE  /\ i \div w \in Nat
         /\ i - (i \div w) * w \in 0 .. w - 1
  BY SMT

LEMMA DivisionUnique ==
  ASSUME NEW w \in Nat \ {0}, NEW x \in 0 .. w - 1, NEW y \in Nat, NEW i \in Nat,
         i = y * w + x
  PROVE  i \div w = y
<1> DEFINE q == i \div w
<1>1. q \in Nat /\ i - q * w \in 0 .. w - 1
  BY Division
<1> HIDE DEF q
<1>2. CASE q < y
  <2>1. (q + 1) * w <= y * w
    BY <1>1, <1>2, MulMonotone
  <2>2. (q + 1) * w = q * w + w
    BY <1>1
  <2>3. q * w \in Int /\ y * w \in Int
    BY <1>1
  <2> QED
    BY <1>1, <2>1, <2>2, <2>3
<1>3. CASE y < q
  <2>1. (y + 1) * w <= q * w
    BY <1>1, <1>3, MulMonotone
  <2>2. (y + 1) * w = y * w + w
    OBVIOUS
  <2>3. q * w \in Int /\ y * w \in Int
    BY <1>1
  <2> QED
    BY <1>1, <2>1, <2>2, <2>3
<1>4. q = y
  BY <1>1, <1>2, <1>3
<1> QED
  BY <1>4 DEF q

LEMMA PositionInside ==
  ASSUME NEW v \in Views, NEW i \in Indices(v)
  PROVE  /\ i \in Nat /\ i \div v.width \in 0 .. v.height - 1
         /\ i - (i \div v.width) * v.width \in 0 .. v.width - 1
         /\ position(v, i) \in Positions
<1> DEFINE q == i \div v.width
<1>1. /\ v.width \in Nat \ {0} /\ v.height \in Nat \ {0}
      /\ v.width <= TermWidth /\ v.height + 2 <= TermHeight
  BY ViewsAssumption
<1>2. v.width * v.height \in Nat
  BY <1>1
<1>3. i \in Nat /\ i < v.height * v.width
  BY <1>1, <1>2 DEF Indices
<1>4. q \in Nat /\ i - q * v.width \in 0 .. v.width - 1
  BY <1>1, <1>3, Division
<1> HIDE DEF q
<1>5. q < v.height
  <2>1. SUFFICES ASSUME v.height <= q PROVE FALSE
    BY <1>1, <1>4
  <2>2. v.height * v.width <= q * v.width
    BY <1>1, <1>4, <2>1, MulMonotone
  <2>3. q * v.width \in Int /\ v.height * v.width \in Int
    BY <1>1, <1>4
  <2> QED
    BY <1>1, <1>3, <1>4, <2>2, <2>3
<1>6. <<i - q * v.width, q>> \in Positions
  <2>1. i - q * v.width \in 0 .. TermWidth - 1 /\ q \in 0 .. TermHeight - 1
    BY <1>1, <1>4, <1>5, TermAssumption
  <2> QED
    BY <2>1, Zenon DEF Positions
<1> QED
  BY <1>1, <1>3, <1>4, <1>5, <1>6 DEF position, q

LEMMA PositionInjective ==
  ASSUME NEW v \in Views, NEW i \in Indices(v), NEW j \in Indices(v),
         position(v, i) = position(v, j)
  PROVE  i = j
<1>1. i \in Nat /\ j \in Nat /\ v.width \in Nat
  BY PositionInside, ViewsAssumption
<1>2. /\ i \div v.width = j \div v.width
      /\ i - (i \div v.width) * v.width = j - (j \div v.width) * v.width
  BY DEF position
<1>3. (i \div v.width) * v.width \in Int
  BY <1>1, PositionInside
<1> QED
  BY <1>1, <1>2, <1>3

(* Any list of cells lies at distinct positions: writing one leaves the    *)
(* others as they are.                                                     *)
LEMMA OneCellWritten ==
  ASSUME NEW v \in Views, NEW i \in Indices(v), NEW cells \in [Positions -> Cell],
         NEW cell \in Cell
  PROVE  /\ [cells EXCEPT ![position(v, i)] = cell] \in [Positions -> Cell]
         /\ [cells EXCEPT ![position(v, i)] = cell][position(v, i)] = cell
         /\ \A j \in Indices(v) \ {i} :
              [cells EXCEPT ![position(v, i)] = cell][position(v, j)] = cells[position(v, j)]
         /\ \A p \in Positions \ Area(v) :
              [cells EXCEPT ![position(v, i)] = cell][p] = cells[p]
<1>1. position(v, i) \in Positions
  BY PositionInside
<1>2. \A j \in Indices(v) \ {i} : position(v, j) \in Positions /\ position(v, j) # position(v, i)
  BY PositionInside, PositionInjective
<1>3. \A p \in Positions \ Area(v) : p # position(v, i)
  BY DEF Area
<1> HIDE DEF position
<1> QED
  BY <1>1, <1>2, <1>3
-----------------------------------------------------------------------------
(* What the commands do to the terminal.                                   *)

(* Two terminals that differ in the cursor and the colours only.           *)
SameScreen(t, u) == u.cells = t.cells

LEMMA PutInside ==
  ASSUME NEW t \in Terminals, NEW g \in Graphemes, t.x < TermWidth
  PROVE  /\ put(t, g) \in Terminals /\ <<t.x, t.y>> \in Positions
         /\ put(t, g).cells = [t.cells EXCEPT ![<<t.x, t.y>>] = written(t, g)]
         /\ put(t, g).x = t.x + 1 /\ put(t, g).y = t.y
         /\ put(t, g).foreColor = t.foreColor /\ put(t, g).backColor = t.backColor
<1>1. /\ t.x \in 0 .. TermWidth - 1 /\ t.y \in 0 .. TermHeight - 1
      /\ t.x + 1 \in 0 .. TermWidth
  BY TermAssumption DEF Terminals
<1>2. <<t.x, t.y>> \in Positions
  BY <1>1, Zenon DEF Positions
<1>3. written(t, g) \in Cell
  BY DEF written, Terminals, Cell
<1> DEFINE c == [t.cells EXCEPT ![<<t.x, t.y>>] = written(t, g)]
<1>4. c \in [Positions -> Cell]
  BY <1>2, <1>3 DEF Terminals
<1>5. put(t, g) = [t EXCEPT !.cells = c, !.x = t.x + 1]
  BY DEF put, Terminals
<1> HIDE DEF c
<1>6. put(t, g) \in Terminals /\ put(t, g).cells = c /\ put(t, g).x = t.x + 1
      /\ put(t, g).y = t.y /\ put(t, g).foreColor = t.foreColor
      /\ put(t, g).backColor = t.backColor
  BY <1>1, <1>4, <1>5 DEF Terminals
<1> QED
  BY <1>2, <1>6 DEF c

LEMMA GotoInside ==
  ASSUME NEW t \in Terminals, NEW x \in 0 .. TermWidth - 1, NEW y \in 0 .. TermHeight - 1
  PROVE  /\ goto(t, x, y) \in Terminals /\ SameScreen(t, goto(t, x, y))
         /\ goto(t, x, y).x = x /\ goto(t, x, y).y = y
         /\ goto(t, x, y).foreColor = t.foreColor /\ goto(t, x, y).backColor = t.backColor
<1>1. x < TermWidth /\ y < TermHeight /\ x \in 0 .. TermWidth
  BY TermAssumption
<1>2. goto(t, x, y) = [t EXCEPT !.x = x, !.y = y]
  BY <1>1 DEF goto
<1> QED
  BY <1>1, <1>2 DEF Terminals, SameScreen

LEMMA ColorsSet ==
  ASSUME NEW t \in Terminals, NEW cell \in Cell, state \in States,
         t.foreColor = state.foreColor, t.backColor = state.backColor
  PROVE  /\ colored(t, cell) \in Terminals /\ SameScreen(t, colored(t, cell))
         /\ colored(t, cell).x = t.x /\ colored(t, cell).y = t.y
         /\ colored(t, cell).foreColor = cell.foreColor
         /\ colored(t, cell).backColor = cell.backColor
  BY DEF colored, setForecolor, setBackcolor, Terminals, Cell, States, SameScreen

LEMMA LineInside ==
  ASSUME NEW t \in Terminals, t.y < TermHeight - 1
  PROVE  line(t) \in Terminals /\ SameScreen(t, line(t))
<1>1. t.y + 1 \in 0 .. TermHeight - 1 /\ 0 \in 0 .. TermWidth
  BY TermAssumption DEF Terminals
<1>2. lineFeed(t) = [t EXCEPT !.y = t.y + 1]
  BY DEF lineFeed, Terminals
<1>3. lineFeed(t) \in Terminals /\ SameScreen(t, lineFeed(t))
  BY <1>1, <1>2 DEF Terminals, SameScreen
<1> QED
  BY <1>1, <1>3 DEF line, Terminals, SameScreen

(* The cursor reaches the place of a cell, and the cell is written there.  *)
LEMMA CellWritten ==
  ASSUME NEW t \in Terminals, NEW v \in Views, NEW i \in Indices(v),
         <<t.x, t.y>> = position(v, i), state \in States,
         t.foreColor = state.foreColor, t.backColor = state.backColor
  PROVE  LET cell == v.cells[i]
             u == put(colored(t, cell), cell.grapheme)
         IN  /\ u \in Terminals /\ u.x = t.x + 1 /\ u.y = t.y
             /\ u.foreColor = cell.foreColor /\ u.backColor = cell.backColor
             /\ u.cells[position(v, i)] = cell
             /\ \A j \in Indices(v) \ {i} : u.cells[position(v, j)] = t.cells[position(v, j)]
             /\ \A p \in Positions \ Area(v) : u.cells[p] = t.cells[p]
<1> DEFINE cell == v.cells[i]
           c == colored(t, cell)
           u == put(c, cell.grapheme)
<1>1. cell \in Cell /\ cell.grapheme \in Graphemes
  BY ViewsAssumption DEF Cell
<1>2. /\ c \in Terminals /\ c.cells = t.cells /\ c.x = t.x /\ c.y = t.y
      /\ c.foreColor = cell.foreColor /\ c.backColor = cell.backColor
  BY <1>1, ColorsSet DEF SameScreen
<1>3. c.x < TermWidth
  <2>1. <<t.x, t.y>> \in Positions
    BY PositionInside
  <2>2. t.x \in 0 .. TermWidth - 1
    BY <2>1 DEF Positions
  <2> QED
    BY <1>2, <2>2, TermAssumption
<1>4. written(c, cell.grapheme) = cell
  BY <1>1, <1>2 DEF written, Cell
<1> HIDE DEF c, cell
<1>5. /\ u \in Terminals /\ u.cells = [c.cells EXCEPT ![position(v, i)] = cell]
      /\ u.x = t.x + 1 /\ u.y = t.y
      /\ u.foreColor = cell.foreColor /\ u.backColor = cell.backColor
  BY <1>1, <1>2, <1>3, <1>4, PutInside
<1>6. c.cells \in [Positions -> Cell]
  BY <1>2 DEF Terminals
<1> HIDE DEF u
<1>7. /\ u.cells[position(v, i)] = cell
      /\ \A j \in Indices(v) \ {i} : u.cells[position(v, j)] = t.cells[position(v, j)]
      /\ \A p \in Positions \ Area(v) : u.cells[p] = t.cells[p]
  <2> DEFINE w == [c.cells EXCEPT ![position(v, i)] = cell]
  <2>1. /\ w[position(v, i)] = cell
        /\ \A j \in Indices(v) \ {i} : w[position(v, j)] = c.cells[position(v, j)]
        /\ \A p \in Positions \ Area(v) : w[p] = c.cells[p]
    BY <1>1, <1>6, OneCellWritten
  <2>2. u.cells = w /\ c.cells = t.cells
    BY <1>2, <1>5
  <2> HIDE DEF w
  <2> QED
    BY <2>1, <2>2
<1> QED
  BY <1>5, <1>7 DEF u, c, cell
-----------------------------------------------------------------------------
(* The invariant, action by action.                                        *)

LEMMA Room ==
  ASSUME NEW v \in Views
  PROVE  /\ v.width \in Nat \ {0} /\ v.height \in Nat \ {0}
         /\ v.width * v.height \in Nat
         /\ v.width <= TermWidth /\ v.height + 2 <= TermHeight
         /\ TermWidth \in Nat \ {0} /\ TermHeight \in Nat \ {0}
         /\ \A n \in Nat : n < TermWidth \/ n < TermHeight => toU16(n) = n
  BY ViewsAssumption, TermAssumption DEF toU16

LEMMA StateStarts == newState \in States /\ newState.x = 0 /\ newState.y = 0
                     /\ newState.foreColor = Black /\ newState.backColor = Black
  BY BlackAssumption DEF newState, States

LEMMA InitRInv ==
  ASSUME Init
  PROVE  RInv
<1>1. /\ view \in Views /\ oldView = NoView /\ idx = 0 /\ mode = "render"
      /\ term = newTerminal /\ state = newState
  BY DEF Init
<1>2. newTerminal \in Terminals
  <2>1. [grapheme |-> Space, foreColor |-> Default, backColor |-> Default] \in Cell
    BY TermAssumption DEF Cell
  <2> QED
    BY <2>1, TermAssumption, BlackAssumption DEF newTerminal, Terminals
<1>3. Typed
  BY <1>1, <1>2, Room, StateStarts DEF Typed
<1>4. RenderInv
  <2>1. ~SameSize
    BY <1>1, Room DEF SameSize, NoView
  <2>2. ColorsTracked /\ term.x = state.x /\ term.y = state.y
    BY <1>1, StateStarts DEF ColorsTracked, newTerminal
  <2>3. /\ state.x \in 0 .. view.width - 1 /\ state.y \in 0 .. view.height
        /\ idx = state.y * view.width + state.x
    BY <1>1, StateStarts, Room
  <2>4. \A i \in 0 .. idx - 1 : term.cells[position(view, i)] = view.cells[i]
    BY <1>1
  <2> QED
    BY <2>1, <2>2, <2>3, <2>4 DEF RenderInv
<1> QED
  BY <1>1, <1>3, <1>4 DEF RInv, DeltaInv, FailedInv, ScreenShowsView

LEMMA FullStep ==
  ASSUME RInv, addNextViewCommands
  PROVE  /\ RInv'
         /\ \A p \in Positions \ Area(view) : term'.cells[p] = term.cells[p]
<1> DEFINE cell  == view.cells[idx]
           x     == IF endOfLine THEN 0 ELSE state.x + 1
           y     == IF endOfLine THEN state.y + 1 ELSE state.y
           u     == put(colored(term, cell), cell.grapheme)
<1>1. /\ mode = "render" /\ idx \in Indices(view)
      /\ term' = IF endOfLine THEN goto(u, toU16(x), toU16(y)) ELSE u
      /\ state' = [x |-> x, y |-> y,
                   foreColor |-> cell.foreColor, backColor |-> cell.backColor]
      /\ idx' = idx + 1 /\ oldView' = oldView /\ view' = view /\ mode' = mode
  BY DEF addNextViewCommands
<1>2. /\ Typed /\ ~SameSize /\ ColorsTracked
      /\ state.x \in 0 .. view.width - 1 /\ state.y \in 0 .. view.height
      /\ idx = state.y * view.width + state.x
      /\ term.x = state.x /\ term.y = state.y
      /\ \A i \in 0 .. idx - 1 : term.cells[position(view, i)] = view.cells[i]
  BY <1>1 DEF RInv, RenderInv
<1>3. view \in Views /\ idx \in Nat /\ idx < view.width * view.height
  BY <1>1, <1>2, PositionInside, Room DEF Typed, Indices
<1>4. position(view, idx) = <<state.x, state.y>> /\ state.y \in 0 .. view.height - 1
  <2>1. idx \div view.width = state.y
    BY <1>2, <1>3, Room, DivisionUnique
  <2>2. idx - state.y * view.width = state.x
    <3>1. state.y * view.width \in Int
      BY <1>2, <1>3, Room
    <3> QED
      BY <1>2, <3>1
  <2>3. idx \div view.width \in 0 .. view.height - 1
    BY <1>1, <1>3, PositionInside
  <2> QED
    BY <2>1, <2>2, <2>3 DEF position
<1>5. /\ u \in Terminals /\ u.x = term.x + 1 /\ u.y = term.y
      /\ u.foreColor = cell.foreColor /\ u.backColor = cell.backColor
      /\ u.cells[position(view, idx)] = cell
      /\ \A j \in Indices(view) \ {idx} : u.cells[position(view, j)] = term.cells[position(view, j)]
      /\ \A p \in Positions \ Area(view) : u.cells[p] = term.cells[p]
  <2>1. /\ term \in Terminals /\ view \in Views /\ idx \in Indices(view)
        /\ <<term.x, term.y>> = position(view, idx) /\ state \in States
        /\ term.foreColor = state.foreColor /\ term.backColor = state.backColor
    BY <1>1, <1>2, <1>4 DEF Typed, ColorsTracked
  <2> QED
    BY <2>1, CellWritten, Zenon
<1> HIDE DEF u
<1>6. /\ x \in 0 .. view.width - 1 /\ y \in 0 .. view.height
      /\ idx + 1 = y * view.width + x
  <2>1. CASE endOfLine
    <3>1. x = 0 /\ y = state.y + 1 /\ state.x = view.width - 1
      BY <2>1, <1>2, <1>3, Room DEF endOfLine
    <3>2. (state.y + 1) * view.width = state.y * view.width + view.width
          /\ state.y * view.width \in Int
      BY <1>2, <1>3, Room
    <3> QED
      BY <1>2, <1>3, <1>4, <3>1, <3>2, Room
  <2>2. CASE ~endOfLine
    <3>1. x = state.x + 1 /\ y = state.y /\ x < view.width
      BY <2>2, <1>2, <1>3, Room DEF endOfLine
    <3>2. state.y * view.width \in Int
      BY <1>2, <1>3, Room
    <3> QED
      BY <1>2, <1>3, <1>4, <3>1, <3>2, Room
  <2> QED
    BY <2>1, <2>2
<1>7. /\ term' \in Terminals /\ term'.x = x /\ term'.y = y /\ term'.cells = u.cells
      /\ term'.foreColor = cell.foreColor /\ term'.backColor = cell.backColor
  <2>1. CASE endOfLine
    <3>1. toU16(x) = x /\ toU16(y) = y
          /\ x \in 0 .. TermWidth - 1 /\ y \in 0 .. TermHeight - 1
      BY <1>3, <1>6, Room
    <3> QED
      BY <1>1, <1>5, <2>1, <3>1, GotoInside DEF SameScreen
  <2>2. CASE ~endOfLine
    BY <1>1, <1>2, <1>5, <2>2
  <2> QED
    BY <2>1, <2>2
<1> HIDE DEF x, y
<1>8. cell.foreColor \in Colors /\ cell.backColor \in Colors
  BY <1>1, <1>3, ViewsAssumption DEF Cell
<1> HIDE DEF cell
<1>9. /\ state'.x = x /\ state'.y = y /\ state' \in States
      /\ state'.foreColor = cell.foreColor /\ state'.backColor = cell.backColor
  BY <1>1, <1>3, <1>6, <1>8, Room DEF States
<1>10. Typed'
  BY <1>1, <1>2, <1>3, <1>7, <1>9, Room DEF Typed
<1>11. \A i \in 0 .. idx' - 1 : term'.cells[position(view, i)] = view.cells[i]
  <2> SUFFICES ASSUME NEW i \in 0 .. idx' - 1
               PROVE  u.cells[position(view, i)] = view.cells[i]
    BY <1>7
  <2>1. i \in Indices(view)
    BY <1>1, <1>3, Room DEF Indices
  <2>2. CASE i = idx
    BY <1>5, <2>2 DEF cell
  <2>3. CASE i # idx
    <3>1. i \in 0 .. idx - 1
      BY <1>1, <1>3, <2>3
    <3> QED
      BY <1>2, <1>5, <2>1, <2>3, <3>1
  <2> QED
    BY <2>2, <2>3
<1>12. RenderInv'
  <2>1. ~SameSize'
    BY <1>1, <1>2 DEF SameSize
  <2>2. ColorsTracked'
    BY <1>7, <1>9 DEF ColorsTracked
  <2>3. idx' = state'.y * view.width + state'.x
    BY <1>1, <1>6, <1>9
  <2>4. \A i \in 0 .. idx' - 1 : term'.cells[position(view', i)] = view'.cells[i]
    BY <1>1, <1>11
  <2> QED
    BY <1>1, <1>6, <1>7, <1>9, <2>1, <2>2, <2>3, <2>4 DEF RenderInv
<1>13. \A p \in Positions \ Area(view) : term'.cells[p] = term.cells[p]
  BY <1>5, <1>7
<1> QED
  BY <1>1, <1>10, <1>12, <1>13 DEF RInv, DeltaInv, FailedInv, ScreenShowsView

LEMMA CellPassed ==
  ASSUME RInv, renderDeltaLoop, view.cells[idx] = oldView.cells[idx]
  PROVE  RInv' /\ UNCHANGED term
<1>1. /\ mode = "renderDelta" /\ idx \in Indices(view) /\ UNCHANGED <<term, state>>
      /\ idx' = idx + 1 /\ oldView' = oldView /\ view' = view /\ mode' = mode
  BY DEF renderDeltaLoop
<1>2. /\ Typed /\ SameSize /\ oldView \in Views /\ ColorsTracked
      /\ CursorFresh \/ CursorBehind
      /\ \A i \in Indices(view) :
           term.cells[position(view, i)] = IF i < idx THEN view.cells[i] ELSE oldView.cells[i]
  BY <1>1 DEF RInv, DeltaInv
<1>3. view \in Views /\ idx \in Nat /\ idx + 1 \in 0 .. view.width * view.height
  BY <1>1, <1>2, PositionInside, Room DEF Typed, Indices
<1>4. Typed'
  BY <1>1, <1>2, <1>3 DEF Typed
<1>5. \A i \in Indices(view) :
        term.cells[position(view, i)] = IF i < idx + 1 THEN view.cells[i] ELSE oldView.cells[i]
  BY <1>2, <1>3, PositionInside
<1>6. (CursorFresh \/ CursorBehind)'
  <2>1. CASE CursorFresh
    <3>1. \A j \in 0 .. idx : view.cells[j] = oldView.cells[j]
      BY <1>3, <2>1 DEF CursorFresh
    <3> QED
      BY <1>1, <1>3, <2>1, <3>1 DEF CursorFresh
  <2>2. CASE CursorBehind
    BY <1>1, <2>2 DEF CursorBehind
  <2> QED
    BY <1>2, <2>1, <2>2
<1>7. DeltaInv'
  BY <1>1, <1>2, <1>5, <1>6 DEF DeltaInv, SameSize, ColorsTracked
<1> QED
  BY <1>1, <1>4, <1>7 DEF RInv, RenderInv, FailedInv, ScreenShowsView

(* The cursor is where the cell belongs, whether it was moved or not.      *)
LEMMA CursorMoved ==
  ASSUME RInv, mode = "renderDelta", idx \in Indices(view),
         view.cells[idx] # oldView.cells[idx]
  PROVE  LET y == idx \div view.width
             t == moved(term, idx - y * view.width, y)
         IN  /\ t \in Terminals /\ SameScreen(term, t)
             /\ <<t.x, t.y>> = position(view, idx)
             /\ t.foreColor = term.foreColor /\ t.backColor = term.backColor
<1> DEFINE y == idx \div view.width
           x == idx - y * view.width
           t == moved(term, x, y)
<1>1. Typed /\ SameSize /\ oldView \in Views /\ (CursorFresh \/ CursorBehind)
  BY DEF RInv, DeltaInv
<1>2. view \in Views /\ term \in Terminals
  BY <1>1 DEF Typed
<1>3. /\ idx \in Nat /\ x \in 0 .. view.width - 1 /\ y \in 0 .. view.height - 1
      /\ position(view, idx) = <<x, y>>
  BY <1>2, PositionInside DEF position
<1>4. CASE y # state.y \/ x # state.x + 1
  <2>1. t = goto(term, toU16(x), toU16(y))
    BY <1>4 DEF moved
  <2> HIDE DEF x, y, t
  <2>2. /\ toU16(x) = x /\ toU16(y) = y
        /\ x \in 0 .. TermWidth - 1 /\ y \in 0 .. TermHeight - 1
    BY <1>2, <1>3, Room
  <2>3. /\ t \in Terminals /\ SameScreen(term, t) /\ t.x = x /\ t.y = y
        /\ t.foreColor = term.foreColor /\ t.backColor = term.backColor
    BY <1>2, <2>1, <2>2, GotoInside
  <2> QED
    BY <1>3, <2>3 DEF x, y, t
<1>5. CASE y = state.y /\ x = state.x + 1
  <2>1. t = term
    BY <1>5 DEF moved
  <2>2. CASE CursorBehind
    BY <1>2, <1>3, <1>5, <2>1, <2>2 DEF CursorBehind, SameScreen
  <2>3. CASE CursorFresh
    <3>1. state.x = 0 /\ state.y = 0 /\ \A j \in 0 .. idx - 1 : view.cells[j] = oldView.cells[j]
      BY <2>3 DEF CursorFresh
    <3>2. idx = 1
      <4>1. y = 0 /\ x = 1
        BY <1>5, <3>1
      <4>2. y * view.width = 0
        BY <4>1, <1>2, Room
      <4> QED
        BY <1>3, <4>1, <4>2
    <3>3. view.width > 1
      BY <1>2, <1>3, <1>5, <3>1, Room
    <3>4. view.cells[1] # oldView.cells[1] /\ view.cells[0] = oldView.cells[0]
      BY <3>1, <3>2
    <3> QED
      BY <1>1, <1>2, <3>3, <3>4, FirstChangeAssumption DEF SameSize
  <2> QED
    BY <1>1, <2>2, <2>3
<1> QED
  BY <1>4, <1>5

LEMMA CellChanged ==
  ASSUME RInv, renderDeltaLoop, view.cells[idx] # oldView.cells[idx]
  PROVE  /\ RInv'
         /\ \A p \in Positions \ Area(view) : term'.cells[p] = term.cells[p]
<1> DEFINE cell == view.cells[idx]
           y == idx \div view.width
           x == idx - y * view.width
           t == moved(term, x, y)
           u == put(colored(t, cell), cell.grapheme)
<1>1. /\ mode = "renderDelta" /\ idx \in Indices(view) /\ term' = u
      /\ state' = [x |-> x, y |-> y,
                   foreColor |-> cell.foreColor, backColor |-> cell.backColor]
      /\ idx' = idx + 1 /\ oldView' = oldView /\ view' = view /\ mode' = mode
  BY DEF renderDeltaLoop, changeCell
<1>2. /\ Typed /\ SameSize /\ oldView \in Views /\ ColorsTracked
      /\ \A i \in Indices(view) :
           term.cells[position(view, i)] = IF i < idx THEN view.cells[i] ELSE oldView.cells[i]
  BY <1>1 DEF RInv, DeltaInv
<1>3. /\ view \in Views /\ idx \in Nat /\ idx + 1 \in 0 .. view.width * view.height
      /\ x \in 0 .. view.width - 1 /\ y \in 0 .. view.height - 1
      /\ position(view, idx) = <<x, y>>
  <2>1. view \in Views
    BY <1>2 DEF Typed
  <2>2. /\ idx \in Nat /\ x \in 0 .. view.width - 1 /\ y \in 0 .. view.height - 1
        /\ position(view, idx) = <<x, y>>
    BY <1>1, <2>1, PositionInside DEF position
  <2>3. idx + 1 \in 0 .. view.width * view.height
    BY <1>1, <2>1, <2>2, Room DEF Indices
  <2> QED
    BY <2>1, <2>2, <2>3
<1>4. /\ t \in Terminals /\ SameScreen(term, t) /\ <<t.x, t.y>> = position(view, idx)
      /\ t.foreColor = term.foreColor /\ t.backColor = term.backColor
  BY <1>1, CursorMoved, Zenon
<1> HIDE DEF t
<1>5. /\ u \in Terminals /\ u.x = t.x + 1 /\ u.y = t.y
      /\ u.foreColor = cell.foreColor /\ u.backColor = cell.backColor
      /\ u.cells[position(view, idx)] = cell
      /\ \A j \in Indices(view) \ {idx} : u.cells[position(view, j)] = t.cells[position(view, j)]
      /\ \A p \in Positions \ Area(view) : u.cells[p] = t.cells[p]
  <2>1. /\ view \in Views /\ idx \in Indices(view) /\ state \in States
        /\ t.foreColor = state.foreColor /\ t.backColor = state.backColor
    BY <1>1, <1>2, <1>4 DEF Typed, ColorsTracked
  <2> QED
    BY <1>4, <2>1, CellWritten, Zenon
<1> HIDE DEF u, x, y
<1>6. t.x = x /\ t.y = y
  BY <1>3, <1>4
<1>7. cell.foreColor \in Colors /\ cell.backColor \in Colors
  BY <1>1, <1>3, ViewsAssumption DEF Cell
<1>8. /\ state' \in States /\ state'.x = x /\ state'.y = y
      /\ state'.foreColor = cell.foreColor /\ state'.backColor = cell.backColor
  BY <1>1, <1>3, <1>7 DEF States
<1>9. Typed'
  BY <1>1, <1>2, <1>3, <1>5, <1>8 DEF Typed
<1>10. \A i \in Indices(view) :
         term'.cells[position(view, i)] = IF i < idx' THEN view.cells[i] ELSE oldView.cells[i]
  <2> SUFFICES ASSUME NEW i \in Indices(view)
               PROVE  u.cells[position(view, i)]
                        = IF i < idx + 1 THEN view.cells[i] ELSE oldView.cells[i]
    BY <1>1
  <2>1. i \in Nat
    BY <1>3, PositionInside
  <2>2. CASE i = idx
    BY <1>3, <1>5, <2>2
  <2>3. CASE i # idx
    <3>1. u.cells[position(view, i)] = term.cells[position(view, i)]
      BY <1>4, <1>5, <2>3 DEF SameScreen
    <3>2. (i < idx) <=> (i < idx + 1)
      BY <1>3, <2>1, <2>3
    <3> QED
      BY <1>2, <3>1, <3>2
  <2> QED
    BY <2>2, <2>3
<1>11. CursorBehind'
  BY <1>1, <1>3, <1>5, <1>6, <1>8 DEF CursorBehind
<1>12. ColorsTracked' /\ SameSize'
  BY <1>1, <1>2, <1>5, <1>8 DEF ColorsTracked, SameSize
<1>13. DeltaInv'
  BY <1>1, <1>2, <1>10, <1>11, <1>12 DEF DeltaInv
<1>14. \A p \in Positions \ Area(view) : term'.cells[p] = term.cells[p]
  BY <1>1, <1>4, <1>5 DEF SameScreen
<1> QED
  BY <1>1, <1>9, <1>13, <1>14 DEF RInv, RenderInv, FailedInv, ScreenShowsView

LEMMA DeltaStep ==
  ASSUME RInv, renderDeltaLoop
  PROVE  /\ RInv'
         /\ \A p \in Positions \ Area(view) : term'.cells[p] = term.cells[p]
<1>1. CASE view.cells[idx] = oldView.cells[idx]
  BY <1>1, CellPassed
<1>2. CASE view.cells[idx] # oldView.cells[idx]
  BY <1>2, CellChanged
<1> QED
  BY <1>1, <1>2

LEMMA FinishStep ==
  ASSUME RInv, Finish
  PROVE  RInv' /\ SameScreen(term, term')
<1>1. /\ mode \in {"render", "renderDelta"} /\ idx \notin Indices(view)
      /\ term' = line(term) /\ mode' = "done" /\ oldView' = view
      /\ idx' = 0 /\ state' = newState /\ view' = view
  BY DEF Finish
<1>2. Typed /\ view \in Views /\ idx \in Nat
  BY Room DEF RInv, Typed
<1>3. idx = view.width * view.height
  BY <1>1, <1>2, Room DEF Typed, Indices
<1>4. term.y < TermHeight - 1
  <2>1. CASE mode = "render"
    BY <1>2, <2>1, Room DEF RInv, RenderInv
  <2>2. CASE mode = "renderDelta"
    BY <1>2, <2>2, Room DEF RInv, DeltaInv, CursorFresh, CursorBehind
  <2> QED
    BY <1>1, <2>1, <2>2
<1>5. term' \in Terminals /\ SameScreen(term, term')
  BY <1>1, <1>2, <1>4, LineInside DEF Typed
<1>6. Typed'
  BY <1>1, <1>2, <1>5, Room, StateStarts DEF Typed
<1>7. \A i \in Indices(view) : term.cells[position(view, i)] = view.cells[i]
  <2>1. \A i \in Indices(view) : i \in 0 .. idx - 1 /\ i < idx
    BY <1>2, <1>3, Room DEF Indices
  <2>2. CASE mode = "render"
    BY <2>1, <2>2 DEF RInv, RenderInv
  <2>3. CASE mode = "renderDelta"
    BY <2>1, <2>3 DEF RInv, DeltaInv
  <2> QED
    BY <1>1, <2>2, <2>3
<1>8. ScreenShowsView'
  BY <1>1, <1>5, <1>7 DEF ScreenShowsView, SameScreen
<1> QED
  BY <1>1, <1>5, <1>6, <1>8 DEF RInv, RenderInv, DeltaInv, FailedInv

LEMMA FailStep ==
  ASSUME RInv, Fail
  PROVE  RInv' /\ SameScreen(term, term')
<1>1. /\ mode \in {"render", "renderDelta"} /\ mode' = "failed"
      /\ term' = term /\ oldView' = oldView /\ view' = view /\ idx' = idx /\ state' = state
  BY DEF Fail
<1>2. SameSize => mode = "renderDelta"
  BY <1>1 DEF RInv, RenderInv
<1>3. FailedInv'
  BY <1>1, <1>2 DEF RInv, DeltaInv, FailedInv, SameSize
<1> QED
  BY <1>1, <1>3 DEF RInv, Typed, RenderInv, DeltaInv, ScreenShowsView, SameScreen

LEMMA BeginStep ==
  ASSUME RInv, renderDelta
  PROVE  RInv' /\ SameScreen(term, term')
<1>1. mode = "done" /\ Typed /\ view \in Views
      /\ \A i \in Indices(view) : term.cells[position(view, i)] = view.cells[i]
  BY Zenon DEF renderDelta, RInv, ScreenShowsView, Typed
<1>2. PICK v \in Views : Begin(view, v, term)
  BY DEF renderDelta
<1>3. /\ oldView' = view /\ view' = v /\ idx' = 0 /\ state' = newState
      /\ term' = setColors(goto(term, 0, 0), Black, Black)
      /\ mode' = IF view.width # v.width \/ view.height # v.height
                 THEN "render" ELSE "renderDelta"
  BY <1>2 DEF Begin
<1>4. /\ term' \in Terminals /\ SameScreen(term, term') /\ term'.x = 0 /\ term'.y = 0
      /\ term'.foreColor = Black /\ term'.backColor = Black
  <2> DEFINE t == goto(term, 0, 0)
  <2>1. t \in Terminals /\ t.cells = term.cells /\ t.x = 0 /\ t.y = 0
    BY <1>1, GotoInside, TermAssumption DEF Typed, SameScreen
  <2> HIDE DEF t
  <2>2. term' = setColors(t, Black, Black)
    BY <1>3 DEF t
  <2> QED
    BY <2>1, <2>2, BlackAssumption
    DEF setColors, setForecolor, setBackcolor, Terminals, SameScreen
<1>5. Typed'
  BY <1>1, <1>3, <1>4, StateStarts, Room DEF Typed
<1>6. ColorsTracked' /\ CursorFresh'
  BY <1>3, <1>4, StateStarts DEF ColorsTracked, CursorFresh
<1>7. CASE view.width # v.width \/ view.height # v.height
  <2>1. mode' = "render" /\ ~SameSize'
    BY <1>3, <1>7 DEF SameSize
  <2>2. /\ state'.x \in 0 .. v.width - 1 /\ state'.y \in 0 .. v.height
        /\ idx' = state'.y * v.width + state'.x
    BY <1>3, StateStarts, Room
  <2>3. RenderInv'
    BY <1>3, <1>4, <1>6, <2>1, <2>2, StateStarts DEF RenderInv
  <2> QED
    BY <1>4, <1>5, <2>1, <2>3 DEF RInv, DeltaInv, FailedInv, ScreenShowsView
<1>8. CASE view.width = v.width /\ view.height = v.height
  <2>1. mode' = "renderDelta" /\ SameSize'
    BY <1>3, <1>8 DEF SameSize
  <2>2. \A i \in Indices(v) : /\ i \in Indices(view) /\ ~(i < 0)
                              /\ position(v, i) = position(view, i)
    BY <1>8, Room DEF Indices, position
  <2>3. \A i \in Indices(v) :
          term'.cells[position(v, i)] = IF i < 0 THEN v.cells[i] ELSE view.cells[i]
    BY <1>1, <1>4, <2>2 DEF SameScreen
  <2>4. DeltaInv'
    BY <1>1, <1>3, <1>6, <2>1, <2>3 DEF DeltaInv
  <2> QED
    BY <1>4, <1>5, <2>1, <2>4 DEF RInv, RenderInv, FailedInv, ScreenShowsView
<1> QED
  BY <1>7, <1>8

LEMMA RInvStep ==
  ASSUME RInv, Next
  PROVE  RInv' /\ \A p \in Positions \ Area(view) : term'.cells[p] = term.cells[p]
<1>1. CASE addNextViewCommands
  BY <1>1, FullStep
<1>2. CASE renderDeltaLoop
  BY <1>2, DeltaStep
<1>3. CASE Finish
  BY <1>3, FinishStep DEF SameScreen
<1>4. CASE Fail
  BY <1>4, FailStep DEF SameScreen
<1>5. CASE renderDelta
  BY <1>5, BeginStep DEF SameScreen
<1> QED
  BY <1>1, <1>2, <1>3, <1>4, <1>5 DEF Next

LEMMA RInvStutter ==
  ASSUME RInv, UNCHANGED vars
  PROVE  RInv'
  BY DEF RInv, vars, Typed, RenderInv, DeltaInv, FailedInv, ScreenShowsView, SameSize,
         ColorsTracked, CursorFresh, CursorBehind

LEMMA RenderInvariant == Spec => []RInv
<1>1. Init => RInv
  BY InitRInv
<1>2. RInv /\ [Next]_vars => RInv'
  BY RInvStep, RInvStutter
<1> QED
  BY <1>1, <1>2, PTL DEF Spec
-----------------------------------------------------------------------------
(* A view that was rendered is on the screen, every cell of it, although   *)
(* the renderer passes over the cells that did not change and leaves out   *)
(* the commands that it takes to be without effect (TerminalRender.roc).   *)
THEOREM ShowsView == Spec => []ScreenShowsView
<1>1. RInv => ScreenShowsView
  BY DEF RInv
<1> QED
  BY <1>1, RenderInvariant, PTL

(* While a difference is drawn, and when a write fails in the middle of    *)
(* it, every cell shows the old view or the new one (renderDeltaLoop).     *)
THEOREM NeverFlickers == Spec => []NoFlicker
<1>1. RInv => NoFlicker
  BY DEF RInv, NoFlicker, DeltaInv, FailedInv, SameSize
<1> QED
  BY <1>1, RenderInvariant, PTL

(* No command of a rendering writes outside of the view or scrolls.        *)
THEOREM StaysInView == Spec => OnlyViewTouched
<1>1. RInv /\ [Next]_vars => [\A p \in Positions \ Area(view) : term'.cells[p] = term.cells[p]]_vars
  BY RInvStep
<1> QED
  BY <1>1, RenderInvariant, PTL DEF Spec, OnlyViewTouched

(* The renderer implements the screen of module Screen: the next view is   *)
(* handed over only when the last one is shown.                            *)
THEOREM ImplementsScreen == Spec => ShowsEveryView
<1>1. \A v \in Views : v = [width |-> v.width, height |-> v.height, cells |-> v.cells]
                       /\ v.cells \in [Indices(v) -> Cell]
  BY ViewsAssumption
<1>2. RInv /\ mode = "done" => screenOf(view) = view
  <2> SUFFICES ASSUME RInv, mode = "done" PROVE screenOf(view) = view
    OBVIOUS
  <2>1. view \in Views /\ \A i \in Indices(view) : term.cells[position(view, i)] = view.cells[i]
    BY DEF RInv, ScreenShowsView, Typed
  <2>2. [i \in Indices(view) |-> term.cells[position(view, i)]] = view.cells
    BY <1>1, <2>1
  <2> QED
    BY <1>1, <2>1, <2>2 DEF screenOf
<1>3. (RInv /\ mode = "done" => screenOf(view) = view)'
  BY <1>2, PTL
<1>4. Init => Screen!Init
  BY DEF Init, Screen!Init
<1>5. RInv /\ RInv' /\ [Next]_vars => [Screen!Next]_(Screen!vars)
  <2> SUFFICES ASSUME RInv, RInv', [Next]_vars PROVE [Screen!Next]_(Screen!vars)
    OBVIOUS
  <2> DEFINE shown == IF mode = "done" THEN screenOf(view) ELSE oldView
  <2>1. CASE addNextViewCommands \/ renderDeltaLoop \/ Fail
    <3>1. mode # "done" /\ mode' # "done" /\ oldView' = oldView /\ view' = view
      BY <2>1 DEF addNextViewCommands, renderDeltaLoop, Fail
    <3> QED
      BY <3>1 DEF Screen!vars
  <2>2. CASE Finish
    <3>1. mode' = "done" /\ view' = view
      BY <2>2 DEF Finish
    <3>2. (screenOf(view) = view)'
      BY <1>3, <3>1
    <3> QED
      BY <3>1, <3>2 DEF Screen!Next, Screen!Show
  <2>3. CASE renderDelta
    <3>1. mode = "done" /\ mode' # "done" /\ oldView' = view /\ view' \in Views
      BY <2>3 DEF renderDelta, Begin
    <3> QED
      BY <1>2, <3>1 DEF Screen!Next, Screen!HandOver
  <2>4. CASE UNCHANGED vars
    <3>1. mode' = mode /\ term' = term /\ view' = view /\ oldView' = oldView
      BY <2>4 DEF vars
    <3>2. screenOf(view)' = screenOf(view)
      BY <3>1 DEF screenOf
    <3> QED
      BY <3>1, <3>2 DEF Screen!vars
  <2> QED
    BY <2>1, <2>2, <2>3, <2>4 DEF Next
<1> QED
  BY <1>4, <1>5, RenderInvariant, PTL DEF Spec, ShowsEveryView, Screen!Spec
-----------------------------------------------------------------------------
(* The loop.                                                               *)

waiting == pc \in {"getNextKey", "update", "sleep"}

(* The loop runs: what it renders, or has rendered, is the view of the     *)
(* model.                                                                  *)
RunningInv ==
  /\ rendering \/ waiting => RInv /\ view = Draw(model)
  /\ rendering => mode \in {"render", "renderDelta"}
  /\ waiting => mode = "done"

(* The way out.                                                            *)
EndingInv ==
  /\ pc = "rust_main" =>
       /\ failure \in {"none", "write"}
       /\ failure = "none" => term.cells = shellTerminal.cells
  /\ pc \notin {"rust_main", "ended", "aborted"} => failure = "none"
  /\ pc \notin {"ended", "aborted"} => term \in Terminals

LoopInv ==
  /\ model \in Models /\ key \in Keys \cup {NoKey}
  /\ RunningInv /\ EndingInv /\ TerminalRestored
-----------------------------------------------------------------------------
(* The terminal.                                                           *)

LEMMA ClearInside ==
  ASSUME NEW t \in Terminals
  PROVE  clear(t) \in Terminals
<1>1. [p \in Positions |-> written(t, Space)] \in [Positions -> Cell]
  BY TermAssumption DEF written, Cell, Terminals
<1> QED
  BY <1>1 DEF clear, Terminals

LEMMA ModesInside ==
  ASSUME NEW t \in Terminals, NEW b \in BOOLEAN
  PROVE  setRawMode(t, b) \in Terminals /\ setCursorVisible(t, b) \in Terminals
  BY DEF setRawMode, setCursorVisible, Terminals

LEMMA ResetInside ==
  ASSUME NEW t \in Terminals
  PROVE  /\ resetForecolor(t) \in Terminals /\ resetBackcolor(t) \in Terminals
         /\ resetForecolor(t).foreColor = Default /\ resetBackcolor(t).backColor = Default
         /\ resetForecolor(t).backColor = t.backColor
         /\ resetBackcolor(t).foreColor = t.foreColor
  BY TermAssumption
  DEF resetForecolor, resetBackcolor, setForecolor, setBackcolor, Terminals

LEMMA ShellInside == shellTerminal \in Terminals
<1>1. [grapheme |-> Space, foreColor |-> Default, backColor |-> Default] \in Cell
  BY TermAssumption DEF Cell
<1>2. newTerminal \in Terminals
  BY <1>1, TermAssumption, BlackAssumption DEF newTerminal, Terminals
<1> QED
  BY <1>2, TermAssumption DEF shellTerminal, Terminals

(* Clearing with the colours reset gives the screen of the shell.          *)
LEMMA ClearedScreen ==
  ASSUME NEW t \in Terminals
  PROVE  LET c == clear(resetForecolor(resetBackcolor(t)))
         IN  c \in Terminals /\ c.cells = shellTerminal.cells
<1> DEFINE r == resetForecolor(resetBackcolor(t))
<1>1. r \in Terminals /\ r.foreColor = Default /\ r.backColor = Default
  BY ResetInside
<1> HIDE DEF r
<1>2. clear(r) \in Terminals
  BY <1>1, ClearInside
<1>3. clear(r).cells = [p \in Positions |-> written(r, Space)]
  BY <1>1 DEF clear, Terminals
<1>4. shellTerminal.cells = [p \in Positions |->
         [grapheme |-> Space, foreColor |-> Default, backColor |-> Default]]
  BY DEF shellTerminal, newTerminal
<1>5. written(r, Space) = [grapheme |-> Space, foreColor |-> Default, backColor |-> Default]
  BY <1>1 DEF written
<1>6. clear(r).cells = shellTerminal.cells
  BY <1>3, <1>4, <1>5
<1> QED
  BY <1>2, <1>6 DEF r

LEMMA ResetTerminal ==
  ASSUME NEW t \in Terminals
  PROVE  LET r == reset_terminal(t)
         IN  /\ ~r.raw /\ r.cursorVisible /\ r.foreColor = Default /\ r.backColor = Default
             /\ r.cells = t.cells /\ r \in Terminals
  BY TermAssumption
  DEF reset_terminal, setCursorVisible, resetBackcolor, resetForecolor, setForecolor,
      setBackcolor, setRawMode, Terminals
-----------------------------------------------------------------------------
(* The first view, drawn on any terminal.                                  *)
LEMMA FirstStep ==
  ASSUME term \in Terminals, NEW v \in Views, Begin(NoView, v, term)
  PROVE  RInv' /\ view' = v /\ mode' = "render"
<1>1. /\ oldView' = NoView /\ view' = v /\ idx' = 0 /\ state' = newState
      /\ term' = setColors(goto(term, 0, 0), Black, Black)
      /\ mode' = IF NoView.width # v.width \/ NoView.height # v.height
                 THEN "render" ELSE "renderDelta"
  BY DEF Begin
<1>2. mode' = "render" /\ ~SameSize'
  BY <1>1, Room DEF NoView, SameSize
<1>3. /\ term' \in Terminals /\ term'.x = 0 /\ term'.y = 0
      /\ term'.foreColor = Black /\ term'.backColor = Black
  <2> DEFINE t == goto(term, 0, 0)
  <2>1. t \in Terminals /\ t.x = 0 /\ t.y = 0
    BY GotoInside, TermAssumption
  <2> HIDE DEF t
  <2>2. term' = setColors(t, Black, Black)
    BY <1>1 DEF t
  <2> QED
    BY <2>1, <2>2, BlackAssumption DEF setColors, setForecolor, setBackcolor, Terminals
<1>4. Typed'
  BY <1>1, <1>2, <1>3, StateStarts, Room DEF Typed
<1>5. RenderInv'
  <2>1. ColorsTracked'
    BY <1>1, <1>3, StateStarts DEF ColorsTracked
  <2>2. /\ state'.x \in 0 .. v.width - 1 /\ state'.y \in 0 .. v.height
        /\ idx' = state'.y * v.width + state'.x
    BY <1>1, StateStarts, Room
  <2> QED
    BY <1>1, <1>2, <1>3, <2>1, <2>2, StateStarts DEF RenderInv
<1> QED
  BY <1>1, <1>2, <1>4, <1>5 DEF RInv, DeltaInv, FailedInv, ScreenShowsView
-----------------------------------------------------------------------------
(* One step of the program, or of the terminal.                            *)

LEMMA LoopInvInit ==
  ASSUME LoopInit
  PROVE  LoopInv
<1>1. /\ term = shellTerminal /\ pc = "run" /\ failure = "none"
      /\ model = InitModel /\ key = NoKey
  BY DEF LoopInit
<1>2. RunningInv
  BY <1>1 DEF RunningInv, rendering, waiting
<1>3. EndingInv
  BY <1>1, ShellInside DEF EndingInv
<1> QED
  BY <1>1, <1>2, <1>3, GameAssumption DEF LoopInv, TerminalRestored

LEMMA AbortStep ==
  ASSUME LoopInv, NEW t, abort(t)
  PROVE  LoopInv'
<1>1. pc' = "aborted" /\ model' = model /\ key' = key
  BY DEF abort
<1> QED
  BY <1>1 DEF LoopInv, RunningInv, EndingInv, TerminalRestored, rendering, waiting

LEMMA SetUpStep ==
  ASSUME LoopInv, setUp
  PROVE  LoopInv'
<1>1. pc = "run" /\ failure = "none" /\ term \in Terminals
  BY DEF setUp, LoopInv, EndingInv
<1>2. CASE abort(clear(term))
  BY <1>2, AbortStep
<1>3. CASE ~abort(clear(term))
  <2>1. /\ term' = setCursorVisible(setRawMode(clear(term), TRUE), FALSE)
        /\ pc' = "draw" /\ model' = model /\ key' = key /\ failure' = failure
    BY <1>3 DEF setUp
  <2>2. setRawMode(clear(term), TRUE) \in Terminals
    BY <1>1, ClearInside, ModesInside
  <2>3. term' \in Terminals
    BY <2>1, <2>2, ModesInside
  <2> QED
    BY <1>1, <2>1, <2>3
    DEF LoopInv, RunningInv, EndingInv, TerminalRestored, rendering, waiting
<1> QED
  BY <1>2, <1>3

LEMMA DrawFirstStep ==
  ASSUME LoopInv, drawFirst
  PROVE  LoopInv'
<1>1. /\ pc = "draw" /\ pc' = "render" /\ model' = model /\ key' = key /\ failure' = failure
      /\ failure = "none" /\ term \in Terminals /\ Draw(model) \in Views
  BY GameAssumption DEF drawFirst, LoopInv, EndingInv
<1>2. RInv' /\ view' = Draw(model) /\ mode' = "render"
  BY <1>1, FirstStep DEF drawFirst
<1>3. RunningInv'
  BY <1>1, <1>2 DEF RunningInv, rendering, waiting
<1>4. EndingInv'
  BY <1>1, <1>2 DEF EndingInv, RInv, Typed
<1> QED
  BY <1>1, <1>3, <1>4 DEF LoopInv, TerminalRestored

LEMMA RenderCellStep ==
  ASSUME LoopInv, renderCell
  PROVE  LoopInv'
<1>1. /\ rendering /\ RInv /\ view = Draw(model) /\ UNCHANGED loopVars
      /\ mode \in {"render", "renderDelta"} /\ (addNextViewCommands \/ renderDeltaLoop)
  BY DEF renderCell, LoopInv, RunningInv
<1>2. RInv'
  BY <1>1, FullStep, DeltaStep
<1>3. mode' = mode /\ view' = view
  BY <1>1 DEF addNextViewCommands, renderDeltaLoop
<1>4. RunningInv'
  BY <1>1, <1>2, <1>3 DEF RunningInv, rendering, waiting, loopVars
<1>5. EndingInv'
  BY <1>1, <1>2 DEF LoopInv, EndingInv, RInv, Typed, rendering, loopVars
<1> QED
  BY <1>1, <1>4, <1>5 DEF LoopInv, TerminalRestored, rendering, loopVars

LEMMA RenderedStep ==
  ASSUME LoopInv, rendered
  PROVE  LoopInv'
<1>1. /\ rendering /\ RInv /\ view = Draw(model) /\ Finish
      /\ pc' = IF pc = "render" THEN "getNextKey" ELSE "sleep"
      /\ model' = model /\ key' = key /\ failure' = failure
  BY DEF rendered, LoopInv, RunningInv
<1>2. RInv' /\ mode' = "done" /\ view' = view
  BY <1>1, FinishStep DEF Finish
<1>3. RunningInv'
  BY <1>1, <1>2 DEF RunningInv, rendering, waiting
<1>4. EndingInv'
  BY <1>1, <1>2 DEF LoopInv, EndingInv, RInv, Typed, rendering
<1> QED
  BY <1>1, <1>3, <1>4 DEF LoopInv, TerminalRestored

LEMMA WriteFailsStep ==
  ASSUME LoopInv, writeFails
  PROVE  LoopInv'
<1>1. /\ rendering /\ term \in Terminals /\ term' = term
      /\ pc' = "rust_main" /\ failure' = "write" /\ model' = model /\ key' = key
  BY DEF writeFails, Fail, LoopInv, EndingInv, rendering
<1> QED
  BY <1>1 DEF LoopInv, RunningInv, EndingInv, TerminalRestored, rendering, waiting

(* Where neither the renderer nor the model is touched, within the loop.   *)
LEMMA WaitingStep ==
  ASSUME LoopInv, waiting, waiting', UNCHANGED <<vars, model, failure>>,
         key' \in Keys \cup {NoKey}
  PROVE  LoopInv'
<1>1. /\ RInv /\ view = Draw(model) /\ mode = "done" /\ failure = "none"
      /\ term \in Terminals
  BY DEF LoopInv, RunningInv, EndingInv, waiting
<1>2. RInv'
  BY <1>1, RInvStutter
<1>3. RunningInv'
  BY <1>1, <1>2 DEF RunningInv, rendering, waiting, vars
<1> QED
  BY <1>1, <1>3 DEF LoopInv, EndingInv, TerminalRestored, waiting, vars

LEMMA ReadStep ==
  ASSUME LoopInv, readEvent \/ readNothing
  PROVE  LoopInv'
<1>1. /\ pc = "getNextKey" /\ pc' = "update" /\ UNCHANGED <<vars, model, failure>>
      /\ key' \in Keys \cup {NoKey}
  BY DEF readEvent, readNothing
<1> QED
  BY <1>1, WaitingStep DEF waiting

LEMMA FrameStep ==
  ASSUME LoopInv, frame
  PROVE  LoopInv'
<1> DEFINE m == Update(Update(model, Key(key)), Tick)
<1>1. /\ pc = "update" /\ pc' = "renderDelta" /\ model' = m /\ Begin(view, Draw(m), term)
      /\ key' = key /\ failure' = failure
  BY DEF frame
<1>2. m \in Models /\ Draw(m) \in Views
  <2>1. Update(model, Key(key)) \in Models
    BY GameAssumption DEF LoopInv
  <2> QED
    BY <2>1, GameAssumption
<1> HIDE DEF m
<1>3. RInv /\ mode = "done" /\ failure = "none"
  BY <1>1 DEF LoopInv, RunningInv, EndingInv, waiting
<1>4. renderDelta
  BY <1>1, <1>2, <1>3 DEF renderDelta
<1>5. RInv' /\ view' = Draw(m) /\ mode' \in {"render", "renderDelta"}
  BY <1>1, <1>3, <1>4, BeginStep DEF Begin
<1>6. RunningInv'
  BY <1>1, <1>5 DEF RunningInv, rendering, waiting
<1>7. EndingInv'
  BY <1>1, <1>3, <1>5 DEF EndingInv, RInv, Typed
<1> QED
  BY <1>1, <1>2, <1>6, <1>7 DEF LoopInv, TerminalRestored

LEMMA SleepStep ==
  ASSUME LoopInv, sleep
  PROVE  LoopInv'
<1>1. /\ pc = "sleep" /\ pc' = IF key \in QuitKeys THEN "quit" ELSE "getNextKey"
      /\ UNCHANGED <<vars, model, key, failure>>
  BY DEF sleep
<1>2. CASE key \in QuitKeys
  BY <1>1, <1>2
  DEF LoopInv, RunningInv, EndingInv, TerminalRestored, rendering, waiting, vars
<1>3. CASE key \notin QuitKeys
  BY <1>1, <1>3, WaitingStep DEF waiting, LoopInv
<1> QED
  BY <1>2, <1>3

LEMMA CleanUpStep ==
  ASSUME LoopInv, cleanUp
  PROVE  LoopInv'
<1> DEFINE c == clear(resetForecolor(resetBackcolor(term)))
<1>1. pc = "quit" /\ failure = "none" /\ c \in Terminals /\ c.cells = shellTerminal.cells
  BY ClearedScreen DEF cleanUp, LoopInv, EndingInv
<1>2. CASE abort(c)
  BY <1>2, AbortStep
<1>3. CASE ~abort(c)
  <2>1. /\ term' = setCursorVisible(setRawMode(c, FALSE), TRUE)
        /\ pc' = "rust_main" /\ model' = model /\ key' = key /\ failure' = failure
    BY <1>3 DEF cleanUp
  <2> HIDE DEF c
  <2>2. term' \in Terminals /\ term'.cells = shellTerminal.cells
    BY <1>1, <2>1 DEF setCursorVisible, setRawMode, Terminals
  <2> QED
    BY <1>1, <2>1, <2>2
    DEF LoopInv, RunningInv, EndingInv, TerminalRestored, rendering, waiting
<1> QED
  BY <1>2, <1>3

LEMMA PanicStep ==
  ASSUME LoopInv, roc_panic
  PROVE  LoopInv'
<1>1. /\ pc \in {"draw", "update"} /\ pc' = "ended" /\ model' = model /\ key' = key
      /\ \/ term' = reset_terminal(term) /\ failure' = "panic"
         \/ failure' = "mode"
  BY DEF roc_panic
<1>2. term \in Terminals
  BY <1>1 DEF LoopInv, EndingInv
<1>3. TerminalRestored'
  BY <1>1, <1>2, ResetTerminal DEF TerminalRestored
<1> QED
  BY <1>1, <1>3 DEF LoopInv, RunningInv, EndingInv, rendering, waiting

LEMMA RustMainStep ==
  ASSUME LoopInv, rust_main
  PROVE  LoopInv'
<1>1. /\ pc = "rust_main" /\ pc' = "ended" /\ reset(term) /\ model' = model /\ key' = key
  BY DEF rust_main
<1>2. /\ term \in Terminals /\ failure \in {"none", "write"}
      /\ failure = "none" => term.cells = shellTerminal.cells
  BY <1>1 DEF LoopInv, EndingInv
<1>3. TerminalRestored'
  <2>1. CASE term' = reset_terminal(term) /\ failure' = failure
    BY <1>2, <2>1, ResetTerminal DEF TerminalRestored
  <2>2. CASE failure = "write" /\ term' = setRawMode(term, FALSE) /\ failure' = failure
    BY <1>2, <2>2 DEF TerminalRestored, setRawMode, Terminals
  <2>3. CASE failure' = "mode"
    BY <2>3 DEF TerminalRestored
  <2> QED
    BY <1>1, <2>1, <2>2, <2>3 DEF reset
<1> QED
  BY <1>1, <1>3 DEF LoopInv, RunningInv, EndingInv, rendering, waiting

(* The terminal, and a step that changes nothing.                          *)
LEMMA OutsideStep ==
  ASSUME LoopInv, UNCHANGED <<vars, pc, model, key, failure>>
  PROVE  LoopInv'
<1>1. RInv => RInv'
  BY RInvStutter
<1> QED
  BY <1>1
  DEF LoopInv, RunningInv, EndingInv, TerminalRestored, rendering, waiting, vars

LEMMA LoopInvariant == LoopSpec => []LoopInv
<1>1. LoopInit => LoopInv
  BY LoopInvInit
<1>2. LoopInv /\ [LoopNext]_allVars => LoopInv'
  <2> SUFFICES ASSUME LoopInv, [LoopNext]_allVars PROVE LoopInv'
    OBVIOUS
  <2>1. CASE setUp \/ drawFirst \/ frame \/ sleep
    BY <2>1, SetUpStep, DrawFirstStep, FrameStep, SleepStep
  <2>2. CASE renderCell \/ rendered \/ writeFails
    BY <2>2, RenderCellStep, RenderedStep, WriteFailsStep
  <2>3. CASE readEvent \/ readNothing
    BY <2>3, ReadStep
  <2>4. CASE cleanUp \/ roc_panic \/ rust_main
    BY <2>4, CleanUpStep, PanicStep, RustMainStep
  <2>5. CASE press
    BY <2>5, OutsideStep DEF press
  <2>6. CASE UNCHANGED allVars
    BY <2>6, OutsideStep DEF allVars, loopVars
  <2> QED
    BY <2>1, <2>2, <2>3, <2>4, <2>5, <2>6 DEF LoopNext, program
<1> QED
  BY <1>1, <1>2, PTL DEF LoopSpec
-----------------------------------------------------------------------------
(* Each way of resetting a terminal leaves one.                            *)
LEMMA ResetKeepsType ==
  ASSUME NEW t \in Terminals, NEW b \in BOOLEAN
  PROVE  /\ reset_terminal(t) \in Terminals /\ setRawMode(t, b) \in Terminals
         /\ [reset_terminal(t) EXCEPT !.raw = b] \in Terminals
<1>1. reset_terminal(t) \in Terminals
  BY ResetTerminal
<1> QED
  BY <1>1, ModesInside DEF Terminals

(* The types of the terminal and of the renderer.  While the loop runs the *)
(* invariant of the renderer gives them, on the way out each task does.    *)
LEMMA RenderTypesKept ==
  ASSUME RenderTypeOK, LoopInv, LoopInv', LoopNext
  PROVE  RenderTypeOK'
<1> DEFINE Others == UNCHANGED <<oldView, view, idx, state, mode>>
<1>1. ASSUME term' \in Terminals, Others PROVE RenderTypeOK'
  BY <1>1 DEF RenderTypeOK
<1>2. term \in Terminals
  BY DEF RenderTypeOK
<1>3. CASE setUp
  <2>1. clear(term) \in Terminals
    BY <1>2, ClearInside
  <2>2. setCursorVisible(setRawMode(clear(term), TRUE), FALSE) \in Terminals
    BY <2>1, ModesInside
  <2> QED
    BY <1>1, <1>3, <2>1, <2>2 DEF setUp, abort
<1>4. CASE drawFirst \/ renderCell \/ rendered \/ frame
  <2>1. rendering' \/ waiting'
    BY <1>4 DEF drawFirst, renderCell, rendered, frame, rendering, waiting, loopVars
  <2> QED
    BY <2>1 DEF LoopInv, RunningInv, RInv, Typed, RenderTypeOK
<1>5. CASE writeFails
  BY <1>5 DEF writeFails, Fail, RenderTypeOK
<1>6. CASE readEvent \/ readNothing \/ sleep \/ press
  <2>1. UNCHANGED vars
    BY <1>6 DEF readEvent, readNothing, sleep, press
  <2> QED
    BY <1>1, <1>2, <2>1 DEF vars
<1>7. CASE cleanUp
  <2> DEFINE cleared == clear(resetForecolor(resetBackcolor(term)))
  <2>1. cleared \in Terminals
    BY <1>2, ClearedScreen
  <2>2. \/ term' = setCursorVisible(setRawMode(cleared, FALSE), TRUE) \/ term' = cleared
    BY <1>7 DEF cleanUp, abort
  <2>3. Others
    BY <1>7 DEF cleanUp, abort
  <2> HIDE DEF cleared
  <2>4. setCursorVisible(setRawMode(cleared, FALSE), TRUE) \in Terminals
    BY <2>1, ModesInside
  <2> QED
    BY <1>1, <2>1, <2>2, <2>3, <2>4
<1>8. CASE roc_panic \/ rust_main
  <2>1. term.raw \in BOOLEAN
    BY <1>2 DEF Terminals
  <2>2. term' \in {term, reset_terminal(term), setRawMode(term, FALSE),
                   [reset_terminal(term) EXCEPT !.raw = term.raw]}
    BY <1>8 DEF roc_panic, rust_main, reset
  <2>3. Others
    BY <1>8 DEF roc_panic, rust_main
  <2> QED
    BY <1>1, <1>2, <2>1, <2>2, <2>3, ResetKeepsType
<1> QED
  BY <1>3, <1>4, <1>5, <1>6, <1>7, <1>8 DEF LoopNext, program

(* The types of the loop, where the invariant does not give them already.  *)
LEMMA LoopTypesKept ==
  ASSUME LoopTypeOK, LoopInv, LoopInv', LoopNext
  PROVE  LoopTypeOK'
<1>0. RenderTypeOK'
  BY RenderTypesKept DEF LoopTypeOK
<1> USE DEF LoopTypeOK
<1>1. RenderTypeOK' /\ model' \in Models /\ key' \in Keys \cup {NoKey}
  BY <1>0 DEF LoopInv
<1>2. handledNow \in Seq(Keys)
  BY DEF handledNow
<1>3. CASE setUp \/ cleanUp
  BY <1>1, <1>3 DEF setUp, cleanUp, abort
<1>4. CASE drawFirst \/ rendered \/ writeFails
  BY <1>1, <1>4 DEF drawFirst, rendered, writeFails
<1>5. CASE renderCell
  BY <1>1, <1>5 DEF renderCell, loopVars
<1>6. CASE readEvent
  <2>1. queue' \in Seq(Keys \cup OtherEvents)
    BY <1>6, HeadTailProperties DEF readEvent
  <2> QED
    BY <1>1, <1>6, <2>1 DEF readEvent
<1>7. CASE readNothing \/ sleep
  BY <1>1, <1>7 DEF readNothing, sleep
<1>8. CASE frame \/ roc_panic
  BY <1>1, <1>2, <1>8 DEF frame, roc_panic
<1>9. CASE rust_main
  <2>1. failure' \in {"none", "write", "panic", "mode"}
    BY <1>9 DEF rust_main, reset
  <2> QED
    BY <1>1, <1>9, <2>1 DEF rust_main
<1>10. CASE press
  <2> PICK event \in Keys \cup OtherEvents :
        /\ queue' = Append(queue, event)
        /\ IF event \in Keys THEN pressed' = Append(pressed, event) ELSE UNCHANGED pressed
    BY <1>10 DEF press
  <2>1. queue' \in Seq(Keys \cup OtherEvents)
    BY AppendProperties
  <2>2. pressed' \in Seq(Keys)
    <3>1. CASE event \in Keys
      <4>1. pressed' = Append(pressed, event) /\ pressed \in Seq(Keys)
        BY <3>1
      <4> QED
        BY <3>1, <4>1, AppendProperties
    <3>2. CASE event \notin Keys
      BY <3>2
    <3> QED
      BY <3>1, <3>2
  <2>3. pc' = pc /\ failure' = failure /\ handled' = handled
    BY <1>10 DEF press
  <2> QED
    BY <1>1, <2>1, <2>2, <2>3
<1> QED
  BY <1>3, <1>4, <1>5, <1>6, <1>7, <1>8, <1>9, <1>10 DEF LoopNext, program

(* The terminal and the renderer stay well formed also where the rendering *)
(* failed and on each way out, the model is one of the game's, and the     *)
(* queue and the two histories hold events and keys only (run, loop,       *)
(* reset_terminal, roc_panic).                                             *)
THEOREM LoopTypeCorrect == LoopSpec => []LoopTypeOK
<1>1. LoopInit => LoopTypeOK
  <2> SUFFICES ASSUME LoopInit PROVE LoopTypeOK
    OBVIOUS
  <2>1. RenderTypeOK
    <3>1. /\ term = shellTerminal /\ view = NoView /\ oldView = NoView /\ idx = 0
          /\ state = newState /\ mode = "done"
      BY DEF LoopInit
    <3>2. 0 \in 0 .. NoView.width * NoView.height
      BY DEF NoView
    <3> QED
      BY <3>1, <3>2, ShellInside, StateStarts DEF RenderTypeOK
  <2> QED
    BY <2>1, GameAssumption DEF LoopInit, LoopTypeOK
<1>2. LoopTypeOK /\ LoopInv /\ LoopInv' /\ [LoopNext]_allVars => LoopTypeOK'
  <2>1. ASSUME LoopTypeOK, UNCHANGED allVars PROVE LoopTypeOK'
    BY <2>1 DEF LoopTypeOK, RenderTypeOK, allVars, vars, loopVars
  <2> QED
    BY <2>1, LoopTypesKept
<1> QED
  BY <1>1, <1>2, LoopInvariant, PTL DEF LoopSpec
-----------------------------------------------------------------------------
(* However the program ends, short of an abort, the shell gets its         *)
(* terminal back (run, reset_terminal, roc_panic, rust_main).              *)
THEOREM RestoresTerminal == LoopSpec => []TerminalRestored
<1>1. LoopInv => TerminalRestored
  BY DEF LoopInv
<1> QED
  BY <1>1, LoopInvariant, PTL

(* For every game: while the loop waits the screen shows the game as it    *)
(* is (loop, renderDelta).                                                 *)
THEOREM ShowsGame == LoopSpec => []FrameShown
<1>1. LoopInv => FrameShown
  BY DEF LoopInv, RunningInv, FrameShown, RInv, ScreenShowsView, waiting
<1> QED
  BY <1>1, LoopInvariant, PTL
-----------------------------------------------------------------------------
(* The keys among events.                                                  *)

(* A set of numbers has a least one.                                       *)
LEMMA LeastExists ==
  ASSUME NEW T \in SUBSET Nat, T # {}
  PROVE  \E m \in T : \A y \in T : m <= y
<1>1. PICK m \in T : \A y \in T : ~(<<y, m>> \in OpToRel(<, Nat))
  BY NatLessThanWellFounded, WFMin, Zenon
<1>2. \A y, z \in Nat : <<y, z>> \in Nat \X Nat /\ <<y, z>>[1] = y /\ <<y, z>>[2] = z
  OBVIOUS
<1>3. ASSUME NEW y \in Nat, NEW z \in Nat, y < z
      PROVE  <<y, z>> \in OpToRel(<, Nat)
  BY <1>2, <1>3, Zenon DEF OpToRel
<1>4. \A y \in T : ~(y < m)
  BY <1>1, <1>3
<1> QED
  BY <1>4

(* The recursion of keysOf is well defined: keys after each event.         *)
LEMMA KeysOfIs ==
  ASSUME NEW q \in Seq(Keys \cup OtherEvents)
  PROVE  \E keys : /\ keysOf(q) = keys[Len(q)] /\ keys[0] = <<>>
                   /\ \A i \in 1 .. Len(q) : keys[i] = withKey(keys[i - 1], q[i])
<1> DEFINE after(s, i) == withKey(s, q[i])
           Is(f, n)    == f = [i \in 0 .. n |-> IF i = 0 THEN <<>> ELSE after(f[i - 1], i)]
           Missing     == {n \in Nat : ~\E f : Is(f, n)}
<1>1. Len(q) \in Nat
  BY LenProperties
<1>2. keysOf(q) = (CHOOSE f : Is(f, Len(q)))[Len(q)]
  BY DEF keysOf
<1> HIDE DEF after
<1>3. Missing = {}
  <2> SUFFICES ASSUME Missing # {} PROVE FALSE
    OBVIOUS
  <2>1. PICK n \in Missing : \A k \in Missing : n <= k
    BY LeastExists
  <2>2. n \in Nat /\ ~\E f : Is(f, n)
    BY <2>1
  <2>3. CASE n = 0
    <3>1. Is([i \in 0 .. 0 |-> <<>>], 0)
      OBVIOUS
    <3> QED
      BY <2>2, <2>3, <3>1
  <2>4. CASE n # 0
    <3>1. n - 1 \in Nat /\ ~(n <= n - 1)
      BY <2>2, <2>4
    <3>2. PICK f : Is(f, n - 1)
      BY <2>1, <3>1
    <3> DEFINE g == [i \in 0 .. n |-> IF i = n THEN after(f[n - 1], n) ELSE f[i]]
    <3>3. ASSUME NEW i \in 0 .. n
          PROVE  g[i] = IF i = 0 THEN <<>> ELSE after(g[i - 1], i)
      <4>1. CASE i = n
        <5>1. g[i - 1] = f[n - 1]
          BY <2>2, <2>4, <4>1
        <5> QED
          BY <2>2, <2>4, <4>1, <5>1
      <4>2. CASE i # n
        <5>1. i \in 0 .. n - 1 /\ g[i] = f[i]
          BY <2>2, <4>2
        <5>2. i # 0 => i - 1 \in 0 .. n - 1 /\ i - 1 \in 0 .. n /\ i - 1 # n
          BY <2>2, <5>1
        <5>3. i # 0 => g[i - 1] = f[i - 1]
          BY <5>2
        <5> QED
          BY <3>2, <5>1, <5>3
      <4> QED
        BY <4>1, <4>2
    <3>4. g = [i \in 0 .. n |-> IF i = 0 THEN <<>> ELSE after(g[i - 1], i)]
      <4>1. g = [i \in 0 .. n |-> g[i]]
        OBVIOUS
      <4> HIDE DEF g
      <4> QED
        BY <3>3, <4>1
    <3> QED
      BY <2>2, <3>4
  <2> QED
    BY <2>3, <2>4
<1>4. \E f : Is(f, Len(q))
  BY <1>1, <1>3
<1> DEFINE keys == CHOOSE f : Is(f, Len(q))
<1>5. Is(keys, Len(q))
  <2> HIDE DEF Is
  <2> QED
    BY <1>4
<1> HIDE DEF keys
<1>6. keys[0] = <<>> /\ \A i \in 1 .. Len(q) : keys[i] = after(keys[i - 1], i)
  <2>1. 0 \in 0 .. Len(q) /\ \A i \in 1 .. Len(q) : i \in 0 .. Len(q) /\ i # 0
    BY <1>1
  <2> QED
    BY <1>5, <2>1
<1> QED
  BY <1>2, <1>6 DEF keys, after

(* What comes behind other keys; lemmas about joined are used as they are  *)
(* stated, before the provers unfold a concatenation element by element.   *)
joined(s, t) == s \o t

LEMMA JoinedIs ==
  ASSUME NEW s \in Seq(Keys), NEW t \in Seq(Keys), NEW e
  PROVE  /\ withKey(t, e) \in Seq(Keys) /\ joined(s, t) \in Seq(Keys)
         /\ joined(<<>>, t) = t /\ joined(s, <<>>) = s
         /\ joined(s, withKey(t, e)) = withKey(joined(s, t), e)
<1>1. s \o t \in Seq(Keys) /\ <<>> \o t = t /\ s \o <<>> = s
  BY ConcatProperties, ConcatEmptySeq
<1>2. CASE e \in Keys
  <2>1. <<e>> \in Seq(Keys)
    BY <1>2
  <2>2. Append(s \o t, e) = (s \o t) \o <<e>> /\ Append(t, e) = t \o <<e>>
    BY <1>1, <1>2, AppendIsConcat
  <2>3. Append(s \o t, e) = s \o Append(t, e)
    BY <2>1, <2>2, ConcatAssociative
  <2>4. withKey(t, e) \in Seq(Keys)
    BY <1>2, AppendProperties DEF withKey
  <2> QED
    BY <1>1, <1>2, <2>3, <2>4 DEF joined, withKey
<1>3. CASE e \notin Keys
  BY <1>1, <1>3 DEF joined, withKey
<1> QED
  BY <1>2, <1>3

LEMMA JoinedAgain ==
  ASSUME NEW s \in Seq(Keys), NEW t \in Seq(Keys), NEW u \in Seq(Keys)
  PROVE  joined(joined(s, t), u) = joined(s, joined(t, u))
  BY ConcatAssociative DEF joined

(* The recursions f over the events q and g over r, of which there are n,  *)
(* if from the k-th on q are the events of r.                              *)
aligned(f, q, g, r, k, n) ==
  /\ f[k] \in Seq(Keys) /\ g[0] = <<>>
  /\ \A i \in 1 .. n :
       /\ q[k + i] = r[i]
       /\ f[k + i] = withKey(f[k + i - 1], q[k + i])
       /\ g[i] = withKey(g[i - 1], r[i])

LEMMA KeysShifted ==
  ASSUME NEW n \in Nat, NEW k \in Nat, NEW f, NEW g, NEW q, NEW r, aligned(f, q, g, r, k, n)
  PROVE  \A i \in 0 .. n : g[i] \in Seq(Keys) /\ f[k + i] = joined(f[k], g[i])
<1> DEFINE P(i)    == g[i] \in Seq(Keys) /\ f[k + i] = joined(f[k], g[i])
           Missing == {i \in 0 .. n : ~P(i)}
<1>1. f[k] \in Seq(Keys) /\ g[0] = <<>>
  BY DEF aligned
<1>2. P(0)
  <2>1. <<>> \in Seq(Keys) /\ k + 0 = k
    OBVIOUS
  <2>2. joined(f[k], <<>>) = f[k]
    BY <1>1, <2>1, JoinedIs
  <2> QED
    BY <1>1, <2>1, <2>2
<1>3. ASSUME NEW i \in 1 .. n, P(i - 1) PROVE P(i)
  <2>1. k + (i - 1) = k + i - 1
    OBVIOUS
  <2>2. /\ g[i - 1] \in Seq(Keys) /\ f[k + i - 1] = joined(f[k], g[i - 1])
        /\ g[i] = withKey(g[i - 1], r[i]) /\ f[k + i] = withKey(f[k + i - 1], r[i])
    BY <1>3, <2>1 DEF aligned
  <2> QED
    BY <1>1, <2>2, JoinedIs
<1> HIDE DEF P
<1>4. Missing = {}
  <2> SUFFICES ASSUME Missing # {} PROVE FALSE
    OBVIOUS
  <2>1. PICK i \in Missing : \A j \in Missing : i <= j
    <3>1. Missing \in SUBSET Nat
      OBVIOUS
    <3> HIDE DEF Missing
    <3> QED
      BY <3>1, LeastExists
  <2>2. i \in 1 .. n /\ i - 1 \in 0 .. n /\ ~(i <= i - 1) /\ ~P(i)
    BY <1>2, <2>1
  <2> QED
    BY <1>3, <2>1, <2>2
<1> QED
  BY <1>4 DEF P

(* One event more, at the end or at the start.                             *)
LEMMA KeysAppended ==
  ASSUME NEW q \in Seq(Keys \cup OtherEvents), NEW e \in Keys \cup OtherEvents
  PROVE  keysOf(q) \in Seq(Keys) /\ keysOf(Append(q, e)) = withKey(keysOf(q), e)
<1> DEFINE r == Append(q, e)
           n == Len(q)
<1>1. /\ r \in Seq(Keys \cup OtherEvents) /\ Len(r) = n + 1 /\ r[n + 1] = e
      /\ \A i \in 1 .. n : r[i] = q[i]
      /\ n \in Nat
  BY AppendProperties, LenProperties
<1> HIDE DEF r, n
<1>2. PICK f : /\ keysOf(r) = f[Len(r)] /\ f[0] = <<>>
               /\ \A i \in 1 .. Len(r) : f[i] = withKey(f[i - 1], r[i])
  BY <1>1, KeysOfIs
<1>3. PICK g : /\ keysOf(q) = g[n] /\ g[0] = <<>>
               /\ \A i \in 1 .. n : g[i] = withKey(g[i - 1], q[i])
  BY KeysOfIs DEF n
<1>4. \A i \in 0 .. n : g[i] \in Seq(Keys) /\ f[0 + i] = joined(f[0], g[i])
  <2>1. aligned(f, r, g, q, 0, n)
    <3>1. \A i \in 1 .. n : 0 + i = i /\ 0 + i - 1 = i - 1 /\ i \in 1 .. Len(r)
      BY <1>1
    <3> QED
      BY <1>1, <1>2, <1>3, <3>1 DEF aligned
  <2>2. 0 \in Nat /\ n \in Nat
    BY <1>1
  <2> QED
    BY <2>1, <2>2, KeysShifted
<1>5. g[n] \in Seq(Keys) /\ f[n] = g[n]
  <2>1. g[n] \in Seq(Keys) /\ f[n] = joined(<<>>, g[n]) /\ <<>> \in Seq(Keys)
    BY <1>1, <1>2, <1>4
  <2> QED
    BY <2>1, JoinedIs
<1>6. f[n + 1] = withKey(f[n], e)
  BY <1>1, <1>2
<1> QED
  BY <1>1, <1>2, <1>3, <1>5, <1>6 DEF r

LEMMA KeysAhead ==
  ASSUME NEW q \in Seq(Keys \cup OtherEvents), q # <<>>
  PROVE  keysOf(q) = joined(withKey(<<>>, Head(q)), keysOf(Tail(q)))
<1> DEFINE r == Tail(q)
           n == Len(r)
<1>1. /\ r \in Seq(Keys \cup OtherEvents) /\ Len(q) = n + 1 /\ n \in Nat
      /\ \A i \in 1 .. n : r[i] = q[i + 1]
      /\ Head(q) = q[1]
  BY HeadTailProperties, LenProperties
<1> HIDE DEF r, n
<1>2. PICK f : /\ keysOf(q) = f[Len(q)] /\ f[0] = <<>>
               /\ \A i \in 1 .. Len(q) : f[i] = withKey(f[i - 1], q[i])
  BY KeysOfIs
<1>3. PICK g : /\ keysOf(r) = g[n] /\ g[0] = <<>>
               /\ \A i \in 1 .. n : g[i] = withKey(g[i - 1], r[i])
  BY <1>1, KeysOfIs DEF n
<1>4. f[1] = withKey(<<>>, Head(q)) /\ f[1] \in Seq(Keys)
  <2>1. 1 \in 1 .. Len(q) /\ 1 - 1 = 0
    BY <1>1
  <2>2. f[1] = withKey(<<>>, Head(q))
    BY <1>1, <1>2, <2>1
  <2> QED
    BY <2>2, EmptySeq DEF withKey
<1>5. \A i \in 0 .. n : g[i] \in Seq(Keys) /\ f[1 + i] = joined(f[1], g[i])
  <2>1. \A i \in 1 .. n : 1 + i \in 1 .. Len(q) /\ q[1 + i] = r[i]
    BY <1>1
  <2>2. aligned(f, q, g, r, 1, n)
    BY <1>2, <1>3, <1>4, <2>1 DEF aligned
  <2>3. 1 \in Nat /\ n \in Nat
    BY <1>1
  <2> QED
    BY <2>2, <2>3, KeysShifted
<1>6. f[Len(q)] = joined(f[1], g[n])
  <2>1. n \in 0 .. n /\ Len(q) = 1 + n
    BY <1>1
  <2> QED
    BY <1>5, <2>1
<1> QED
  BY <1>2, <1>3, <1>4, <1>6 DEF r
-----------------------------------------------------------------------------
(* The keys that were pressed.                                             *)

LEMMA PressKeepsOrder ==
  ASSUME LoopTypeOK, KeysInOrder, press
  PROVE  KeysInOrder'
<1> DEFINE read == IF pc = "update" /\ key # NoKey THEN <<key>> ELSE <<>>
           given == handled \o read
<1>1. PICK e \in Keys \cup OtherEvents :
        /\ queue' = Append(queue, e) /\ pressed' = withKey(pressed, e)
        /\ pc' = pc /\ key' = key /\ handled' = handled
  BY DEF press, withKey
<1>2. given \in Seq(Keys) /\ pressed = joined(given, keysOf(queue))
  <2>1. read \in Seq(Keys) /\ handled \in Seq(Keys)
    BY DEF LoopTypeOK
  <2> QED
    BY <2>1, ConcatProperties DEF KeysInOrder, joined
<1>3. keysOf(queue) \in Seq(Keys) /\ keysOf(queue') = withKey(keysOf(queue), e)
  BY <1>1, KeysAppended DEF LoopTypeOK
<1> HIDE DEF given
<1>4. pressed' = joined(given, keysOf(queue'))
  BY <1>1, <1>2, <1>3, JoinedIs
<1> QED
  BY <1>1, <1>4 DEF KeysInOrder, given, joined

LEMMA ReadKeepsOrder ==
  ASSUME LoopTypeOK, KeysInOrder, readEvent
  PROVE  KeysInOrder'
<1> DEFINE e == Head(queue)
           first == withKey(<<>>, e)
           rest == keysOf(Tail(queue))
<1>1. /\ pc = "getNextKey" /\ queue # <<>> /\ pc' = "update"
      /\ key' = IF e \in Keys THEN e ELSE NoKey
      /\ queue' = Tail(queue) /\ pressed' = pressed /\ handled' = handled
  BY DEF readEvent
<1>2. queue \in Seq(Keys \cup OtherEvents) /\ handled \in Seq(Keys)
  BY DEF LoopTypeOK
<1>3. Tail(queue) \in Seq(Keys \cup OtherEvents) /\ e \in Keys \cup OtherEvents
  BY <1>1, <1>2, HeadTailProperties
<1>4. keysOf(queue) = joined(first, rest)
  BY <1>1, <1>2, KeysAhead
<1>5. first \in Seq(Keys) /\ rest \in Seq(Keys)
  <2>1. rest \in Seq(Keys)
    BY <1>3, KeysAppended
  <2>2. first \in Seq(Keys)
    BY EmptySeq DEF withKey
  <2> QED
    BY <2>1, <2>2
<1>6. first = IF key' # NoKey THEN <<key'>> ELSE <<>>
  <2>1. e \in Keys => e # NoKey
    BY KeysAssumption
  <2> QED
    BY <1>1, <2>1 DEF withKey
<1>7. pressed = joined(handled, keysOf(queue))
  BY <1>1, <1>2, ConcatEmptySeq DEF KeysInOrder, joined
<1> HIDE DEF first, rest
<1>8. pressed = joined(joined(handled, first), rest)
  BY <1>2, <1>4, <1>5, <1>7, JoinedAgain
<1> QED
  BY <1>1, <1>6, <1>8 DEF KeysInOrder, rest, joined

(* The key that was read goes to the game, or to the history, if it panics.*)
LEMMA HandledKeepsOrder ==
  ASSUME LoopTypeOK, KeysInOrder, frame \/ roc_panic
  PROVE  KeysInOrder'
<1> DEFINE read == IF pc = "update" /\ key # NoKey THEN <<key>> ELSE <<>>
<1>1. /\ pc' # "update" /\ handled' = handledNow
      /\ queue' = queue /\ pressed' = pressed
  BY DEF frame, roc_panic
<1>2. handled \in Seq(Keys) /\ read \in Seq(Keys)
  BY DEF LoopTypeOK
<1>3. handledNow = handled \o read /\ handledNow \in Seq(Keys)
  <2>1. CASE pc = "update" /\ key # NoKey
    <3>1. key \in Keys
      BY <2>1 DEF LoopTypeOK
    <3> QED
      BY <1>2, <2>1, <3>1, AppendIsConcat, AppendProperties DEF handledNow
  <2>2. CASE ~(pc = "update" /\ key # NoKey)
    BY <1>2, <2>2, ConcatEmptySeq DEF handledNow
  <2> QED
    BY <2>1, <2>2
<1>4. handled' \o <<>> = handledNow
  BY <1>1, <1>3, ConcatEmptySeq
<1> QED
  BY <1>1, <1>3, <1>4 DEF KeysInOrder

(* No key is lost, doubled or overtaken between the terminal and the game, *)
(* whatever waits between them and whichever polls fail (getNextKey, loop).*)
THEOREM KeepsOrder == LoopSpec => []KeysInOrder
<1>1. LoopInit => KeysInOrder
  <2> SUFFICES ASSUME LoopInit PROVE KeysInOrder
    OBVIOUS
  <2>1. keysOf(<<>>) = <<>>
    <3>1. <<>> \in Seq(Keys \cup OtherEvents) /\ Len(<<>>) = 0
      OBVIOUS
    <3> QED
      BY <3>1, KeysOfIs
  <2> QED
    BY <2>1 DEF LoopInit, KeysInOrder
<1>2. LoopTypeOK /\ KeysInOrder /\ [LoopNext]_allVars => KeysInOrder'
  <2> SUFFICES ASSUME LoopTypeOK, KeysInOrder, [LoopNext]_allVars PROVE KeysInOrder'
    OBVIOUS
  <2>1. ASSUME UNCHANGED <<queue, pressed, handled>>,
               pc' # "update" \/ (pc' = pc /\ key' = key) \/ key' = NoKey,
               pc # "update" \/ (pc' = pc /\ key' = key)
        PROVE  KeysInOrder'
    BY <2>1 DEF KeysInOrder
  <2>2. CASE setUp \/ drawFirst \/ rendered \/ writeFails
    BY <2>1, <2>2 DEF setUp, abort, drawFirst, rendered, writeFails, rendering
  <2>3. CASE renderCell
    BY <2>1, <2>3 DEF renderCell, loopVars
  <2>4. CASE readNothing \/ sleep \/ cleanUp \/ rust_main
    BY <2>1, <2>4 DEF readNothing, sleep, cleanUp, abort, rust_main
  <2>5. CASE UNCHANGED allVars
    BY <2>1, <2>5 DEF allVars, loopVars
  <2>6. CASE readEvent \/ frame \/ roc_panic \/ press
    BY <2>6, ReadKeepsOrder, HandledKeepsOrder, PressKeepsOrder
  <2> QED
    BY <2>2, <2>3, <2>4, <2>5, <2>6 DEF LoopNext, program
<1> QED
  BY <1>1, <1>2, LoopTypeCorrect, PTL DEF LoopSpec
=============================================================================
