----------------------------- MODULE DrawProofs -----------------------------
(***************************************************************************)
(* Theorems about draw for every size of the playable area that its texts  *)
(* are written for, every pool of blocks and every state the game reaches. *)
(*                                                                         *)
(* draw is a chain of views, each drawn on the one before, and there is a  *)
(* lemma for each: the blank view, the area, the squares of the block and  *)
(* the debris, the message after the game, the three numbers and, instead  *)
(* of all of these but the first, the intro.  What they hand on is which   *)
(* cells are blank still (Framed, Edged), which show the game (Fielded)    *)
(* and which show a number (Numbered).  What is drawn in a place depends   *)
(* on the sizes alone, except for the squares, which are where the         *)
(* invariant of the game keeps the block and the debris (Sound), and for   *)
(* the numbers, whose digits are counted and read back here.               *)
(***************************************************************************)
EXTENDS Draw, RoctrisProofs

(* The size of the view, its cells and its views.                          *)
W == viewportSize.x
H == viewportSize.y

Numerals  == {Digits[d + 1] : d \in 0 .. 9}
Graphemes == {" ", "letter"} \cup Numerals
Colors    == {"black", "block", "field", "gray", "white"}
ViewCells == [grapheme : Graphemes, foreColor : Colors, backColor : Colors]
Views     == Grids(W, H, ViewCells)

blockCell == [grapheme |-> " ", foreColor |-> "black", backColor |-> "block"]

(* The cells of the view that show the playable area, the ones that show a *)
(* set of cells of the game, and the ones left of the panel, in no border. *)
Field(x, y)  == x \in 2 .. 2 * PlayWidth + 1 /\ y \in 1 .. PlayHeight
Square(b, x, y) == \E p \in b : y = p.y + 1 /\ x \in 2 * p.x + 2 .. 2 * p.x + 3
Inner(x, y)  == x \in 1 .. 2 * PlayWidth + 3 /\ y \in 1 .. PlayHeight

(* What draw draws on, step by step.                                       *)
blankView == init(W, H, " ", "black", "black")

fieldView ==
  rect(blankView, [x |-> renderPlayMin.x, y |-> renderPlayMin.y,
                   w |-> renderPlaySize.x, h |-> renderPlaySize.y], <<" ">>, "black", "field")

playView(m) == drawBlock(drawBlock(fieldView, m.block), DOMAIN m.debris)

overView(m) == drawGameOver(playView(m), m.state)
-----------------------------------------------------------------------------
LEMMA Middle == renderPlayCenter.y = (PlayHeight - 1) \div 2 + 1
<1>1. PlayHeight \in Nat /\ PlayHeight >= 9
  BY PlayAssumption, DrawAssumption
<1> DEFINE n == PlayHeight - 1
<1>2. subtract(playMax, playMin).y = n
  BY <1>1 DEF playMax, playMin, zero, vec2, subtract
<1>3. midpoint(playMin, playMax).y = DivTrunc(subtract(playMax, playMin).y, 2) + 0
  BY DEF midpoint, divide, add, vec2, playMin, zero
<1>4. n \in Nat /\ DivTrunc(n, 2) = n \div 2
  BY <1>1 DEF DivTrunc
<1>5. n \div 2 \in Int
  BY <1>4
<1>6. renderPlayCenter.y = midpoint(playMin, playMax).y * 1 + 1
  BY DEF renderPlayCenter, playToRenderPosition, playToRenderScale, border, add, vec2
<1> QED
  BY <1>2, <1>3, <1>4, <1>5, <1>6

(* Where everything is.                                                    *)
LEMMA Layout ==
  /\ PlayWidth \in Nat /\ PlayWidth >= 8 /\ PlayHeight \in Nat /\ PlayHeight >= 9
  /\ W \in Nat /\ W = 2 * PlayWidth + 20 /\ H \in Nat /\ H = PlayHeight + 1
  /\ renderPlayMin.x = 2 /\ renderPlayMin.y = 1
  /\ renderPlaySize.x = 2 * PlayWidth /\ renderPlaySize.y = PlayHeight
  /\ scoreX = 2 * PlayWidth + 4 /\ scoreY = 1
  /\ renderPlayCenter.y \in Int /\ renderPlayCenter.y >= 5 /\ renderPlayCenter.y + 2 < PlayHeight
<1>1. PlayWidth \in Nat /\ PlayWidth >= 8 /\ PlayHeight \in Nat /\ PlayHeight >= 9
  BY PlayAssumption, DrawAssumption
<1>2. /\ renderPlaySize.x = 2 * PlayWidth /\ renderPlaySize.y = PlayHeight
      /\ viewportSize.x = 2 * PlayWidth + 20 /\ viewportSize.y = PlayHeight + 1
  BY <1>1 DEF renderPlaySize, viewportSize, playSize, playToRenderPosition, playToRenderScale,
              add, vec2
<1>3. /\ renderPlayMin.x = 2 /\ renderPlayMin.y = 1 /\ renderPlayMax.x = 2 * PlayWidth
  BY <1>1 DEF renderPlayMin, renderPlayMax, playMin, playMax, zero, playToRenderPosition,
              playToRenderScale, border, add, vec2
<1>4. /\ renderPlayCenter.y \in Int /\ renderPlayCenter.y >= 5
      /\ renderPlayCenter.y + 2 < PlayHeight
  BY <1>1, Middle
<1> QED
  BY <1>1, <1>2, <1>3, <1>4 DEF W, H, scoreX, scoreY

LEMMA Dyed ==
  ASSUME NEW s \in Seq(Graphemes), NEW f \in Colors, NEW b \in Colors
  PROVE  Dyes(s, f, b, ViewCells)
<1>1. \A j \in 1 .. Len(s) :
        dyed(s, f, b)[j] = [grapheme |-> s[j], foreColor |-> f, backColor |-> b]
  BY DyedIs
<1>2. \A j \in 1 .. Len(s) : s[j] \in Graphemes
  BY ElementOfSeq
<1>3. \A g \in Graphemes : [grapheme |-> g, foreColor |-> f, backColor |-> b] \in ViewCells
  BY DEF ViewCells
<1>4. \A j \in 1 .. Len(s) : dyed(s, f, b)[j] \in ViewCells
  BY <1>1, <1>2, <1>3
<1> QED
  BY <1>4 DEF Dyes

(* A text has as many letters as it is long, and fits into a row.          *)
LEMMA TextType ==
  ASSUME NEW n \in Nat
  PROVE  text(n) \in Seq(Graphemes) /\ Len(text(n)) = n
<1>1. text(n) \in [1 .. n -> Graphemes]
  BY DEF text, Graphemes
<1> QED
  BY <1>1

LEMMA Blanks ==
  /\ <<" ">> \in Seq(Graphemes) /\ <<" ">> # <<>> /\ Len(<<" ">>) = 1
  /\ <<" ", " ">> \in Seq(Graphemes) /\ <<" ", " ">> # <<>> /\ Len(<<" ", " ">>) = 2
  /\ Plain(<<" ", " ">>, "black", "black", blankCell)
  /\ Plain(<<" ", " ">>, "black", "block", blockCell)
  /\ Plain(<<" ">>, "black", "field",
           [grapheme |-> " ", foreColor |-> "black", backColor |-> "field"])
<1>1. " " \in Graphemes
  BY DEF Graphemes
<1>2. /\ <<" ">> \in Seq(Graphemes) /\ <<" ">> # <<>> /\ Len(<<" ">>) = 1
      /\ <<" ", " ">> \in Seq(Graphemes) /\ <<" ", " ">> # <<>> /\ Len(<<" ", " ">>) = 2
  <2> DEFINE g == " "
  <2>1. g \in Graphemes
    BY <1>1
  <2> HIDE DEF g
  <2>2. /\ <<g>> \in Seq(Graphemes) /\ <<g>> # <<>> /\ Len(<<g>>) = 1
        /\ <<g, g>> \in Seq(Graphemes) /\ <<g, g>> # <<>> /\ Len(<<g, g>>) = 2
    BY <2>1
  <2> QED
    BY <2>2 DEF g
<1>3. (\A j \in 1 .. 1 : <<" ">>[j] = " ") /\ (\A j \in 1 .. 2 : <<" ", " ">>[j] = " ")
  OBVIOUS
<1> QED
  BY <1>2, <1>3 DEF Plain, blankCell, blockCell

LEMMA BlankView ==
  /\ blankView \in Views
  /\ \A x \in 0 .. W - 1, y \in 0 .. H - 1 : cellAt(blankView, x, y) = blankCell
<1>1. W \in Nat /\ H \in Nat
  BY Layout
<1>2. blankCell \in ViewCells
  BY DEF blankCell, ViewCells, Graphemes, Colors
<1>3. /\ blankView = [width |-> W, height |-> H, cells |-> [i \in 0 .. W * H - 1 |-> blankCell]]
  BY DEF blankView, init, blankCell
<1>4. blankView \in Views
  BY <1>2, <1>3 DEF Views, Grids
<1>5. ASSUME NEW x \in 0 .. W - 1, NEW y \in 0 .. H - 1 PROVE cellAt(blankView, x, y) = blankCell
  <2> DEFINE i == y * W + x
             n == W * H
  <2>1. blankView.cells = [k \in 0 .. n - 1 |-> blankCell]
    BY <1>3
  <2>2. cellAt(blankView, x, y) = blankView.cells[i] /\ i \in 0 .. n - 1
    <3>1. cellAt(blankView, x, y) = blankView.cells[y * W + x]
      BY <1>3 DEF cellAt
    <3>2. y * W + x \in 0 .. W * H - 1
      BY <1>1, CellIndex
    <3> QED
      BY <3>1, <3>2
  <2> HIDE DEF i, n
  <2> QED
    BY <2>1, <2>2
<1> QED
  BY <1>4, <1>5

LEMMA FieldView ==
  /\ fieldView \in Views
  /\ \A x \in 0 .. W - 1, y \in 0 .. H - 1 :
       IF Field(x, y) THEN cellAt(fieldView, x, y).backColor = "field"
       ELSE cellAt(fieldView, x, y) = blankCell
<1> DEFINE r == [x |-> renderPlayMin.x, y |-> renderPlayMin.y,
                 w |-> renderPlaySize.x, h |-> renderPlaySize.y]
           g == [grapheme |-> " ", foreColor |-> "black", backColor |-> "field"]
<1>1. r.x = 2 /\ r.y = 1 /\ r.w = 2 * PlayWidth /\ r.h = PlayHeight /\ r \in Drawable
      /\ W \in Nat /\ H \in Nat
  BY Layout DEF Drawable
<1>2. Dyes(<<" ">>, "black", "field", ViewCells) /\ Plain(<<" ">>, "black", "field", g)
      /\ <<" ">> \in Seq(Graphemes) /\ <<" ">> # <<>>
  BY Blanks, Dyed DEF Colors
<1>3. blankView \in Grids(W, H, ViewCells)
  BY BlankView DEF Views
<1>4. fieldView = rect(blankView, r, <<" ">>, "black", "field")
  BY DEF fieldView
<1> HIDE DEF r, g
<1>5. fieldView \in Views
  BY <1>1, <1>2, <1>3, <1>4, BackgroundIs DEF Views
<1>6. r.x + r.w <= W /\ r.y + r.h <= H
  BY <1>1, Layout
<1>7. ASSUME NEW x \in 0 .. W - 1, NEW y \in 0 .. H - 1
      PROVE  IF Field(x, y) THEN cellAt(fieldView, x, y).backColor = "field"
             ELSE cellAt(fieldView, x, y) = blankCell
  <2>1. IF x \in r.x .. r.x + r.w - 1 /\ y \in r.y .. r.y + r.h - 1
        THEN cellAt(fieldView, x, y).backColor = "field"
        ELSE cellAt(fieldView, x, y) = cellAt(blankView, x, y)
    <3> DEFINE s == <<" ">>
               f == "black"
               b == "field"
    <3>1. /\ s \in Seq(Graphemes) /\ s # <<>> /\ Dyes(s, f, b, ViewCells)
          /\ fieldView = rect(blankView, r, s, f, b)
      BY <1>2, <1>4
    <3> HIDE DEF s, f, b
    <3>2. IF x \in r.x .. r.x + r.w - 1 /\ y \in r.y .. r.y + r.h - 1
          THEN cellAt(rect(blankView, r, s, f, b), x, y).backColor = b
          ELSE cellAt(rect(blankView, r, s, f, b), x, y) = cellAt(blankView, x, y)
      BY <1>1, <1>3, <1>6, <3>1, RectIs
    <3> QED
      BY <3>1, <3>2 DEF b
  <2>2. Field(x, y) <=> x \in r.x .. r.x + r.w - 1 /\ y \in r.y .. r.y + r.h - 1
    BY <1>1, Layout DEF Field
  <2> QED
    BY <2>1, <2>2, BlankView
<1> QED
  BY <1>5, <1>7

(* Every cell of a block is two cells wide, where it belongs.              *)
LEMMA BlockView ==
  ASSUME NEW v \in Views, NEW k \in SUBSET Cells
  PROVE  /\ drawBlock(v, k) \in Views
         /\ \A x \in 0 .. W - 1, y \in 0 .. H - 1 :
              cellAt(drawBlock(v, k), x, y) =
                IF Square(k, x, y) THEN blockCell ELSE cellAt(v, x, y)
<1> DEFINE T == {add(playToRenderPosition(p), playToRenderScale) : p \in k}
           s == <<" ", " ">>
           f == "black"
           b == "block"
<1>1. \A p \in k : LET q == add(playToRenderPosition(p), playToRenderScale)
                   IN  /\ q.x = 2 * p.x + 2 /\ q.y = p.y + 1
                       /\ p.x \in 0 .. PlayWidth - 1 /\ p.y \in 0 .. PlayHeight - 1
                       /\ q \in [x : {q.x}, y : {q.y}]
  BY CellsType DEF playToRenderPosition, playToRenderScale, add, vec2
<1>2. W \in Nat /\ H \in Nat /\ W = 2 * PlayWidth + 20 /\ H = PlayHeight + 1 /\ PlayWidth \in Nat
      /\ PlayHeight \in Nat
  BY Layout
<1>3. IsFiniteSet(T) /\ Fit(T, W, H, 2)
  <2>1. \A q \in T : \E p \in k : q.x = 2 * p.x + 2 /\ q.y = p.y + 1
                       /\ p.x \in 0 .. PlayWidth - 1 /\ p.y \in 0 .. PlayHeight - 1
                       /\ q \in [x : {q.x}, y : {q.y}]
    BY <1>1
  <2> HIDE DEF T
  <2>2. ASSUME NEW q \in T
        PROVE  q.x \in 0 .. W - 1 /\ q.y \in 0 .. H - 1 /\ q.x + 2 <= W
    BY <1>2, <2>1
  <2>3. T \in SUBSET [x : 0 .. W - 1, y : 0 .. H - 1]
    BY <2>1, <2>2
  <2>4. 0 \in Int /\ W - 1 \in Int /\ H - 1 \in Int
    BY <1>2
  <2>5. IsFiniteSet(0 .. W - 1) /\ IsFiniteSet(0 .. H - 1)
    BY <2>4, FS_Interval
  <2>6. IsFiniteSet([x : 0 .. W - 1, y : 0 .. H - 1])
    BY <2>5, PointsFinite
  <2> QED
    BY <2>2, <2>3, <2>6, FS_Subset DEF Fit
<1>4. /\ s \in Seq(Graphemes) /\ Len(s) = 2 /\ Plain(s, f, b, blockCell)
      /\ Dyes(s, f, b, ViewCells)
  BY Blanks, Dyed DEF Colors
<1>5. drawBlock(v, k) = points(v, s, f, b, T)
  BY DEF drawBlock
<1>6. ASSUME NEW x \in 0 .. W - 1, NEW y \in 0 .. H - 1
      PROVE  (\E q \in T : y = q.y /\ x \in q.x .. q.x + 2 - 1) <=> Square(k, x, y)
  <2>1. \A p \in k : LET q == add(playToRenderPosition(p), playToRenderScale)
                     IN  (y = q.y /\ x \in q.x .. q.x + 2 - 1)
                           <=> (y = p.y + 1 /\ x \in 2 * p.x + 2 .. 2 * p.x + 3)
    BY <1>1
  <2> QED
    BY <2>1 DEF Square
<1> HIDE DEF T, s, f, b
<1>7. Marked(points(v, s, f, b, T), v, W, H, ViewCells, T, Len(s), blockCell)
  BY <1>2, <1>3, <1>4, PointsAre DEF Views
<1> QED
  BY <1>4, <1>5, <1>6, <1>7 DEF Marked, Views

(* The cells of a game lie in the field.                                   *)
LEMMA SquareField ==
  ASSUME NEW k \in SUBSET Cells, NEW x, NEW y, Square(k, x, y)
  PROVE  Field(x, y)
<1>1. PICK p \in k : y = p.y + 1 /\ x \in 2 * p.x + 2 .. 2 * p.x + 3
  BY DEF Square
<1>2. /\ p.x \in Int /\ p.y \in Int /\ 0 <= p.x /\ p.x <= PlayWidth - 1
      /\ 0 <= p.y /\ p.y <= PlayHeight - 1
  BY CellsType
<1> QED
  BY <1>1, <1>2, Layout DEF Field

(* The game before the message and the panel are drawn.                    *)
LEMMA PlayView ==
  ASSUME NEW m, Sound(m)
  PROVE  /\ playView(m) \in Views
         /\ \A x \in 0 .. W - 1, y \in 0 .. H - 1 :
              IF Field(x, y)
              THEN cellAt(playView(m), x, y).backColor =
                     IF Square(m.block \cup DOMAIN m.debris, x, y) THEN "block" ELSE "field"
              ELSE cellAt(playView(m), x, y) = blankCell
<1> DEFINE k == m.block
           d == DOMAIN m.debris
           u == drawBlock(fieldView, k)
           v == drawBlock(u, d)
<1>1. k \in SUBSET Cells /\ d \in SUBSET Cells
  BY DEF Sound, Placed
<1>2. playView(m) = v
  BY DEF playView
<1> HIDE DEF k, d
<1>3. /\ u \in Views
      /\ \A x \in 0 .. W - 1, y \in 0 .. H - 1 :
           cellAt(u, x, y) = IF Square(k, x, y) THEN blockCell ELSE cellAt(fieldView, x, y)
  BY <1>1, FieldView, BlockView
<1> HIDE DEF u
<1>4. /\ v \in Views
      /\ \A x \in 0 .. W - 1, y \in 0 .. H - 1 :
           cellAt(v, x, y) = IF Square(d, x, y) THEN blockCell ELSE cellAt(u, x, y)
  BY <1>1, <1>3, BlockView
<1> HIDE DEF v
<1>5. ASSUME NEW x \in 0 .. W - 1, NEW y \in 0 .. H - 1
      PROVE  IF Field(x, y)
             THEN cellAt(v, x, y).backColor = IF Square(k \cup d, x, y) THEN "block" ELSE "field"
             ELSE cellAt(v, x, y) = blankCell
  <2>1. Square(k \cup d, x, y) <=> Square(k, x, y) \/ Square(d, x, y)
    BY DEF Square
  <2>2. Square(k \cup d, x, y) => Field(x, y)
    BY <1>1, <2>1, SquareField
  <2>3. blockCell.backColor = "block"
    BY DEF blockCell
  <2>4. cellAt(v, x, y) = IF Square(k \cup d, x, y) THEN blockCell ELSE cellAt(fieldView, x, y)
    BY <1>3, <1>4, <2>1
  <2>5. IF Field(x, y) THEN cellAt(fieldView, x, y).backColor = "field"
        ELSE cellAt(fieldView, x, y) = blankCell
    BY FieldView
  <2> HIDE DEF blockCell
  <2> QED
    BY <2>2, <2>3, <2>4, <2>5
<1> QED
  BY <1>2, <1>4, <1>5 DEF k, d

(* Nothing but the area and what is next to it is drawn on.                *)
Framed(v) ==
  /\ v \in Views
  /\ \A x \in 0 .. W - 1, y \in 0 .. H - 1 : ~Inner(x, y) => cellAt(v, x, y) = blankCell

(* The cells of k are shown where they belong, and nothing else is, except *)
(* for some rows of the view.                                              *)
Fielded(v, k, hidden) ==
  \A x \in 0 .. W - 1, y \in 0 .. H - 1 :
    Field(x, y) /\ y \notin hidden =>
      cellAt(v, x, y).backColor = IF Square(k, x, y) THEN "block" ELSE "field"

messageRows == renderPlayCenter.y - 2 .. renderPlayCenter.y + 2

LEMMA PlayFramed ==
  ASSUME NEW m, Sound(m)
  PROVE  Framed(playView(m)) /\ Fielded(playView(m), m.block \cup DOMAIN m.debris, {})
<1>1. \A x, y : Field(x, y) => Inner(x, y)
  BY Layout DEF Field, Inner
<1> QED
  BY <1>1, PlayView DEF Framed, Fielded

(* The frame of u is as it was, and so are the rows of v but one.          *)
Retained(u, v, row) ==
  /\ Framed(u)
  /\ \A x \in 0 .. W - 1, y \in 0 .. H - 1 : y # row => cellAt(u, x, y) = cellAt(v, x, y)

(* A text in the area leaves the frame as it is, and the other rows.       *)
LEMMA TextFramed ==
  ASSUME NEW v, Framed(v), NEW s \in Seq(Graphemes), NEW f \in Colors,
         NEW x0 \in 1 .. W - 1, NEW y0 \in 1 .. PlayHeight, x0 + Len(s) <= 2 * PlayWidth + 4
  PROVE  Retained(string(v, x0, y0, s, f, "black"), v, y0)
<1> DEFINE u == string(v, x0, y0, s, f, "black")
           b == "black"
           n == Len(s)
<1>1. b \in Colors /\ n \in Nat
  BY LenProperties DEF Colors
<1>2. /\ W \in Nat /\ H \in Nat /\ W = 2 * PlayWidth + 20 /\ H = PlayHeight + 1
      /\ PlayWidth \in Nat /\ PlayHeight \in Nat
  BY Layout
<1>3. x0 \in 0 .. W - 1 /\ y0 \in 0 .. H - 1 /\ x0 + n <= W /\ v \in Grids(W, H, ViewCells)
  BY <1>1, <1>2 DEF Framed, Views
<1> HIDE DEF b
<1>4. Dyes(s, f, b, ViewCells)
  BY <1>1, Dyed
<1>5. Texted(string(v, x0, y0, s, f, b), v, W, H, ViewCells, x0, y0, s, f, b)
  BY <1>2, <1>3, <1>4, TextIs
<1>6. Texted(u, v, W, H, ViewCells, x0, y0, s, f, b)
  BY <1>5 DEF b
<1> HIDE DEF u
<1>7. ASSUME NEW x \in 0 .. W - 1, NEW y \in 0 .. H - 1, ~(y = y0 /\ x \in x0 .. x0 + n - 1)
      PROVE  cellAt(u, x, y) = cellAt(v, x, y)
  BY <1>6, <1>7 DEF Texted
<1>8. \A x, y : y = y0 /\ x \in x0 .. x0 + n - 1 => Inner(x, y)
  BY <1>1, <1>2 DEF Inner
<1>9. u \in Views
  BY <1>6 DEF Texted, Views
<1>10. Retained(u, v, y0)
  BY <1>7, <1>8, <1>9 DEF Framed, Retained
<1> QED
  BY <1>10 DEF u

messageArea == [x |-> renderPlayMin.x, y |-> renderPlayCenter.y - 2,
                w |-> renderPlaySize.x * 2, h |-> 5]

clearedView(v) == rect(v, messageArea, <<" ", " ">>, "black", "black")

LEMMA MessageArea ==
  /\ messageArea.x = 2 /\ messageArea.y = renderPlayCenter.y - 2
  /\ messageArea.w = 4 * PlayWidth /\ messageArea.h = 5 /\ messageArea \in Drawable
<1>1. renderPlayMin.x = 2 /\ renderPlaySize.x * 2 = 4 * PlayWidth
  BY Layout
<1>2. /\ renderPlayMin.x \in Nat /\ renderPlayCenter.y - 2 \in Nat
      /\ renderPlaySize.x * 2 \in Nat /\ 5 \in Nat
  BY Layout
<1> QED
  BY <1>1, <1>2 DEF messageArea, Drawable

(* The background of the message spills over the frame, but it is blank;   *)
(* in the other rows it reaches, at the width of the game, the two cells   *)
(* of the border.                                                          *)
LEMMA BackgroundFramed ==
  ASSUME NEW v, Framed(v)
  PROVE  /\ Framed(clearedView(v))
         /\ PlayWidth <= 10 =>
              \A x \in 0 .. W - 1, y \in 0 .. H - 1 :
                Field(x, y) /\ y \notin messageRows =>
                  cellAt(clearedView(v), x, y) = cellAt(v, x, y)
<1> DEFINE r == messageArea
           s == <<" ", " ">>
           b == "black"
           u == clearedView(v)
<1>1. W \in Nat /\ H \in Nat
  BY Layout
<1>2. /\ W \in Nat /\ H \in Nat /\ W = 2 * PlayWidth + 20 /\ H = PlayHeight + 1
      /\ PlayWidth \in Nat /\ PlayHeight \in Nat
      /\ renderPlayCenter.y \in Int /\ renderPlayCenter.y >= 5
      /\ renderPlayCenter.y + 2 < PlayHeight
  BY Layout
<1>3. r.x = 2 /\ r.y = renderPlayCenter.y - 2 /\ r.w = 4 * PlayWidth /\ r.h = 5 /\ r \in Drawable
  BY MessageArea
<1>4. /\ s \in Seq(Graphemes) /\ s # <<>> /\ Dyes(s, b, b, ViewCells)
      /\ Plain(s, b, b, blankCell) /\ u = rect(v, r, s, b, b)
  BY Blanks, Dyed DEF Colors, clearedView
<1>5. v \in Grids(W, H, ViewCells)
  BY DEF Framed, Views
<1> HIDE DEF r, s, b, u
<1>6. /\ u \in Grids(W, H, ViewCells)
      /\ \A i \in 0 .. W * H - 1 : u.cells[i] \in {v.cells[i], blankCell}
  <2> DEFINE c == blankCell
  <2>1. Plain(s, b, b, c)
    BY <1>4
  <2> HIDE DEF c
  <2>2. /\ rect(v, r, s, b, b) \in Grids(W, H, ViewCells)
        /\ \A i \in 0 .. W * H - 1 : rect(v, r, s, b, b).cells[i] \in {v.cells[i], c}
    BY <1>2, <1>3, <1>4, <1>5, <2>1, BackgroundIs
  <2> QED
    BY <1>4, <2>2 DEF c
<1>7. ASSUME NEW x \in 0 .. W - 1, NEW y \in 0 .. H - 1
      PROVE  cellAt(u, x, y) \in {cellAt(v, x, y), blankCell}
  <2>3. ASSUME NEW e \in Grids(W, H, ViewCells) PROVE cellAt(e, x, y) = e.cells[y * W + x]
    BY <1>1, CellIs
  <2>4. y * W + x \in 0 .. W * H - 1
    BY <1>1, CellIndex
  <2> DEFINE i == y * W + x
             n == W * H
  <2>1. cellAt(u, x, y) = u.cells[i] /\ cellAt(v, x, y) = v.cells[i] /\ i \in 0 .. n - 1
    BY <1>5, <1>6, <2>3, <2>4
  <2>2. \A k \in 0 .. n - 1 : u.cells[k] \in {v.cells[k], blankCell}
    BY <1>6
  <2> HIDE DEF i, n
  <2> QED
    BY <2>1, <2>2
<1>8. Framed(u)
  BY <1>6, <1>7 DEF Framed, Views
<1>9. ASSUME PlayWidth <= 10, NEW x \in 0 .. W - 1, NEW y \in 0 .. H - 1,
             Field(x, y), y \notin messageRows
      PROVE  cellAt(u, x, y) = cellAt(v, x, y)
  <2>1. x \in Int /\ 2 <= x /\ x <= W - 1 /\ y \in 0 .. H - 1
    BY <1>2, <1>9 DEF Field
  <2>2. y \notin r.y .. r.y + r.h - 1
    BY <1>2, <1>3, <1>9 DEF messageRows
  <2>3. Beyond(r, W, H, 2, x, y)
    BY <1>2, <1>3, <1>9, <2>1, <2>2 DEF Beyond
  <2>4. cellAt(rect(v, r, s, b, b), x, y) = cellAt(v, x, y)
    BY <1>1, <1>3, <1>4, <1>5, <2>3, BackgroundStays
  <2> QED
    BY <1>4, <2>4
<1> QED
  BY <1>8, <1>9 DEF u

LEMMA OverFramed ==
  ASSUME NEW m, Sound(m)
  PROVE  /\ Framed(overView(m))
         /\ PlayWidth <= 10 =>
              Fielded(overView(m), m.block \cup DOMAIN m.debris,
                      IF m.state = "GameOver" THEN messageRows ELSE {})
<1> DEFINE v == playView(m)
           k == m.block \cup DOMAIN m.debris
<1>1. Framed(v) /\ Fielded(v, k, {})
  BY PlayFramed
<1>2. CASE m.state # "GameOver"
  <2>1. overView(m) = v
    BY <1>2 DEF overView, drawGameOver
  <2> QED
    BY <1>1, <1>2, <2>1
<1>3. CASE m.state = "GameOver"
  <2> DEFINE cleared == clearedView(v)
             y1 == renderPlayCenter.y - 1
             y2 == renderPlayCenter.y + 1
             x1 == renderPlayMin.x + 5
             x2 == 1
             titled == string(cleared, x1, y1, text(9), "white", "black")
             u == string(titled, x2, y2, text(18), "gray", "black")
  <2>1. overView(m) = u
    BY <1>3 DEF overView, drawGameOver, clearedView, messageArea
  <2>2. /\ x2 \in 1 .. W - 1 /\ x2 + 18 <= 2 * PlayWidth + 4
        /\ x1 \in 1 .. W - 1 /\ x1 + 9 <= 2 * PlayWidth + 4
        /\ y1 \in 1 .. PlayHeight /\ y2 \in 1 .. PlayHeight
        /\ y1 \in messageRows /\ y2 \in messageRows
    BY Layout DEF messageRows
  <2>3. /\ text(9) \in Seq(Graphemes) /\ Len(text(9)) = 9
        /\ text(18) \in Seq(Graphemes) /\ Len(text(18)) = 18
        /\ "white" \in Colors /\ "gray" \in Colors
    BY TextType DEF Colors
  <2>4. /\ Framed(cleared)
        /\ PlayWidth <= 10 =>
             \A x \in 0 .. W - 1, y \in 0 .. H - 1 :
               Field(x, y) /\ y \notin messageRows => cellAt(cleared, x, y) = cellAt(v, x, y)
    BY <1>1, BackgroundFramed
  <2> HIDE DEF cleared, x1, x2, y1, y2, v, k
  <2>5. Retained(titled, cleared, y1)
    BY <2>2, <2>3, <2>4, TextFramed
  <2> HIDE DEF titled
  <2>6. Retained(u, titled, y2)
    <3>1. Framed(titled)
      BY <2>5 DEF Retained
    <3> QED
      BY <2>2, <2>3, <3>1, TextFramed
  <2> HIDE DEF u
  <2>7. PlayWidth <= 10 => Fielded(u, k, messageRows)
    BY <1>1, <2>2, <2>4, <2>5, <2>6 DEF Fielded, Retained
  <2> QED
    BY <1>3, <2>1, <2>6, <2>7 DEF k, Retained
<1> QED
  BY <1>2, <1>3
-----------------------------------------------------------------------------
(* The numbers of the panel.                                               *)

numeral == [d \in 0 .. 9 |-> Digits[d + 1]]

(* The digit that a numeral stands for, as a reader of the panel finds it. *)
digitOf(g) == CHOOSE d \in 0 .. 9 : Digits[d + 1] = g

LEMMA NumeralIs ==
  /\ numeral \in [0 .. 9 -> Numerals]
  /\ \A d \in 0 .. 9 : numeral[d] = Digits[d + 1] /\ digitOf(Digits[d + 1]) = d
  /\ \A g \in Numerals : digitOf(g) \in 0 .. 9 /\ g # " " /\ g \in Graphemes
<1>1. \A d, e \in 0 .. 9 : Digits[d + 1] = Digits[e + 1] => d = e
  BY DEF Digits
<1>2. \A d \in 0 .. 9 : Digits[d + 1] # " "
  <2>1. \A d \in 0 .. 9 :
          Digits[d + 1] \in {"0", "1", "2", "3", "4", "5", "6", "7", "8", "9"}
    BY DEF Digits
  <2>2. \A g \in {"0", "1", "2", "3", "4", "5", "6", "7", "8", "9"} : g # " "
    BY Zenon
  <2> QED
    BY <2>1, <2>2
<1>3. \A d \in 0 .. 9 : digitOf(Digits[d + 1]) = d
  BY <1>1 DEF digitOf
<1>4. numeral \in [0 .. 9 -> Numerals] /\ \A d \in 0 .. 9 : numeral[d] = Digits[d + 1]
  BY DEF numeral, Numerals
<1>5. ASSUME NEW g \in Numerals PROVE digitOf(g) \in 0 .. 9 /\ g # " " /\ g \in Graphemes
  <2>1. PICK d \in 0 .. 9 : g = Digits[d + 1]
    BY DEF Numerals
  <2> QED
    BY <1>2, <1>3, <2>1 DEF Graphemes
<1> QED
  BY <1>3, <1>4, <1>5

LEMMA NumbersUnfold ==
  \E d \in [Nat -> Seq(Numerals)] :
    \A n \in Nat : d[n] = tensOf(d, numeral, n) /\ intToStr(n) = d[n]
<1> DEFINE one(n) == <<Digits[n + 1]>>
           Is(f) == f = [n \in Nat |-> IF n < 10 THEN one(n) ELSE f[n \div 10] \o f[n % 10]]
<1>1. PICK d \in [Nat -> Seq(Numerals)] : \A n \in Nat : d[n] = tensOf(d, numeral, n)
  BY NumeralIs, TensRecursion
<1>2. ASSUME NEW n \in Nat, n < 10 PROVE d[n] = one(n)
  <2>1. n \in 0 .. 9
    BY <1>2
  <2>2. d[n] = <<numeral[n]>>
    BY <1>1, <1>2 DEF tensOf
  <2> QED
    BY <2>1, <2>2, NumeralIs
<1>3. ASSUME NEW n \in Nat, ~(n < 10) PROVE d[n] = d[n \div 10] \o d[n % 10]
  <2> DEFINE q == n \div 10
             r == n % 10
  <2>1. q \in Nat /\ r \in 0 .. 9
    BY ModIs
  <2>2. d[n] = Append(d[q], numeral[r])
    BY <1>1, <1>3 DEF tensOf
  <2> HIDE DEF q, r
  <2>3. numeral[r] = Digits[r + 1] /\ numeral[r] \in Numerals /\ d[q] \in Seq(Numerals)
    BY <1>1, <2>1, NumeralIs
  <2>5. d[r] = one(r)
    <3>1. r \in Nat /\ r < 10
      BY <2>1
    <3> HIDE DEF one
    <3> QED
      BY <1>2, <3>1
  <2>6. Append(d[q], numeral[r]) = d[q] \o <<numeral[r]>>
    BY <2>3, AppendIsConcat
  <2>4. d[n] = d[q] \o d[r]
    BY <2>2, <2>3, <2>5, <2>6
  <2> QED
    BY <2>4 DEF q, r
<1>4. Is(d)
  <2>1. d = [n \in Nat |-> d[n]]
    OBVIOUS
  <2> QED
    BY <1>2, <1>3, <2>1
<1> DEFINE loop == CHOOSE f : Is(f)
<1>5. Is(loop)
  <2> HIDE DEF Is
  <2> QED
    BY <1>4
<1>6. \A n \in Nat : intToStr(n) = loop[n]
  BY DEF intToStr
<1>7. \A n \in Nat : loop[n] = IF n < 10 THEN one(n) ELSE loop[n \div 10] \o loop[n % 10]
  <2> HIDE DEF loop
  <2> QED
    BY <1>5
<1> HIDE DEF loop, Is, one
<1> DEFINE Apart2 == {n \in Nat : loop[n] # d[n]}
<1>8. Apart2 = {}
  <2> SUFFICES ASSUME Apart2 # {} PROVE FALSE
    OBVIOUS
  <2>1. PICK n \in Apart2 : \A i \in Apart2 : n <= i
    <3>1. Apart2 \in SUBSET Nat
      OBVIOUS
    <3> HIDE DEF Apart2
    <3> QED
      BY <3>1, NatMinExists
  <2>2. n \in Nat /\ loop[n] # d[n] /\ \A i \in 0 .. n - 1 : loop[i] = d[i]
    <3>1. n \in Nat /\ loop[n] # d[n]
      BY <2>1
    <3>2. ASSUME NEW i \in 0 .. n - 1 PROVE loop[i] = d[i]
      <4>1. i \in Nat /\ ~(n <= i)
        BY <3>1
      <4> QED
        BY <2>1, <4>1
    <3> QED
      BY <3>1, <3>2
  <2>3. ~(n < 10)
    BY <1>2, <1>7, <2>2
  <2> DEFINE q == n \div 10
             r == n % 10
  <2>6. q \in Nat /\ r \in 0 .. 9 /\ n = 10 * q + r
    BY <2>2, ModIs
  <2>5. loop[n] = loop[q] \o loop[r] /\ d[n] = d[q] \o d[r]
    BY <1>3, <1>7, <2>2, <2>3
  <2> HIDE DEF q, r
  <2>4. q \in 0 .. n - 1 /\ r \in 0 .. n - 1
    BY <2>2, <2>3, <2>6
  <2> QED
    BY <2>2, <2>4, <2>5
<1> QED
  BY <1>1, <1>6, <1>8

LEMMA NumberUnfolds ==
  ASSUME NEW n \in Nat
  PROVE  /\ intToStr(n) \in Seq(Numerals)
         /\ n < 10 => intToStr(n) = <<Digits[n + 1]>>
         /\ n >= 10 => intToStr(n) = Append(intToStr(n \div 10), Digits[(n % 10) + 1])
<1>1. PICK d \in [Nat -> Seq(Numerals)] :
        \A k \in Nat : d[k] = tensOf(d, numeral, k) /\ intToStr(k) = d[k]
  BY NumbersUnfold
<1> DEFINE q == n \div 10
           r == n % 10
<1>2. q \in Nat /\ r \in 0 .. 9 /\ (n < 10 => n \in 0 .. 9)
  BY ModIs
<1>3. d[n] = IF n < 10 THEN <<numeral[n]>> ELSE Append(d[q], numeral[r])
  BY <1>1 DEF tensOf
<1> HIDE DEF q, r
<1>4. numeral[r] = Digits[r + 1] /\ (n < 10 => numeral[n] = Digits[n + 1])
  BY <1>2, NumeralIs
<1>5. n >= 10 => intToStr(n) = Append(intToStr(q), Digits[r + 1])
  <2>1. intToStr(n) = d[n] /\ intToStr(q) = d[q] /\ (n >= 10 => ~(n < 10))
    BY <1>1, <1>2
  <2> QED
    BY <1>3, <1>4, <2>1
<1> QED
  BY <1>1, <1>3, <1>4, <1>5 DEF q, r

(* Numbers of the panel that are lower than this have eight digits at      *)
(* most.                                                                   *)
tooLong == 100000000

LEMMA NumberLength ==
  ASSUME NEW n \in Nat, n < tooLong
  PROVE  Len(intToStr(n)) \in 1 .. 8
<1> DEFINE length(i) == Len(intToStr(i))
           Upto(m, k) == \A i \in Nat : i < m => length(i) \in 1 .. k
<1>1. ASSUME NEW i \in Nat
      PROVE  /\ i < 10 => length(i) = 1
             /\ i >= 10 => length(i) = length(i \div 10) + 1
             /\ i \div 10 \in Nat /\ 10 * (i \div 10) <= i
  <2> DEFINE q == i \div 10
             g == Digits[(i % 10) + 1]
  <2>1. q \in Nat /\ 10 * q <= i /\ i % 10 \in 0 .. 9
    BY ModIs
  <2>2. i < 10 => length(i) = 1
    BY NumberUnfolds
  <2>3. g \in Numerals
    BY <2>1 DEF Numerals
  <2>4. i >= 10 => intToStr(i) = Append(intToStr(q), g)
    BY NumberUnfolds
  <2> HIDE DEF q, g
  <2>5. intToStr(q) \in Seq(Numerals)
    BY <2>1, NumberUnfolds
  <2>6. i >= 10 => length(i) = length(q) + 1
    BY <2>3, <2>4, <2>5, AppendProperties
  <2> QED
    BY <2>1, <2>2, <2>6 DEF q
<1>2. Upto(10, 1)
  <2> HIDE DEF length
  <2> QED
    BY <1>1
<1>3. ASSUME NEW m \in Nat, NEW k \in Nat \ {0}, Upto(m, k) PROVE Upto(10 * m, k + 1)
  <2> SUFFICES ASSUME NEW i \in Nat, i < 10 * m PROVE length(i) \in 1 .. k + 1
    OBVIOUS
  <2> DEFINE q == i \div 10
  <2>1. /\ q \in Nat /\ 10 * q <= i
        /\ (i < 10 => length(i) = 1) /\ (i >= 10 => length(i) = length(q) + 1)
    BY <1>1
  <2> HIDE DEF q, length
  <2>2. q < m
    BY <2>1
  <2>3. length(q) \in 1 .. k
    BY <1>3, <2>1, <2>2
  <2>4. i < 10 \/ i >= 10
    OBVIOUS
  <2> QED
    BY <2>1, <2>3, <2>4
<1> HIDE DEF Upto
<1>4. Upto(10 * 10, 2)
  BY <1>2, <1>3
<1>5. Upto(10 * 100, 3)
  BY <1>3, <1>4
<1>6. Upto(10 * 1000, 4)
  BY <1>3, <1>5
<1>7. Upto(10 * 10000, 5)
  BY <1>3, <1>6
<1>8. Upto(10 * 100000, 6)
  BY <1>3, <1>7, SMT
<1>9. Upto(10 * 1000000, 7)
  BY <1>3, <1>8, SMT
<1>10. Upto(10 * 10000000, 8)
  BY <1>3, <1>9, SMT
<1>11. Upto(tooLong, 8)
  BY <1>10, SMT DEF tooLong
<1> QED
  BY <1>11 DEF Upto

(* What a reader makes of the first digits of a text.                      *)
ReadsAs(f, s) ==
  /\ f \in [0 .. Len(s) -> Nat] /\ f[0] = 0
  /\ \A k \in 1 .. Len(s) : f[k] = 10 * f[k - 1] + digitOf(s[k])

LEMMA ValueReads ==
  ASSUME NEW s \in Seq(Numerals)
  PROVE  \E f : ReadsAs(f, s) /\ value(s) = f[Len(s)]
<1> DEFINE n == Len(s)
           T == 1 .. n
           g == [q \in T \X Nat |-> 10 * q[2] + digitOf(s[q[1]])]
           pick == [t \in SUBSET T |-> Max(t)]
           Is(it) == it = [t \in SUBSET T |->
                             IF t = {} THEN 0 ELSE 10 * it[t \ {Max(t)}] + digitOf(s[Max(t)])]
<1>1. n \in Nat /\ DOMAIN s = T /\ \A i \in T : digitOf(s[i]) \in 0 .. 9
  <2>1. n \in Nat /\ DOMAIN s = T /\ \A i \in T : s[i] \in Numerals
    BY LenProperties, ElementOfSeq
  <2> QED
    BY <2>1, NumeralIs
<1>2. IsFiniteSet(T)
  BY <1>1, FS_Interval
<1>3. ASSUME NEW t \in SUBSET T, t # {} PROVE Max(t) \in t
  <2>1. t \in SUBSET Int /\ n \in Int /\ \A i \in t : i <= n
    BY <1>1
  <2>2. PICK m \in t : \A i \in t : i <= m
    BY <1>3, <2>1, IntMaxExists
  <2>3. Max(t) = m
    BY <2>1, <2>2, MaxIs
  <2> QED
    BY <2>2, <2>3
<1>4. Picks(pick, T) /\ \A t \in SUBSET T : pick[t] = Max(t)
  BY <1>3 DEF Picks
<1>5. g \in [T \X Nat -> Nat] /\ \A i \in T : \A a \in Nat : g[<<i, a>>] = 10 * a + digitOf(s[i])
  BY <1>1
<1>6. value(s) = (CHOOSE it : Is(it))[T]
  <2>1. value(s) = (CHOOSE it : it = [t \in SUBSET DOMAIN s |->
                      IF t = {} THEN 0 ELSE 10 * it[t \ {Max(t)}] + digitOf(s[Max(t)])])[DOMAIN s]
    BY DEF value, FoldLeft, MapThenFoldSet, digitOf
  <2> QED
    BY <1>1, <2>1
<1> HIDE DEF g, pick, T
<1>7. PICK it : SetRecursive(it, T, Nat, 0, g, pick)
  BY <1>2, <1>4, <1>5, SetRecursion
<1>8. Is(it)
  <2>1. it \in [SUBSET T -> Nat] /\ it[{}] = 0
    BY <1>7 DEF SetRecursive
  <2>2. ASSUME NEW t \in SUBSET T, t # {}
        PROVE  it[t] = 10 * it[t \ {Max(t)}] + digitOf(s[Max(t)])
    <3>1. Max(t) \in T /\ t \ {Max(t)} \in SUBSET T /\ pick[t] = Max(t)
      BY <1>3, <1>4, <2>2
    <3>2. it[t \ {Max(t)}] \in Nat
      BY <2>1, <3>1
    <3>3. it[t] = g[<<pick[t], it[t \ {pick[t]}]>>]
      BY <1>7, <2>2 DEF SetRecursive, Rest
    <3> QED
      BY <1>5, <3>1, <3>2, <3>3
  <2>3. it = [t \in SUBSET T |-> it[t]]
    BY <2>1
  <2> QED
    BY <2>1, <2>2, <2>3
<1> DEFINE e == CHOOSE z : Is(z)
<1>9. Is(e)
  <2> HIDE DEF Is
  <2> QED
    BY <1>8
<1>10. \A t \in SUBSET T : e[t] = IF t = {} THEN 0 ELSE 10 * e[t \ {Max(t)}] + digitOf(s[Max(t)])
  <2> HIDE DEF e
  <2> QED
    BY <1>9
<1>11. value(s) = e[T]
  BY <1>6
<1> HIDE DEF e, Is
<1> DEFINE f == [k \in 0 .. n |-> e[1 .. k]]
<1>12. f[0] = 0
  <2>1. 1 .. 0 = {} /\ {} \in SUBSET T /\ 0 \in 0 .. n
    BY <1>1
  <2> QED
    BY <1>10, <2>1
<1>13. ASSUME NEW k \in 1 .. n PROVE f[k] = 10 * f[k - 1] + digitOf(s[k])
  <2>1. k \in Nat /\ 1 <= k /\ k <= n /\ k \in 0 .. n /\ k - 1 \in 0 .. n
    BY <1>1
  <2>2. 1 .. k \in SUBSET T /\ 1 .. k # {} /\ (1 .. k) \ {k} = 1 .. k - 1
    <3>1. \A i \in 1 .. k : i \in 1 .. n
      BY <1>1, <2>1
    <3>2. k \in 1 .. k /\ \A i : i \in 1 .. k /\ i # k <=> i \in 1 .. k - 1
      BY <2>1
    <3> QED
      BY <3>1, <3>2 DEF T
  <2>3. Max(1 .. k) = k
    <3>1. 1 .. k \in SUBSET Int /\ k \in 1 .. k /\ \A i \in 1 .. k : i <= k
      BY <2>1
    <3> QED
      BY <3>1, MaxIs
  <2> QED
    BY <1>10, <2>1, <2>2, <2>3
<1>14. ASSUME NEW k \in 1 .. n, f[k - 1] \in Nat PROVE f[k] \in Nat
  <2>1. digitOf(s[k]) \in Nat
    BY <1>1 DEF T
  <2>2. f[k] = 10 * f[k - 1] + digitOf(s[k])
    BY <1>13
  <2> HIDE DEF f
  <2> QED
    BY <1>14, <2>1, <2>2
<1>15. f \in [0 .. n -> Nat]
  <2> DEFINE Q == {k \in 0 .. n : f[k] \in Nat}
  <2>1. 0 \in Q
    BY <1>1, <1>12
  <2>2. \A k \in 1 .. n : k - 1 \in Q => k \in Q
    <3> HIDE DEF f
    <3> QED
      BY <1>1, <1>14
  <2> HIDE DEF Q
  <2>3. \A k \in 0 .. n : k \in Q
    BY <1>1, <2>1, <2>2, Induction
  <2>4. \A k \in 0 .. n : e[1 .. k] \in Nat
    BY <2>3 DEF Q
  <2> QED
    BY <2>4
<1>16. value(s) = f[n]
  BY <1>1, <1>11 DEF T
<1> QED
  BY <1>12, <1>13, <1>15, <1>16 DEF ReadsAs

LEMMA ValueIs ==
  /\ value(<<>>) = 0
  /\ \A s \in Seq(Numerals) :
       /\ value(s) \in Nat
       /\ \A c \in Numerals : value(Append(s, c)) = 10 * value(s) + digitOf(c)
<1>1. value(<<>>) = 0
  <2>1. <<>> \in Seq(Numerals) /\ Len(<<>>) = 0
    BY EmptySeq
  <2>2. PICK f : ReadsAs(f, <<>>) /\ value(<<>>) = f[Len(<<>>)]
    BY <2>1, ValueReads
  <2> QED
    BY <2>1, <2>2 DEF ReadsAs
<1>2. ASSUME NEW s \in Seq(Numerals)
      PROVE  /\ value(s) \in Nat
             /\ \A c \in Numerals : value(Append(s, c)) = 10 * value(s) + digitOf(c)
  <2> DEFINE n == Len(s)
  <2>1. PICK f : ReadsAs(f, s) /\ value(s) = f[n]
    BY ValueReads
  <2>2. n \in Nat /\ f \in [0 .. n -> Nat] /\ f[0] = 0
        /\ \A k \in 1 .. n : f[k] = 10 * f[k - 1] + digitOf(s[k])
    BY <2>1, LenProperties DEF ReadsAs
  <2>3. value(s) \in Nat
    BY <2>1, <2>2
  <2>4. ASSUME NEW c \in Numerals PROVE value(Append(s, c)) = 10 * value(s) + digitOf(c)
    <3> DEFINE t == Append(s, c)
    <3>1. /\ t \in Seq(Numerals) /\ Len(t) = n + 1 /\ t[n + 1] = c
          /\ \A k \in 1 .. n : t[k] = s[k]
      BY AppendProperties
    <3> HIDE DEF t
    <3>2. PICK h : ReadsAs(h, t) /\ value(t) = h[n + 1]
      BY <3>1, ValueReads
    <3> HIDE DEF n
    <3>3. h[0] = 0 /\ \A k \in 1 .. n + 1 : h[k] = 10 * h[k - 1] + digitOf(t[k])
      BY <3>1, <3>2 DEF ReadsAs
    <3> DEFINE Q == {k \in 0 .. n : h[k] = f[k]}
    <3>4. 0 \in Q
      BY <2>2, <3>3
    <3>5. ASSUME NEW k \in 1 .. n, k - 1 \in Q PROVE k \in Q
      <4>1. k \in 1 .. n + 1 /\ k \in 0 .. n /\ h[k - 1] = f[k - 1]
        BY <2>2, <3>5
      <4> QED
        BY <2>2, <3>1, <3>3, <4>1
    <3> HIDE DEF Q
    <3>6. \A k \in 0 .. n : k \in Q
      BY <2>2, <3>4, <3>5, Induction
    <3>7. h[n] = f[n]
      BY <2>2, <3>6 DEF Q
    <3>8. h[n + 1] = 10 * h[n] + digitOf(c)
      <4>1. n + 1 \in 1 .. n + 1 /\ (n + 1) - 1 = n
        BY <2>2
      <4> QED
        BY <3>1, <3>3, <4>1
    <3> QED
      BY <2>1, <3>2, <3>7, <3>8 DEF t
  <2> QED
    BY <2>3, <2>4
<1> QED
  BY <1>1, <1>2

(* What is written of a number reads as the number.                        *)
LEMMA NumberReads ==
  ASSUME NEW n \in Nat
  PROVE  intToStr(n) \in Seq(Numerals) /\ value(intToStr(n)) = n
<1> DEFINE Bad == {i \in Nat : value(intToStr(i)) # i}
<1> SUFFICES ASSUME Bad # {} PROVE FALSE
  BY NumberUnfolds
<1>1. PICK i \in Bad : \A k \in Bad : i <= k
  <2>1. Bad \in SUBSET Nat
    OBVIOUS
  <2> HIDE DEF Bad
  <2> QED
    BY <2>1, NatMinExists
<1>2. i \in Nat /\ value(intToStr(i)) # i
  BY <1>1
<1>3. ASSUME NEW k \in 0 .. i - 1 PROVE value(intToStr(k)) = k
  <2>1. k \in Nat /\ ~(i <= k)
    BY <1>2
  <2> QED
    BY <1>1, <2>1
<1>4. CASE i < 10
  <2> DEFINE c == Digits[i + 1]
  <2>1. i \in 0 .. 9
    BY <1>2, <1>4
  <2>2. c \in Numerals /\ digitOf(c) = i
    BY <2>1, NumeralIs DEF Numerals
  <2>3. intToStr(i) = <<c>>
    BY <1>2, <1>4, NumberUnfolds
  <2> HIDE DEF c
  <2>4. <<c>> = Append(<<>>, c) /\ <<>> \in Seq(Numerals)
    BY <2>2, EmptySeq
  <2>5. value(Append(<<>>, c)) = 10 * value(<<>>) + digitOf(c)
    BY <2>2, <2>4, ValueIs
  <2> QED
    BY <1>2, <2>2, <2>3, <2>4, <2>5, ValueIs
<1>5. CASE i >= 10
  <2> DEFINE q == i \div 10
             r == i % 10
             c == Digits[r + 1]
  <2>1. r \in 0 .. 9 /\ i = 10 * q + r /\ q \in Nat
    BY <1>2, ModIs
  <2>2. intToStr(i) = Append(intToStr(q), c)
    BY <1>2, <1>5, NumberUnfolds
  <2> HIDE DEF q, r
  <2>3. q \in 0 .. i - 1
    BY <1>2, <1>5, <2>1
  <2>4. c \in Numerals /\ digitOf(c) = r
    BY <2>1, NumeralIs DEF Numerals
  <2> HIDE DEF c
  <2>5. intToStr(q) \in Seq(Numerals) /\ value(intToStr(q)) = q
    BY <1>3, <2>1, <2>3, NumberUnfolds
  <2>6. value(Append(intToStr(q), c)) = 10 * q + r
    BY <2>4, <2>5, ValueIs
  <2> QED
    BY <1>2, <2>1, <2>2, <2>6
<1> QED
  BY <1>2, <1>4, <1>5

(* A number and what is written before it.                                 *)
label(n) == text(7) \o intToStr(n)

LEMMA LabelIs ==
  ASSUME NEW n \in Nat, n < tooLong
  PROVE  /\ label(n) \in Seq(Graphemes) /\ Len(label(n)) = 7 + Len(intToStr(n))
         /\ Len(intToStr(n)) \in 1 .. 8
         /\ \A i \in 1 .. Len(intToStr(n)) :
              label(n)[7 + i] = intToStr(n)[i] /\ intToStr(n)[i] # " "
<1> DEFINE d == intToStr(n)
           t == text(7)
<1>1. Len(d) \in 1 .. 8
  BY NumberLength
<1>2. d \in Seq(Numerals)
  BY NumberReads
<1>3. \A i \in 1 .. Len(d) : d[i] \in Numerals
  BY <1>2, ElementOfSeq
<1>4. d \in Seq(Graphemes)
  <2>1. \A i \in 1 .. Len(d) : d[i] \in Graphemes
    BY <1>3, NumeralIs
  <2>2. d \in [1 .. Len(d) -> Numerals] /\ Len(d) \in Nat
    BY <1>2, LenProperties
  <2> HIDE DEF d
  <2>3. d \in [1 .. Len(d) -> Graphemes]
    BY <2>1, <2>2
  <2> QED
    BY <2>2, <2>3
<1>5. t \in Seq(Graphemes) /\ Len(t) = 7
  BY TextType
<1> HIDE DEF t, d
<1>6. /\ t \o d \in Seq(Graphemes) /\ Len(t \o d) = 7 + Len(d)
      /\ \A i \in 1 .. Len(t) + Len(d) : (t \o d)[i] = IF i <= Len(t) THEN t[i] ELSE d[i - Len(t)]
  <2>1. /\ t \o d \in Seq(Graphemes) /\ Len(t \o d) = Len(t) + Len(d)
        /\ \A i \in 1 .. Len(t) + Len(d) : (t \o d)[i] = IF i <= Len(t) THEN t[i] ELSE d[i - Len(t)]
    BY <1>4, <1>5, ConcatProperties
  <2> QED
    BY <1>5, <2>1
<1>7. ASSUME NEW i \in 1 .. Len(d) PROVE (t \o d)[7 + i] = d[i] /\ d[i] # " "
  <2>1. 7 + i \in 1 .. Len(t) + Len(d) /\ ~(7 + i <= Len(t)) /\ 7 + i - Len(t) = i
    BY <1>1, <1>5
  <2>2. (t \o d)[7 + i] = d[i]
    BY <1>6, <2>1
  <2> QED
    BY <1>3, <2>2, NumeralIs
<1> QED
  BY <1>1, <1>6, <1>7 DEF label, t, d

(* A row of the panel with a number, on what was there before.             *)
Listed(u, v, row, n) ==
  /\ u \in Views
  /\ \A x \in 0 .. W - 1, y \in 0 .. H - 1 :
       y # row \/ x < scoreX \/ x = W - 1 => cellAt(u, x, y) = cellAt(v, x, y)
  /\ \A x \in scoreX + 7 .. W - 1 :
       cellAt(u, x, row).grapheme = IF x < scoreX + 7 + Len(intToStr(n))
                                    THEN intToStr(n)[x - scoreX - 6]
                                    ELSE cellAt(v, x, row).grapheme

LEMMA NumberView ==
  ASSUME NEW v \in Views, NEW row \in 0 .. H - 1, NEW n \in Nat, n < tooLong
  PROVE  Listed(drawNumber(v, row, n), v, row, n)
<1> DEFINE u == drawNumber(v, row, n)
           s == label(n)
           d == intToStr(n)
           f == "white"
           b == "black"
<1>1. /\ W \in Nat /\ H \in Nat /\ W = 2 * PlayWidth + 20 /\ scoreX = 2 * PlayWidth + 4
      /\ PlayWidth \in Nat
  BY Layout
<1>2. /\ s \in Seq(Graphemes) /\ Len(s) = 7 + Len(d) /\ Len(d) \in 1 .. 8
      /\ \A i \in 1 .. Len(d) : s[7 + i] = d[i]
  BY LabelIs
<1>3. u = string(v, scoreX, row, s, f, b)
  BY DEF drawNumber, label
<1>4. f \in Colors /\ b \in Colors
  BY DEF Colors
<1> HIDE DEF u, s, d, f, b
<1>5. Dyes(s, f, b, ViewCells)
  BY <1>2, <1>4, Dyed
<1>6. scoreX \in 0 .. W - 1 /\ scoreX + Len(s) <= W - 1
  BY <1>1, <1>2
<1>7. Texted(string(v, scoreX, row, s, f, b), v, W, H, ViewCells, scoreX, row, s, f, b)
  <2>1. W \in Nat /\ H \in Nat /\ scoreX + Len(s) <= W /\ v \in Grids(W, H, ViewCells)
    BY <1>1, <1>2, <1>6 DEF Views
  <2> QED
    BY <1>2, <1>5, <1>6, <2>1, TextIs
<1>8. /\ u \in Views
      /\ \A x \in 0 .. W - 1, y \in 0 .. H - 1 :
           cellAt(u, x, y) =
             IF y = row /\ x \in scoreX .. scoreX + Len(s) - 1
             THEN [grapheme |-> s[x - scoreX + 1], foreColor |-> f, backColor |-> b]
             ELSE cellAt(v, x, y)
  BY <1>3, <1>7 DEF Texted, Views
<1>9. ASSUME NEW x \in 0 .. W - 1, NEW y \in 0 .. H - 1, y # row \/ x < scoreX \/ x = W - 1
      PROVE  cellAt(u, x, y) = cellAt(v, x, y)
  <2>1. ~(y = row /\ x \in scoreX .. scoreX + Len(s) - 1)
    BY <1>1, <1>2, <1>6, <1>9
  <2> QED
    BY <1>8, <2>1
<1>10. ASSUME NEW x \in scoreX + 7 .. W - 1
       PROVE  cellAt(u, x, row).grapheme = IF x < scoreX + 7 + Len(d) THEN d[x - scoreX - 6]
                                           ELSE cellAt(v, x, row).grapheme
  <2>1. x \in 0 .. W - 1 /\ x \in Int /\ scoreX \in Int /\ Len(d) \in Int
    BY <1>1, <1>2
  <2>2. CASE x < scoreX + 7 + Len(d)
    <3> DEFINE i == x - scoreX - 6
    <3>1. /\ i \in 1 .. Len(d) /\ x - scoreX + 1 = 7 + i
          /\ x \in scoreX .. scoreX + Len(s) - 1
      BY <1>1, <1>2, <2>1, <2>2
    <3>2. cellAt(u, x, row).grapheme = s[7 + i]
      <4> HIDE DEF i
      <4> QED
        BY <1>8, <2>1, <3>1
    <3>3. s[7 + i] = d[i]
      BY <1>2, <3>1
    <3> QED
      BY <2>2, <3>2, <3>3
  <2>3. CASE ~(x < scoreX + 7 + Len(d))
    <3>1. ~(x \in scoreX .. scoreX + Len(s) - 1)
      BY <1>1, <1>2, <2>1, <2>3
    <3> QED
      BY <1>8, <2>1, <2>3, <3>1
  <2> QED
    BY <2>2, <2>3
<1> QED
  BY <1>8, <1>9, <1>10 DEF Listed, u, d

(* A row of the panel that shows a number.                                 *)
Numbered(u, row, n) ==
  \A x \in scoreX + 7 .. W - 1 :
    cellAt(u, x, row).grapheme = IF x < scoreX + 7 + Len(intToStr(n))
                                 THEN intToStr(n)[x - scoreX - 6] ELSE " "

LEMMA ShownIs ==
  ASSUME NEW u \in Views, NEW row, NEW n \in Nat, n < tooLong, Numbered(u, row, n)
  PROVE  shownNumber(u, row) = n
<1> DEFINE d == intToStr(n)
           c == {x \in scoreX + 7 .. u.width - 1 : cellAt(u, x, row).grapheme # " "}
           k == Len(d)
           lo == scoreX + 7
           hi == scoreX + 6 + k
<1>1. W \in Nat /\ W = 2 * PlayWidth + 20 /\ scoreX = 2 * PlayWidth + 4 /\ PlayWidth \in Nat
  BY Layout
<1>2. d \in Seq(Numerals) /\ value(d) = n /\ Len(d) \in 1 .. 8 /\ \A i \in 1 .. Len(d) : d[i] # " "
  BY NumberReads, LabelIs
<1>3. u.width = W
  BY DEF Views, Grids
<1> HIDE DEF d, c, k
<1>4. scoreX \in Int /\ W \in Int /\ W = scoreX + 16 /\ k \in Int /\ 1 <= k /\ k <= 8
  <2>1. scoreX \in Int /\ W \in Int /\ W = scoreX + 16
    BY <1>1
  <2>2. k \in 1 .. 8
    BY <1>2 DEF k
  <2>3. k \in Int /\ 1 <= k /\ k <= 8
    BY <2>2
  <2> QED
    BY <2>1, <2>3
<1>5. \A x \in scoreX + 7 .. W - 1 :
        cellAt(u, x, row).grapheme = IF x < scoreX + 7 + k THEN d[x - scoreX - 6] ELSE " "
  BY DEF Numbered, d, k
<1>6. ASSUME NEW i \in 1 .. k PROVE cellAt(u, scoreX + 6 + i, row).grapheme = d[i]
  <2> DEFINE x == scoreX + 6 + i
  <2>1. x \in scoreX + 7 .. W - 1 /\ x < scoreX + 7 + k /\ x - scoreX - 6 = i
    BY <1>4
  <2> HIDE DEF x
  <2>2. cellAt(u, x, row).grapheme = d[x - scoreX - 6]
    BY <1>5, <2>1
  <2> QED
    BY <2>1, <2>2 DEF x
<1>7. c = lo .. hi
  <2>1. ASSUME NEW x \in c PROVE x \in lo .. hi
    <3>1. x \in scoreX + 7 .. W - 1
      BY <1>3 DEF c
    <3>2. cellAt(u, x, row).grapheme # " "
      BY DEF c
    <3>3. x < scoreX + 7 + k
      BY <1>5, <3>1, <3>2
    <3>4. x \in Int /\ scoreX + 7 <= x
      BY <1>4, <3>1
    <3> QED
      BY <1>4, <3>3, <3>4
  <2>2. ASSUME NEW x \in lo .. hi PROVE x \in c
    <3> DEFINE i == x - scoreX - 6
    <3>1. i \in 1 .. k /\ scoreX + 6 + i = x /\ x \in scoreX + 7 .. W - 1
      BY <1>4
    <3> HIDE DEF i
    <3>2. cellAt(u, x, row).grapheme = d[i] /\ d[i] # " "
      BY <1>2, <1>6, <3>1 DEF k
    <3> QED
      BY <1>3, <3>1, <3>2 DEF c
  <2> HIDE DEF lo, hi
  <2>3. \A x \in lo .. hi : x \in c
    BY <2>2
  <2>4. \A x \in c : x \in lo .. hi
    BY <2>1
  <2> QED
    BY <2>3, <2>4
<1>8. Cardinality(c) = k
  <2>1. lo \in Int /\ hi \in Int /\ lo <= hi /\ hi - lo + 1 = k
    BY <1>4
  <2> HIDE DEF lo, hi
  <2>2. Cardinality(lo .. hi) = hi - lo + 1
    BY <2>1, FS_Interval
  <2> QED
    BY <1>7, <2>1, <2>2
<1>9. [i \in 1 .. k |-> cellAt(u, scoreX + 6 + i, row).grapheme] = d
  <2>1. d = [i \in 1 .. k |-> d[i]]
    BY <1>2, LenProperties DEF k
  <2> QED
    BY <1>6, <2>1
<1>10. shownNumber(u, row)
       = value([i \in 1 .. Cardinality(c) |-> cellAt(u, scoreX + 6 + i, row).grapheme])
  BY DEF shownNumber, c
<1> QED
  BY <1>2, <1>8, <1>9, <1>10

(* A row of the panel that nothing is written in yet.                      *)
Unwritten(v, row) == \A x \in scoreX + 7 .. W - 1 : cellAt(v, x, row).grapheme = " "

(* The edges of a view that nothing is drawn on.                           *)
Edged(v) ==
  /\ v \in Views
  /\ \A x \in 0 .. W - 1, y \in 0 .. H - 1 :
       x = 0 \/ x = W - 1 \/ y = 0 => cellAt(v, x, y) = blankCell

(* What is left of the panel is the same in both views.                    *)
Beside(u, v) ==
  \A x \in 0 .. W - 1, y \in 0 .. H - 1 : x < scoreX => cellAt(u, x, y) = cellAt(v, x, y)

(* A number of the panel keeps the edges, what is left of the panel and    *)
(* the other rows of the panel, and is what its own row shows.             *)
LEMMA ListedKeeps ==
  ASSUME NEW u, NEW v, NEW row \in 1 .. H - 1, NEW n, Listed(u, v, row, n)
  PROVE  /\ Beside(u, v)
         /\ Edged(v) => Edged(u)
         /\ Unwritten(v, row) => Numbered(u, row, n)
         /\ \A r \in 0 .. H - 1 : r # row =>
              /\ Unwritten(v, r) => Unwritten(u, r)
              /\ \A k : Numbered(v, r, k) => Numbered(u, r, k)
<1>1. /\ W \in Nat /\ H \in Nat /\ W = 2 * PlayWidth + 20 /\ scoreX = 2 * PlayWidth + 4
      /\ PlayWidth \in Nat
  BY Layout
<1>2. 0 < scoreX /\ row # 0 /\ row \in 0 .. H - 1
  BY <1>1
<1>3. \A x \in 0 .. W - 1, y \in 0 .. H - 1 :
        y # row \/ x < scoreX \/ x = W - 1 => cellAt(u, x, y) = cellAt(v, x, y)
  BY DEF Listed
<1>4. \A x \in scoreX + 7 .. W - 1 : x \in 0 .. W - 1
  BY <1>1
<1>5. Beside(u, v)
  BY <1>3 DEF Beside
<1>6. ASSUME Edged(v) PROVE Edged(u)
  <2>1. u \in Views
    BY DEF Listed
  <2>2. ASSUME NEW x \in 0 .. W - 1, NEW y \in 0 .. H - 1, x = 0 \/ x = W - 1 \/ y = 0
        PROVE  cellAt(u, x, y) = blankCell
    <3>1. y # row \/ x < scoreX \/ x = W - 1
      BY <1>2, <2>2
    <3> QED
      BY <1>3, <1>6, <2>2, <3>1 DEF Edged
  <2> QED
    BY <2>1, <2>2 DEF Edged
<1>7. ASSUME Unwritten(v, row) PROVE Numbered(u, row, n)
  BY <1>7 DEF Unwritten, Numbered, Listed
<1>8. ASSUME NEW r \in 0 .. H - 1, r # row
      PROVE  \A x \in scoreX + 7 .. W - 1 : cellAt(u, x, r) = cellAt(v, x, r)
  BY <1>3, <1>4, <1>8
<1>9. ASSUME NEW r \in 0 .. H - 1, r # row
      PROVE  /\ Unwritten(v, r) => Unwritten(u, r)
             /\ \A k : Numbered(v, r, k) => Numbered(u, r, k)
  BY <1>8, <1>9 DEF Unwritten, Numbered
<1> QED
  BY <1>5, <1>6, <1>7, <1>9

(* Numbers that the panel has room for.                                    *)
Fitting(m) == m.score < tooLong /\ m.rowsCleared < tooLong /\ m.level < tooLong

LEMMA PanelShown ==
  ASSUME NEW m, Sound(m), m.state # "Intro", Fitting(m)
  PROVE  /\ Edged(draw(m)) /\ Beside(draw(m), overView(m))
         /\ Numbered(draw(m), scoreY, m.score)
         /\ Numbered(draw(m), scoreY + 2, m.rowsCleared)
         /\ Numbered(draw(m), scoreY + 4, m.level)
<1> DEFINE v == overView(m)
           u1 == drawNumber(v, scoreY, m.score)
           u2 == drawNumber(u1, scoreY + 2, m.rowsCleared)
           u3 == drawNumber(u2, scoreY + 4, m.level)
           r1 == scoreY
           r2 == scoreY + 2
           r3 == scoreY + 4
           n1 == m.score
           n2 == m.rowsCleared
           n3 == m.level
<1>1. draw(m) = u3
  BY DEF draw, overView, playView, fieldView, blankView, W, H
<1>2. /\ W \in Nat /\ H \in Nat /\ W = 2 * PlayWidth + 20 /\ H = PlayHeight + 1
      /\ scoreX = 2 * PlayWidth + 4 /\ scoreY = 1
      /\ PlayWidth \in Nat /\ PlayHeight \in Nat /\ PlayHeight >= 9
  BY Layout
<1>3. /\ r1 \in 1 .. H - 1 /\ r2 \in 1 .. H - 1 /\ r3 \in 1 .. H - 1
      /\ r1 \in 0 .. H - 1 /\ r2 \in 0 .. H - 1 /\ r3 \in 0 .. H - 1
      /\ r1 # r2 /\ r1 # r3 /\ r2 # r3
  BY <1>2
<1>4. /\ n1 \in Nat /\ n1 < tooLong /\ n2 \in Nat /\ n2 < tooLong
      /\ n3 \in Nat /\ n3 < tooLong
  BY DEF Sound, IsModel, Fitting
<1>5. Framed(v)
  BY OverFramed
<1>6. Edged(v)
  <2>1. \A x \in 0 .. W - 1, y \in 0 .. H - 1 : x = 0 \/ x = W - 1 \/ y = 0 => ~Inner(x, y)
    BY <1>2 DEF Inner
  <2> QED
    BY <1>5, <2>1 DEF Framed, Edged
<1>7. \A r \in 0 .. H - 1 : Unwritten(v, r)
  <2> SUFFICES ASSUME NEW r \in 0 .. H - 1, NEW x \in scoreX + 7 .. W - 1
               PROVE  cellAt(v, x, r).grapheme = " "
    BY DEF Unwritten
  <2>1. x \in 0 .. W - 1 /\ ~Inner(x, r)
    BY <1>2 DEF Inner
  <2>2. cellAt(v, x, r) = blankCell
    BY <1>5, <2>1 DEF Framed
  <2>3. blankCell.grapheme = " "
    BY DEF blankCell
  <2> QED
    BY <2>2, <2>3
<1>8. u1 = drawNumber(v, r1, n1) /\ u2 = drawNumber(u1, r2, n2) /\ u3 = drawNumber(u2, r3, n3)
  OBVIOUS
<1> HIDE DEF v, u1, u2, u3, r1, r2, r3, n1, n2, n3
<1>9. Listed(u1, v, r1, n1)
  <2>1. v \in Views
    BY <1>5 DEF Framed
  <2>2. Listed(drawNumber(v, r1, n1), v, r1, n1)
    BY <1>3, <1>4, <2>1, NumberView
  <2> QED
    BY <1>8, <2>2
<1>10. Listed(u2, u1, r2, n2)
  <2>1. u1 \in Views
    BY <1>9 DEF Listed
  <2>2. Listed(drawNumber(u1, r2, n2), u1, r2, n2)
    BY <1>3, <1>4, <2>1, NumberView
  <2> QED
    BY <1>8, <2>2
<1>11. Listed(u3, u2, r3, n3)
  <2>1. u2 \in Views
    BY <1>10 DEF Listed
  <2>2. Listed(drawNumber(u2, r3, n3), u2, r3, n3)
    BY <1>3, <1>4, <2>1, NumberView
  <2> QED
    BY <1>8, <2>2
<1>12. /\ Beside(u1, v) /\ Edged(u1) /\ Numbered(u1, r1, n1)
       /\ Unwritten(u1, r2) /\ Unwritten(u1, r3)
  BY <1>3, <1>6, <1>7, <1>9, ListedKeeps
<1>13. /\ Beside(u2, u1) /\ Edged(u2) /\ Numbered(u2, r1, n1) /\ Numbered(u2, r2, n2)
       /\ Unwritten(u2, r3)
  BY <1>3, <1>10, <1>12, ListedKeeps
<1>14. /\ Beside(u3, u2) /\ Edged(u3) /\ Numbered(u3, r1, n1) /\ Numbered(u3, r2, n2)
       /\ Numbered(u3, r3, n3)
  BY <1>3, <1>11, <1>13, ListedKeeps
<1>15. Beside(u3, v)
  BY <1>12, <1>13, <1>14 DEF Beside
<1> QED
  BY <1>1, <1>14, <1>15 DEF v, r1, r2, r3, n1, n2, n3
-----------------------------------------------------------------------------
(* The texts of the intro fit, whatever the order they are written in.     *)
introLine(y, length, color) == [y |-> y, length |-> length, color |-> color]

introLines ==
  {introLine(1, 8, "white"), introLine(3, 32, "gray"), introLine(4, 23, "gray"),
   introLine(5, 25, "gray"), introLine(6, 23, "gray"), introLine(7, 16, "gray"),
   introLine(9, 23, "white")}

introString(l, v) == string(v, 2, l.y, text(l.length), l.color, "black")

EdgedViews == {v \in Views : Edged(v)}

LEMMA IntroLinesFit ==
  /\ IsFiniteSet(introLines)
  /\ \A l \in introLines : /\ l.y \in 1 .. 9 /\ l.length \in 8 .. 32
                           /\ l.color \in Colors
<1>1. IsFiniteSet({}) /\ \A S, x : IsFiniteSet(S) => IsFiniteSet(S \cup {x})
  BY FS_EmptySet, FS_AddElement
<1>2. ASSUME NEW a, NEW b, NEW c, NEW d, NEW e, NEW f, NEW g
      PROVE  IsFiniteSet({a, b, c, d, e, f, g})
  <2>1. IsFiniteSet(((((((({} \cup {a}) \cup {b}) \cup {c}) \cup {d}) \cup {e}) \cup {f}) \cup {g}))
    BY <1>1
  <2>2. {a, b, c, d, e, f, g}
        = (((((({} \cup {a}) \cup {b}) \cup {c}) \cup {d}) \cup {e}) \cup {f}) \cup {g}
    OBVIOUS
  <2> QED
    BY <2>1, <2>2
<1>3. IsFiniteSet(introLines)
  BY <1>2 DEF introLines
<1>4. \A l \in introLines : l.y \in 1 .. 9 /\ l.length \in 8 .. 32 /\ l.color \in Colors
  BY DEF introLines, introLine, Colors
<1> QED
  BY <1>3, <1>4

LEMMA IntroString ==
  ASSUME NEW l \in introLines, NEW v \in EdgedViews
  PROVE  introString(l, v) \in EdgedViews
<1> DEFINE u == introString(l, v)
           n == l.length
           s == text(n)
           f == l.color
           b == "black"
           x0 == 2
           y0 == l.y
<1>1. u = string(v, x0, y0, s, f, b)
  BY DEF introString
<1>2. /\ W \in Nat /\ H \in Nat /\ W = 2 * PlayWidth + 20 /\ H = PlayHeight + 1
      /\ PlayWidth \in Nat /\ PlayHeight \in Nat /\ PlayWidth >= 8 /\ PlayHeight >= 9
  BY Layout
<1>3. y0 \in 1 .. 9 /\ n \in 8 .. 32 /\ f \in Colors /\ b \in Colors
  BY IntroLinesFit DEF Colors
<1> HIDE DEF n
<1>4. s \in Seq(Graphemes) /\ Len(s) = n /\ n \in Nat
  <2>1. n \in Nat
    BY <1>3
  <2> QED
    BY <2>1, TextType
<1> HIDE DEF y0, s
<1>5. x0 \in 0 .. W - 1 /\ y0 \in 0 .. H - 1 /\ x0 + n <= W
  BY <1>2, <1>3
<1>6. W \in Nat /\ H \in Nat /\ v \in Grids(W, H, ViewCells)
  BY <1>2 DEF EdgedViews, Views
<1>7. \A x \in 0 .. W - 1, y \in 0 .. H - 1 :
        x = 0 \/ x = W - 1 \/ y = 0 => ~(y = y0 /\ x \in x0 .. x0 + n - 1)
  BY <1>2, <1>3
<1> HIDE DEF u, f, b, x0
<1>8. Dyes(s, f, b, ViewCells)
  BY <1>3, <1>4, Dyed
<1>9. Texted(string(v, x0, y0, s, f, b), v, W, H, ViewCells, x0, y0, s, f, b)
  BY <1>4, <1>5, <1>6, <1>8, TextIs
<1>10. u \in Views /\ Edged(u)
  BY <1>4, <1>1, <1>7, <1>9 DEF Texted, Views, EdgedViews, Edged
<1> QED
  BY <1>10 DEF EdgedViews, u

LEMMA IntroEdged == Edged(drawIntro(blankView))
<1> DEFINE T == introLines
           A == EdgedViews
           v == blankView
           g == [q \in T \X A |-> introString(q[1], q[2])]
           pick == [t \in SUBSET T |-> CHOOSE p \in t : TRUE]
           Is(it) == it = [t \in SUBSET T |->
                             IF t = {} THEN v
                             ELSE introString(CHOOSE p \in t : TRUE,
                                              it[t \ {CHOOSE p \in t : TRUE}])]
<1>1. Picks(pick, T) /\ IsFiniteSet(T)
  BY IntroLinesFit DEF Picks
<1>2. v \in A
  BY BlankView DEF EdgedViews, Edged
<1>3. drawIntro(v) = (CHOOSE it : Is(it))[T]
  BY DEF drawIntro, introLines, introLine, introString, FoldSet, MapThenFoldSet
<1> HIDE DEF T, A, v
<1>4. g \in [T \X A -> A] /\ \A p \in T : \A u \in A : g[<<p, u>>] = introString(p, u)
  BY IntroString DEF T, A
<1>5. PICK it : SetRecursive(it, T, A, v, g, pick)
  <2> HIDE DEF pick, g
  <2> QED
    BY <1>1, <1>2, <1>4, SetRecursion
<1>6. Is(it)
  <2>1. it \in [SUBSET T -> A] /\ it[{}] = v
    BY <1>5 DEF SetRecursive
  <2>2. ASSUME NEW t \in SUBSET T, t # {} PROVE it[t] = introString(pick[t], it[t \ {pick[t]}])
    <3>1. pick[t] \in T /\ t \ {pick[t]} \in SUBSET T
      BY <2>2
    <3>2. it[t \ {pick[t]}] \in A
      BY <2>1, <3>1
    <3>3. it[t] = g[<<pick[t], it[t \ {pick[t]}]>>]
      BY <1>5, <2>2 DEF SetRecursive, Rest
    <3> HIDE DEF pick, g
    <3> QED
      BY <1>4, <3>1, <3>2, <3>3
  <2> HIDE DEF g
  <2> QED
    BY <2>1, <2>2
<1> DEFINE all == CHOOSE e : Is(e)
<1>7. Is(all)
  <2> HIDE DEF Is
  <2> QED
    BY <1>6
<1>8. /\ all[{}] = v
      /\ \A t \in SUBSET T :
           t # {} => pick[t] \in t /\ all[t] = introString(pick[t], all[t \ {pick[t]}])
  <2> HIDE DEF all
  <2> QED
    BY <1>7
<1>9. drawIntro(v) = all[T]
  BY <1>3 DEF all
<1> HIDE DEF all, pick, g, Is
<1> DEFINE Q == {t \in SUBSET T : all[t] \in A}
<1>10. {} \in Q
  BY <1>2, <1>8
<1>11. \A t \in SUBSET T : t # {} => \E p \in t : t \ {p} \in Q => t \in Q
  <2> SUFFICES ASSUME NEW t \in SUBSET T, t # {}, t \ {pick[t]} \in Q PROVE t \in Q
    BY <1>8
  <2>1. pick[t] \in t /\ all[t] = introString(pick[t], all[t \ {pick[t]}])
    BY <1>8
  <2>2. all[t \ {pick[t]}] \in A
    OBVIOUS
  <2>3. all[t] \in A
    BY <2>1, <2>2, IntroString DEF T, A
  <2> QED
    BY <2>3
<1> HIDE DEF Q
<1>12. T \in Q
  <2>1. \A t \in SUBSET T : t \in Q
    BY <1>1, <1>10, <1>11, SetInduction, Zenon
  <2> QED
    BY <2>1
<1>13. drawIntro(v) \in A
  BY <1>9, <1>12 DEF Q
<1> QED
  BY <1>13 DEF A, v, EdgedViews
-----------------------------------------------------------------------------
(* No number of the game has more digits than the panel has columns.       *)
NumbersFit == Fitting(model)

(* EdgesBlank: whatever is drawn, in the intro, in the game and after it,  *)
(* the edges of the view stay blank, at every size of the game, so no text *)
(* goes on in the next row and the first row never changes (draw,          *)
(* drawIntro, drawGameOver, drawNumber, string, rect).                     *)
THEOREM EdgesStayBlank == Spec => [](NumbersFit => EdgesBlank)
<1>1. Sound(model) => (NumbersFit => EdgesBlank)
  <2> SUFFICES ASSUME Sound(model), NumbersFit PROVE EdgesBlank
    OBVIOUS
  <2> DEFINE u == draw(model)
  <2>1. Edged(u)
    <3>1. CASE model.state = "Intro"
      <4>1. u = drawIntro(blankView)
        BY <3>1 DEF draw, blankView, W, H
      <4> QED
        BY <4>1, IntroEdged
    <3>2. CASE model.state # "Intro"
      BY <3>2, PanelShown DEF NumbersFit
    <3> QED
      BY <3>1, <3>2
  <2> HIDE DEF u
  <2>2. W \in Nat /\ H \in Nat /\ 0 \in 0 .. W - 1 /\ 0 \in 0 .. H - 1 /\ W - 1 \in 0 .. W - 1
    BY Layout
  <2>3. u.width = W /\ u.height = H
    BY <2>1 DEF Edged, Views, Grids
  <2>4. /\ \A x \in 0 .. u.width - 1 : cellAt(u, x, 0) = blankCell
        /\ \A y \in 0 .. u.height - 1 :
             cellAt(u, 0, y) = blankCell /\ cellAt(u, u.width - 1, y) = blankCell
    BY <2>1, <2>2, <2>3 DEF Edged
  <2> QED
    BY <2>4 DEF EdgesBlank, u
<1> QED
  BY <1>1, SoundInvariant, PTL

(* FieldShown: the block and the debris, and nothing else, are where they  *)
(* belong, for any shapes and any debris; at a width beyond the program's  *)
(* own the background of the message, four cells of the view for each of   *)
(* the game's, would come back into the area (drawBlock, drawGameOver).    *)
THEOREM FieldStaysShown ==
  ASSUME PlayWidth <= 10
  PROVE  Spec => [](NumbersFit => FieldShown)
<1>1. Sound(model) => (NumbersFit => FieldShown)
  <2> SUFFICES ASSUME Sound(model), NumbersFit, model.state # "Intro",
                      NEW c \in Cells, c.y + 1 \notin covered
               PROVE  LET color == IF c \in model.block \cup DOMAIN model.debris
                                   THEN "block" ELSE "field"
                      IN  /\ cellAt(draw(model), 2 * c.x + 2, c.y + 1).backColor = color
                          /\ cellAt(draw(model), 2 * c.x + 3, c.y + 1).backColor = color
    BY DEF FieldShown
  <2> DEFINE u == draw(model)
             v == overView(model)
             k == model.block \cup DOMAIN model.debris
             x1 == 2 * c.x + 2
             x2 == 2 * c.x + 3
             y == c.y + 1
  <2>1. Beside(u, v)
    BY PanelShown DEF NumbersFit
  <2>2. Fielded(v, k, covered)
    <3>1. covered = IF model.state = "GameOver" THEN messageRows ELSE {}
      BY DEF covered, messageRows
    <3> QED
      BY <3>1, OverFramed
  <2>3. /\ W \in Nat /\ H \in Nat /\ W = 2 * PlayWidth + 20 /\ H = PlayHeight + 1
        /\ scoreX = 2 * PlayWidth + 4 /\ PlayWidth \in Nat /\ PlayHeight \in Nat
    BY Layout
  <2>4. /\ c.x \in Int /\ c.y \in Int /\ 0 <= c.x /\ c.x <= PlayWidth - 1
        /\ 0 <= c.y /\ c.y <= PlayHeight - 1
    BY CellsType
  <2>5. /\ x1 \in 0 .. W - 1 /\ x2 \in 0 .. W - 1 /\ y \in 0 .. H - 1
        /\ x1 < scoreX /\ x2 < scoreX /\ Field(x1, y) /\ Field(x2, y)
    BY <2>3, <2>4 DEF Field
  <2>6. k \in SUBSET Cells
    BY EmptyBlock DEF Sound, Placed
  <2>7. ASSUME NEW p \in k, y = p.y + 1,
               x1 \in 2 * p.x + 2 .. 2 * p.x + 3 \/ x2 \in 2 * p.x + 2 .. 2 * p.x + 3
        PROVE  p = c
    <3>1. p \in Cells
      BY <2>6
    <3>2. p.x \in Int /\ p.y \in Int
      BY <3>1, CellsType
    <3>3. p.x = c.x /\ p.y = c.y
      BY <2>4, <2>7, <3>2
    <3> QED
      BY <3>1, <3>3 DEF Cells
  <2>8. c \in k => Square(k, x1, y) /\ Square(k, x2, y)
    <3>1. x1 \in 2 * c.x + 2 .. 2 * c.x + 3 /\ x2 \in 2 * c.x + 2 .. 2 * c.x + 3
      BY <2>4
    <3> QED
      BY <3>1 DEF Square
  <2>9. (Square(k, x1, y) <=> c \in k) /\ (Square(k, x2, y) <=> c \in k)
    BY <2>7, <2>8 DEF Square
  <2> HIDE DEF u, v, k, x1, x2
  <2>10. /\ cellAt(u, x1, y).backColor = cellAt(v, x1, y).backColor
         /\ cellAt(u, x2, y).backColor = cellAt(v, x2, y).backColor
    BY <2>1, <2>5 DEF Beside
  <2>11. /\ cellAt(v, x1, y).backColor = IF c \in k THEN "block" ELSE "field"
         /\ cellAt(v, x2, y).backColor = IF c \in k THEN "block" ELSE "field"
    BY <2>2, <2>5, <2>9 DEF Fielded
  <2> QED
    BY <2>10, <2>11 DEF u, k, x1, x2
<1> QED
  BY <1>1, SoundInvariant, PTL

(* NumbersShown: the digits of a number, read from the panel, are the      *)
(* number, for every number that fits, and no row overwrites another or    *)
(* leaves digits of its own behind (drawNumber, intToStr).                 *)
THEOREM NumbersStayShown == Spec => [](NumbersFit => NumbersShown)
<1>1. Sound(model) => (NumbersFit => NumbersShown)
  <2> SUFFICES ASSUME Sound(model), NumbersFit, model.state # "Intro"
               PROVE  /\ shownNumber(draw(model), scoreY) = model.score
                      /\ shownNumber(draw(model), scoreY + 2) = model.rowsCleared
                      /\ shownNumber(draw(model), scoreY + 4) = model.level
    BY DEF NumbersShown
  <2> DEFINE u == draw(model)
             n1 == model.score
             n2 == model.rowsCleared
             n3 == model.level
             r1 == scoreY
             r2 == scoreY + 2
             r3 == scoreY + 4
  <2>1. u \in Views /\ Numbered(u, r1, n1) /\ Numbered(u, r2, n2) /\ Numbered(u, r3, n3)
    BY PanelShown DEF NumbersFit, Edged
  <2>2. /\ n1 \in Nat /\ n1 < tooLong /\ n2 \in Nat /\ n2 < tooLong
        /\ n3 \in Nat /\ n3 < tooLong
    BY DEF Sound, IsModel, NumbersFit, Fitting
  <2> HIDE DEF u, n1, n2, n3, r1, r2, r3
  <2>3. shownNumber(u, r1) = n1 /\ shownNumber(u, r2) = n2 /\ shownNumber(u, r3) = n3
    BY <2>1, <2>2, ShownIs
  <2> QED
    BY <2>3 DEF u, n1, n2, n3, r1, r2, r3
<1> QED
  BY <1>1, SoundInvariant, PTL
=============================================================================
