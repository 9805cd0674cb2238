-------------------------------- MODULE Draw --------------------------------
(***************************************************************************)
(* The function draw of game/roctris.roc: the view of a model.             *)
(*                                                                         *)
(* Only the numbers of the panel are spelled out; any other text is as     *)
(* many letters as it has.  The blocks of the game have one colour here.   *)
(***************************************************************************)
EXTENDS Roctris, View, SequencesExt

(* The texts are written for a playable area that is not much smaller.     *)
ASSUME DrawAssumption == PlayWidth >= 8 /\ PlayHeight >= 9

playSize == vec2(PlayWidth, PlayHeight)

(* Two cells of the terminal make a square.                                *)
playToRenderScale == vec2(2, 1)

playToRenderPosition(p) == vec2(p.x * playToRenderScale.x, p.y * playToRenderScale.y)

viewportSize == add(playToRenderPosition(playSize), vec2(20, 1))

border           == playToRenderScale
renderPlayMin    == add(playToRenderPosition(playMin), border)
renderPlayMax    == add(playToRenderPosition(playMax), border)
renderPlaySize   == playToRenderPosition(playSize)
renderPlayCenter == add(playToRenderPosition(midpoint(playMin, playMax)), border)

scoreX == renderPlayMax.x + 4
scoreY == renderPlayMin.y

text(length) == [i \in 1 .. length |-> "letter"]

Digits == <<"0", "1", "2", "3", "4", "5", "6", "7", "8", "9">>

(* Variant: a remainder of zero is left out.                               *)
intToStr_NoZeros(num) ==
  LET loop[n \in Nat] ==
        IF n < 10 THEN <<Digits[n + 1]>>
        ELSE loop[n \div 10] \o (IF n % 10 = 0 THEN <<>> ELSE loop[n % 10])
  IN  loop[num]

intToStr(num) ==
  LET loop[n \in Nat] ==
        IF n < 10 THEN <<Digits[n + 1]>> ELSE loop[n \div 10] \o loop[n % 10]
  IN  loop[num]

(* Variants: the border is forgotten; a point is one cell wide.            *)
drawBlock_Narrow(view, block) ==
  points(view, <<" ">>, "black", "block",
         {add(playToRenderPosition(p), playToRenderScale) : p \in block})

drawBlock_NoBorder(view, block) ==
  points(view, <<" ", " ">>, "black", "block",
         {playToRenderPosition(p) : p \in block})

drawBlock(view, block) ==
  points(view, <<" ", " ">>, "black", "block",
         {add(playToRenderPosition(p), playToRenderScale) : p \in block})

drawIntro(view) ==
  LET line(y, length, color) == [y |-> y, length |-> length, color |-> color]
      lines == {line(1, 8, "white"), line(3, 32, "gray"), line(4, 23, "gray"),
                line(5, 25, "gray"), line(6, 23, "gray"), line(7, 16, "gray"),
                line(9, 23, "white")}
  IN  FoldSet(LAMBDA l, v : string(v, 2, l.y, text(l.length), l.color, "black"),
              view, lines)

(* The background is as wide as if its two blanks were one cell.           *)
drawGameOver(view, state) ==
  LET background == [x |-> renderPlayMin.x, y |-> renderPlayCenter.y - 2,
                     w |-> renderPlaySize.x * 2, h |-> 5]
      cleared    == rect(view, background, <<" ", " ">>, "black", "black")
      titled     == string(cleared, renderPlayMin.x + 5, renderPlayCenter.y - 1,
                           text(9), "white", "black")
  IN  IF state = "GameOver"
      THEN string(titled, 1, renderPlayCenter.y + 1, text(18), "gray", "black")
      ELSE view

drawNumber(view, y, number) ==
  string(view, scoreX, y, text(7) \o intToStr(number), "white", "black")

draw(m) ==
  LET blank  == init(viewportSize.x, viewportSize.y, " ", "black", "black")
      field  == rect(blank, [x |-> renderPlayMin.x, y |-> renderPlayMin.y,
                             w |-> renderPlaySize.x, h |-> renderPlaySize.y],
                     <<" ">>, "black", "field")
      blocks == drawBlock(drawBlock(field, m.block), DOMAIN m.debris)
      score  == drawNumber(drawGameOver(blocks, m.state), scoreY, m.score)
      lines  == drawNumber(score, scoreY + 2, m.rowsCleared)
  IN  IF m.state = "Intro" THEN drawIntro(blank) ELSE drawNumber(lines, scoreY + 4, m.level)
-----------------------------------------------------------------------------
(* Properties.                                                             *)

blankCell == [grapheme |-> " ", foreColor |-> "black", backColor |-> "black"]

(* Nothing that is drawn reaches the edge of the view, where it would go   *)
(* on in the next row or, behind the last, in the first cell: the texts    *)
(* fit, and what the background of the end of the game spills over is      *)
(* blank.  The renderer relies on a first row that never changes.          *)
EdgesBlank ==
  LET view == draw(model)
  IN  /\ \A x \in 0 .. view.width - 1 : cellAt(view, x, 0) = blankCell
      /\ \A y \in 0 .. view.height - 1 :
           cellAt(view, 0, y) = blankCell /\ cellAt(view, view.width - 1, y) = blankCell

(* The rows of the view that the end of the game covers.                   *)
covered ==
  IF model.state = "GameOver" THEN renderPlayCenter.y - 2 .. renderPlayCenter.y + 2 ELSE {}

(* Every cell of the game is on the screen where it belongs, two cells     *)
(* wide, and nothing else is, at the borders of the playable area, too;    *)
(* after the game the message covers it.                                   *)
FieldShown ==
  LET view == draw(model)
      shown(x, y, color) == /\ cellAt(view, 2 * x + 2, y + 1).backColor = color
                            /\ cellAt(view, 2 * x + 3, y + 1).backColor = color
  IN  model.state # "Intro" =>
        \A c \in Cells : c.y + 1 \notin covered =>
          shown(c.x, c.y, IF c \in model.block \cup DOMAIN model.debris THEN "block" ELSE "field")

value(graphemes) ==
  FoldLeft(LAMBDA n, g : 10 * n + (CHOOSE d \in 0 .. 9 : Digits[d + 1] = g), 0, graphemes)

(* The number that a player reads in a row of the panel.                   *)
shownNumber(view, y) ==
  LET columns == {x \in scoreX + 7 .. view.width - 1 : cellAt(view, x, y).grapheme # " "}
  IN  value([i \in 1 .. Cardinality(columns) |-> cellAt(view, scoreX + 6 + i, y).grapheme])

(* What the panel shows are the score, the rows cleared and the level, all *)
(* of their digits and no others, whatever is drawn after them or below.   *)
NumbersShown ==
  LET view == draw(model)
  IN  model.state # "Intro" =>
        /\ shownNumber(view, scoreY) = model.score
        /\ shownNumber(view, scoreY + 2) = model.rowsCleared
        /\ shownNumber(view, scoreY + 4) = model.level
=============================================================================
