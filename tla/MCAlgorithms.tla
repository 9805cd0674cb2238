---------------------------- MODULE MCAlgorithms ----------------------------
(***************************************************************************)
(* The algorithms without state, each on every input of a small instance:  *)
(* the turns of a block (game/Block.roc), the rectangles and strings of a  *)
(* view (game/View.roc), and decimal numbers (RocDec of roc_std).  The     *)
(* input of one of them is the state: a block that is turned and moved, a  *)
(* view that is drawn on, a text that is typed, or a number.               *)
(***************************************************************************)
EXTENDS Block, View, RocDec

CONSTANTS GridSize, MaxShift,                \* bounds of the points and of the moves
          Width, Height, MaxSize, MaxDrawn,  \* the view, and bounds of what is drawn
          MaxTyped                           \* bound of the text

ASSUME AlgorithmsAssumption ==
  /\ GridSize \in Nat /\ MaxShift \in Nat
  /\ Width \in Nat /\ Height \in Nat /\ MaxSize \in Nat /\ MaxDrawn \in Nat
  /\ MaxTyped \in Nat

VARIABLE input

isBlock   == input.kind = "block"
isView    == input.kind = "view"
isText    == input.kind = "text"
isDecimal == input.kind = "decimal"

Grid   == [x : 0 .. GridSize - 1, y : 0 .. GridSize - 1]
Shifts == [x : -MaxShift .. MaxShift, y : -MaxShift .. MaxShift]
Near(p) == p \in [x : -MaxShift .. GridSize, y : -MaxShift .. GridSize]

Strings == {<<"a">>, <<"a", "b">>, <<"a", "b", "c">>}
Blank == init(Width, Height, " ", "black", "black")
Rects == [x : 0 .. Width, y : 0 .. Height, w : 0 .. MaxSize, h : 0 .. MaxSize]

Characters == {"0", "1", "2", "8", "+", "-", "_", ".", "x"}

Init ==
  \/ input \in [kind : {"block"}, block : SUBSET Grid]
  \/ input = [kind |-> "view", view |-> Blank, drawn |-> 0]
  \/ input = [kind |-> "text", text |-> <<>>]
  \/ input \in [kind : {"decimal"}, number : MIN .. MAX]

Turn ==
  \E turned \in {rotateClockwise(input.block), rotateCounterClockwise(input.block)} :
    input' = [input EXCEPT !.block = turned]

Move == \E shift \in Shifts : input' = [input EXCEPT !.block = translate(@, shift)]

DrawRect ==
  \E r \in Rects, s \in Strings :
    input' = [input EXCEPT !.view = rect(@, r, s, "white", "black"), !.drawn = @ + 1]

DrawString ==
  \E x \in 0 .. Width, y \in 0 .. Height, s \in Strings :
    input' = [input EXCEPT !.view = string(@, x, y, s, "white", "black"), !.drawn = @ + 1]

Type == \E c \in Characters : input' = [input EXCEPT !.text = Append(@, c)]

Next ==
  \/ isBlock /\ (Turn \/ Move) /\ \A p \in input'.block : Near(p)
  \/ isView /\ input.drawn < MaxDrawn /\ (DrawRect \/ DrawString)
  \/ isText /\ Len(input.text) < MaxTyped /\ Type

Spec == Init /\ [][Next]_input
-----------------------------------------------------------------------------
(* Blocks.                                                                 *)

(* The two turns of Block.roc undo each other, and four turns one way are  *)
(* none, although the centre about which the block turns is rounded.       *)
TurnsReturn ==
  isBlock =>
    LET b == input.block
    IN  /\ rotateCounterClockwise(rotateClockwise(b)) = b
        /\ rotateClockwise(rotateCounterClockwise(b)) = b
        /\ rotateClockwise(rotateClockwise(rotateClockwise(rotateClockwise(b)))) = b

(* A turn keeps the number of points and the rounded centre of a block and *)
(* exchanges its width and height: it never drifts while it is turned.     *)
TurnKeepsPlace ==
  isBlock =>
    LET b == input.block
    IN  \A turned \in {rotateClockwise(b), rotateCounterClockwise(b)} :
          /\ Cardinality(turned) = Cardinality(b)
          /\ boundsCenter(turned) = boundsCenter(b)
          /\ size(turned) = vec2(size(b).y, size(b).x)

(* The turn of a block that was moved is the turned block, moved: where a  *)
(* block is does not change how it turns.                                  *)
TurnCommutesWithMove ==
  isBlock =>
    \A shift \in Shifts :
      rotateClockwise(translate(input.block, shift)) =
        translate(rotateClockwise(input.block), shift)
-----------------------------------------------------------------------------
(* Views.                                                                  *)

(* The recursion of the code: rectColumns draws one copy of the string     *)
(* after the other and counts the columns, rectRows one row after the      *)
(* other.                                                                  *)
nextCopy(d, x, y, w, s) ==
  LET n == IF Len(s) <= w - d.count THEN Len(s) ELSE w - d.count
  IN  IF d.count < w
      THEN [view  |-> string(d.view, x + d.count, y, SubSeq(s, 1, n), "white", "black"),
            count |-> d.count + n]
      ELSE d

columns(v, x, y, w, s) ==
  LET drawn[k \in 0 .. w] ==
        IF k = 0 THEN [view |-> v, count |-> 0] ELSE nextCopy(drawn[k - 1], x, y, w, s)
  IN  drawn[w].view

rectRecursion(v, r, s) ==
  LET rows[h \in 0 .. r.h] ==
        IF h = 0 THEN v ELSE columns(rows[h - 1], r.x, r.y + h - 1, r.w, s)
  IN  rows[r.h]

(* A rectangle is what the recursion of the code draws, the copies of the  *)
(* string that lie outside of the grid included (rectColumns, rectRows).   *)
RectIsRecursion ==
  isView =>
    \A r \in Rects, s \in Strings :
      rect(input.view, r, s, "white", "black") = rectRecursion(input.view, r, s)

(* A rectangle that fits in the grid changes its own cells, all of them,   *)
(* and no others, although a row of it is drawn as a string that the code  *)
(* does not keep from running on into the next row.                        *)
RectExact ==
  isView =>
    \A r \in Rects, s \in Strings :
      r.x + r.w <= Width /\ r.y + r.h <= Height =>
        LET v == rect(input.view, r, s, "red", "red")
        IN  \A x \in 0 .. Width - 1, y \in 0 .. Height - 1 :
              IF x \in r.x .. r.x + r.w - 1 /\ y \in r.y .. r.y + r.h - 1
              THEN cellAt(v, x, y).backColor = "red"
              ELSE cellAt(v, x, y) = cellAt(input.view, x, y)
-----------------------------------------------------------------------------
(* Decimal numbers.                                                        *)

(* What to_str writes, from_str reads back: every number, the smallest,    *)
(* which has no opposite, and those without a digit before the point too;  *)
(* and what it writes of an integer is the integer, without a point.       *)
DecimalRoundTrip ==
  isDecimal =>
    /\ from_str(to_str(input.number)) = {input.number}
    /\ \A value \in -MAX .. MAX :
         from_i32(value) = input.number => parse(to_str(input.number)) = {value}

(* A text without its sign is split at the first point; the underscores    *)
(* before the point do not count.                                          *)
pointOf(body) ==
  CHOOSE n \in 0 .. Len(body) :
    /\ \A i \in 1 .. n : body[i] # "."
    /\ n = Len(body) \/ body[n + 1] = "."

withoutUnderscores(s) ==
  LET kept[i \in 0 .. Len(s)] ==
        IF i = 0 THEN <<>> ELSE IF s[i] = "_" THEN kept[i - 1] ELSE Append(kept[i - 1], s[i])
  IN  kept[Len(s)]

whole(body)  == withoutUnderscores(SubSeq(body, 1, pointOf(body)))
places(body) == SubSeq(body, pointOf(body) + 2, Len(body))
zeros(n)     == [i \in 1 .. n |-> "0"]

(* As many digits after the point as there are decimal places.             *)
fraction(body) == SubSeq(places(body) \o zeros(DecimalPlaces), 1, DecimalPlaces)

isNumeral(body) ==
  /\ pointOf(body) < Len(body) => places(body) # <<>>
  /\ \A i \in DOMAIN whole(body) : isDigit(whole(body)[i])
  /\ \A i \in DOMAIN fraction(body) : isDigit(fraction(body)[i])
  /\ \A i \in DOMAIN places(body) : places(body)[i] # "."

ReadExactly(t) ==
  LET body  == withoutSign(t)
      value == number(whole(body) \o fraction(body))
  IN  ~startsWith(places(body), {"+", "-"}) =>
        from_str(t) = IF ~isNumeral(body) THEN {}
                      ELSE checked(IF startsWith(t, {"-"}) THEN -value ELSE value)

(* A numeral is read as all of its digits in one row, with as many after   *)
(* the point as there are decimal places: it has this value, or none if    *)
(* the value does not fit, whatever overflows on the way; any other text   *)
(* has none (from_str).  A sign after the point is left aside: it is read. *)
DecimalExact == isText => ReadExactly(input.text)
=============================================================================
