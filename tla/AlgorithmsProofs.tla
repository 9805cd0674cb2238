--------------------------- MODULE AlgorithmsProofs ---------------------------
(***************************************************************************)
(* Theorems about the algorithms without state: the turns of a block, the  *)
(* rectangles of a view, and decimal numbers, for blocks, moves, views,    *)
(* rectangles, texts and numbers of every size.                            *)
(*                                                                         *)
(* What a recursive function computes over a sequence is unfolded once for *)
(* all (FoldedIs): each such function of RocDec then has a lemma that says *)
(* what it makes of a sequence with one more element (NumberIs, KeptIs,    *)
(* HiIs, DecimalIs), and the rest follows by induction over the sequence.  *)
(***************************************************************************)
EXTENDS MCAlgorithms, GridProofs

-----------------------------------------------------------------------------
(* Rectangles.                                                             *)

(* A row without columns, and a row that is one copy longer.               *)
LEMMA NoColumns ==
  ASSUME NEW w \in Nat, NEW h \in Nat, NEW S, NEW v \in Grids(w, h, S),
         NEW G, NEW s \in Seq(G), s # <<>>, NEW f, NEW b, Dyes(s, f, b, S),
         NEW x \in Nat, NEW y \in Nat
  PROVE  rectColumns(v, x, y, 0, s, f, b) = v
<1> DEFINE spilled == spill(y * w + x, w * h, 0, Len(s))
           row     == rectColumns(v, x, y, 0, s, f, b)
           idx     == y * w + x
           n       == w * h
<1>1. spilled = 0
  <2>1. outside(y * w + x, w * h, 0, Len(s)) = {}
    BY DEF outside
  <2> QED
    BY <2>1, NoSpill
<1>2. /\ row \in Grids(w, h, S)
      /\ \A i \in 0 .. w * h - 1 :
           row.cells[i] = banded(v.cells, idx, n, 0, dyed(s, f, b), spilled, i)
  <2>1. 0 \in Nat
    OBVIOUS
  <2>2. RowIs(row, w, h, S, v, x, y, 0, s, f, b)
    BY <2>1, RectColumnsIs
  <2> QED
    BY <2>2 DEF RowIs
<1> HIDE DEF row, spilled
<1>3. \A i \in 0 .. w * h - 1 : row.cells[i] = v.cells[i]
  BY <1>1, <1>2 DEF banded
<1> QED
  BY <1>2, <1>3, SameGrid DEF row

LEMMA NextColumns ==
  ASSUME NEW w \in Nat, NEW h \in Nat, NEW S, NEW v \in Grids(w, h, S),
         NEW G, NEW s \in Seq(G), s # <<>>, NEW f, NEW b, Dyes(s, f, b, S),
         NEW x \in Nat, NEW y \in Nat,
         NEW c \in Nat, Multiple(c, Len(s)), NEW m \in 1 .. Len(s)
  PROVE  /\ rectColumns(v, x, y, c, s, f, b) \in Grids(w, h, S)
         /\ rectColumns(v, x, y, c + m, s, f, b) \in Grids(w, h, S)
         /\ string(rectColumns(v, x, y, c, s, f, b), x + c, y, SubSeq(s, 1, m), f, b) =
              rectColumns(v, x, y, c + m, s, f, b)
<1> DEFINE len == Len(s)
           idx == y * w + x
           n   == w * h
           d   == c + m
           g   == dyed(s, f, b)
           was == spill(idx, n, c, len)
           is  == spill(idx, n, d, len)
           row  == rectColumns(v, x, y, c, s, f, b)
           long == rectColumns(v, x, y, d, s, f, b)
           copy == SubSeq(s, 1, m)
           drawn == string(row, x + c, y, copy, f, b)
<1>1. /\ len \in Nat \ {0} /\ idx \in Nat /\ n \in Nat /\ d \in Nat /\ m \in Nat
      /\ c < d /\ d <= c + len /\ d - c = m /\ x + c \in Nat /\ m <= len
  BY EmptySeq, LenProperties
<1>2. /\ was \in {0, len}
      /\ idx + c < n => was = 0 /\ is = 0
      /\ idx + c >= n => is = IF was = len THEN len ELSE m
  <2> HIDE DEF idx, n, d, len
  <2>1. Multiple(c, len)
    BY DEF len
  <2>2. len \in Nat \ {0} /\ idx \in Nat /\ n \in Nat /\ d \in Nat /\ c < d /\ d <= c + len
    BY <1>1
  <2>3. /\ was \in {0, len}
        /\ idx + c < n => was = 0 /\ is = 0
        /\ idx + c >= n => is = IF was = len THEN len ELSE d - c
    BY <2>1, <2>2, SpillIs
  <2> HIDE DEF was, is
  <2> QED
    BY <1>1, <2>3
<1>4. /\ row \in Grids(w, h, S)
      /\ \A i \in 0 .. n - 1 : row.cells[i] = banded(v.cells, idx, n, c, g, was, i)
  <2>1. RowIs(row, w, h, S, v, x, y, c, s, f, b)
    BY RectColumnsIs
  <2> QED
    BY <2>1 DEF RowIs
<1>5. /\ long \in Grids(w, h, S)
      /\ \A i \in 0 .. n - 1 : long.cells[i] = banded(v.cells, idx, n, d, g, is, i)
  <2>1. d \in Nat
    BY <1>1
  <2> HIDE DEF d
  <2>2. RowIs(long, w, h, S, v, x, y, d, s, f, b)
    BY <2>1, RectColumnsIs
  <2> QED
    BY <2>2 DEF RowIs
<1>6. /\ copy \in Seq(G) /\ Len(dyed(copy, f, b)) = m /\ Dyes(copy, f, b, S)
      /\ \A j \in 1 .. m : dyed(copy, f, b)[j] = g[j]
  <2>0. m \in 0 .. Len(s)
    BY <1>1
  <2>1. /\ copy \in Seq(G) /\ Len(dyed(copy, f, b)) = m
        /\ \A j \in 1 .. m : dyed(copy, f, b)[j] = g[j]
    BY <2>0, FirstDyed
  <2>2. Len(copy) = m
    BY <2>0, FirstIs
  <2>3. Dyes(copy, f, b, S)
    <3>1. \A j \in 1 .. m : j \in 1 .. Len(s)
      BY <1>1
    <3> QED
      BY <2>1, <2>2, <3>1 DEF Dyes
  <2> QED
    BY <2>1, <2>3
<1> HIDE DEF row, long, copy
<1>7. /\ drawn \in Grids(w, h, S)
      /\ \A i \in 0 .. n - 1 :
           drawn.cells[i] = painted(row.cells, IF idx + c < n THEN idx + c ELSE 0, dyed(copy, f, b), i)
  <2> DEFINE far == x + c
  <2>1. far \in Nat
    BY <1>1
  <2> HIDE DEF far
  <2>2. /\ string(row, far, y, copy, f, b) \in Grids(w, h, S)
        /\ \A i \in 0 .. w * h - 1 :
             string(row, far, y, copy, f, b).cells[i] =
               painted(row.cells, positionToIndex(row, far, y), dyed(copy, f, b), i)
    <3>1. row \in Grids(w, h, S) /\ copy \in Seq(G) /\ Dyes(copy, f, b, S)
      BY <1>4, <1>6
    <3>2. Written(string(row, far, y, copy, f, b), w, h, S, row,
                  positionToIndex(row, far, y), copy, f, b)
      BY <2>1, <3>1, StringIs
    <3> QED
      BY <3>2 DEF Written
  <2>3. positionToIndex(row, far, y) = IF y * w + far < w * h THEN y * w + far ELSE 0
    BY <1>4, IndexIs
  <2>4. y * w + far = idx + c
    BY DEF far
  <2> QED
    BY <2>2, <2>3, <2>4 DEF far
<1> HIDE DEF drawn, g
<1>8. ASSUME NEW i \in 0 .. n - 1 PROVE drawn.cells[i] = long.cells[i]
  <2> DEFINE cells == v.cells
  <2>1. /\ row.cells[i] = banded(cells, idx, n, c, g, was, i)
        /\ long.cells[i] = banded(cells, idx, n, d, g, is, i)
        /\ drawn.cells[i] = painted(row.cells, IF idx + c < n THEN idx + c ELSE 0, dyed(copy, f, b), i)
    BY <1>4, <1>5, <1>7
  <2> HIDE DEF cells, was, is, idx, n, d, len
  <2>2. Len(g) = len
    BY DyedIs DEF g, len
  <2>3. i \in Nat /\ i < n
    BY <1>1
  <2>4. CASE idx + c < n
    <3>1. was = 0 /\ is = 0
      BY <1>2, <2>4
    <3>2. CASE i - (idx + c) \in 0 .. m - 1
      <4>1. /\ i - (idx + c) + 1 \in 1 .. m /\ i - (idx + c) \in 0 .. len - 1
            /\ i - idx \in 0 .. d - 1 /\ i - idx = c + (i - (idx + c)) /\ ~(i < 0) /\ idx < n
        BY <1>1, <2>3, <2>4, <3>2
      <4>2. (c + (i - (idx + c))) % len = i - (idx + c)
        <5>1. c % len = 0
          BY DEF len, Multiple
        <5> QED
          BY <1>1, <4>1, <5>1, ModShift
      <4>3. drawn.cells[i] = g[i - (idx + c) + 1]
        BY <1>6, <2>1, <2>4, <3>2, <4>1 DEF painted
      <4>4. long.cells[i] = g[((i - idx) % len) + 1]
        BY <2>1, <2>2, <3>1, <4>1 DEF banded
      <4> QED
        BY <4>1, <4>2, <4>3, <4>4
    <3>3. CASE ~(i - (idx + c) \in 0 .. m - 1)
      <4>1. drawn.cells[i] = row.cells[i]
        BY <1>6, <2>1, <2>4, <3>3 DEF painted
      <4>2. i - idx \in 0 .. c - 1 <=> i - idx \in 0 .. d - 1
        BY <1>1, <2>3, <3>3
      <4> QED
        BY <2>1, <3>1, <4>1, <4>2 DEF banded
    <3> QED
      BY <3>2, <3>3
  <2>5. CASE ~(idx + c < n)
    <3>1. is = IF was = len THEN len ELSE m
      BY <1>1, <1>2, <2>5
    <3>2. idx < n => (i - idx \in 0 .. c - 1 <=> i - idx \in 0 .. d - 1)
      BY <1>1, <2>3, <2>5
    <3>3. CASE i < m
      <4>1. i - 0 \in 0 .. m - 1 /\ i - 0 + 1 = i + 1 /\ i + 1 \in 1 .. m /\ i < is
        BY <1>1, <2>3, <3>1, <3>3
      <4>2. drawn.cells[i] = g[i + 1]
        BY <1>6, <2>1, <2>5, <4>1 DEF painted
      <4>3. long.cells[i] = g[i + 1]
        BY <2>1, <4>1 DEF banded
      <4> QED
        BY <4>2, <4>3
    <3>4. CASE ~(i < m)
      <4>1. ~(i - 0 \in 0 .. m - 1) /\ (i < is <=> i < was)
        BY <1>1, <1>2, <2>3, <3>1, <3>4
      <4>2. drawn.cells[i] = row.cells[i]
        BY <1>6, <2>1, <2>5, <4>1 DEF painted
      <4> QED
        BY <2>1, <2>2, <3>2, <4>1, <4>2 DEF banded
    <3> QED
      BY <3>3, <3>4
  <2> QED
    BY <2>4, <2>5
<1>9. drawn = long
  BY <1>4, <1>5, <1>7, <1>8, SameGrid
<1> QED
  BY <1>4, <1>5, <1>9 DEF row, long, drawn, copy

(* The copies that rectColumns draws one after the other are the row: with *)
(* each copy, the columns that were counted are drawn.                     *)
LEMMA ColumnsAre ==
  ASSUME NEW w \in Nat, NEW h \in Nat, NEW S, NEW v \in Grids(w, h, S),
         NEW G, NEW s \in Seq(G), s # <<>>, Dyes(s, "white", "black", S),
         NEW x \in Nat, NEW y \in Nat, NEW z \in Nat
  PROVE  columns(v, x, y, z, s) = rectColumns(v, x, y, z, s, "white", "black")
<1> DEFINE len    == Len(s)
           row(c) == rectColumns(v, x, y, c, s, "white", "black")
           D(c)   == [view |-> row(c), count |-> c]
           Counts == {c \in 0 .. z : c = z \/ Multiple(c, len)}
           A      == {D(c) : c \in Counts}
           next(d) == nextCopy(d, x, y, z, s)
           Is(f)  == f = [k \in 0 .. z |-> IF k = 0 THEN [view |-> v, count |-> 0] ELSE next(f[k - 1])]
           g      == [p \in A \X (1 .. z) |-> next(p[1])]
<1>1. len \in Nat \ {0}
  BY EmptySeq
<1>2. D(0) = [view |-> v, count |-> 0] /\ D(0) \in A
  <2>1. row(0) = v
    BY NoColumns
  <2>2. 0 \in Counts
    <3>1. 0 % len = 0
      BY <1>1
    <3> QED
      BY <3>1 DEF Multiple
  <2> QED
    BY <2>1, <2>2
<1>3. ASSUME NEW c \in Counts
      PROVE  \E d \in Counts : next(D(c)) = D(d) /\ (d = z \/ c + 1 <= d)
  <2>1. CASE c = z
    <3>1. D(c).count = z
      BY <2>1
    <3> HIDE DEF D
    <3>2. next(D(c)) = D(c)
      BY <3>1 DEF nextCopy
    <3> QED
      BY <2>1, <3>2
  <2>2. CASE c # z
    <3> DEFINE m == IF len <= z - c THEN len ELSE z - c
               d == c + m
    <3>1. c \in Nat /\ c < z /\ Multiple(c, len)
      BY <2>2
    <3>2. m \in 1 .. len /\ d \in 0 .. z /\ c + 1 <= d
      BY <1>1, <3>1
    <3>3. d \in Counts
      <4>1. CASE len <= z - c
        <5>1. c % len = 0
          BY <3>1 DEF Multiple
        <5> HIDE DEF len
        <5>2. (c + len) % len = 0
          BY <1>1, <3>1, <5>1, ModNext
        <5> QED
          BY <3>2, <4>1, <5>2 DEF Multiple
      <4>2. CASE ~(len <= z - c)
        BY <3>1, <3>2, <4>2
      <4> QED
        BY <4>1, <4>2
    <3> HIDE DEF m
    <3>4. string(row(c), x + c, y, SubSeq(s, 1, m), "white", "black") = row(d)
      BY <3>1, <3>2, NextColumns
    <3>5. next(D(c)) = [view  |-> string(row(c), x + c, y, SubSeq(s, 1, m), "white", "black"),
                        count |-> c + m]
      <4> HIDE DEF row
      <4> QED
        BY <3>1 DEF nextCopy, m
    <3> QED
      BY <3>2, <3>3, <3>4, <3>5
  <2> QED
    BY <2>1, <2>2
<1> HIDE DEF D, Counts, next
<1>4. g \in Steps(A, z)
  BY <1>3 DEF Steps
<1>5. \E f : Is(f)
  <2> HIDE DEF A, g
  <2>1. D(0) \in A
    BY <1>2
  <2>2. PICK f : Recursive(f, A, D(0), g, z)
    BY <1>4, <2>1, Recursion
  <2>3. /\ f \in [0 .. z -> A] /\ f[0] = D(0)
        /\ \A k \in 1 .. z : f[k] = g[<<f[k - 1], k>>]
    BY <2>2 DEF Recursive
  <2>4. ASSUME NEW k \in 0 .. z
        PROVE  f[k] = IF k = 0 THEN [view |-> v, count |-> 0] ELSE next(f[k - 1])
    <3>1. CASE k = 0
      BY <1>2, <2>3, <3>1
    <3>2. CASE k # 0
      <4>1. k - 1 \in 0 .. z /\ k \in 1 .. z
        BY <3>2
      <4>2. f[k - 1] \in A
        BY <2>3, <4>1
      <4>3. g[<<f[k - 1], k>>] = next(f[k - 1])
        BY <4>1, <4>2 DEF g
      <4> QED
        BY <2>3, <3>2, <4>3
    <3> QED
      BY <3>1, <3>2
  <2>5. f = [k \in 0 .. z |-> f[k]]
    BY <2>3
  <2>6. Is(f)
    BY <2>4, <2>5
  <2> QED
    BY <2>6
<1> DEFINE drawn == CHOOSE f : Is(f)
<1>6. columns(v, x, y, z, s) = drawn[z].view
  BY DEF columns, next
<1>7. Is(drawn)
  <2> HIDE DEF Is
  <2> QED
    BY <1>5
<1> HIDE DEF drawn
<1>8. drawn[0] = D(0) /\ \A k \in 1 .. z : drawn[k] = next(drawn[k - 1])
  <2>1. /\ 0 \in 0 .. z /\ \A k \in 1 .. z : k \in 0 .. z /\ k # 0
    OBVIOUS
  <2> QED
    BY <1>2, <1>7, <2>1
<1> DEFINE T == {k \in 0 .. z : \E c \in Counts : drawn[k] = D(c) /\ (c = z \/ k <= c)}
<1>9. 0 \in T
  <2>1. 0 \in Counts
    <3>1. 0 % len = 0
      BY <1>1
    <3> QED
      BY <3>1 DEF Counts, Multiple
  <2> QED
    BY <1>8, <2>1
<1>10. ASSUME NEW k \in 1 .. z, k - 1 \in T PROVE k \in T
  <2>1. PICK c \in Counts : drawn[k - 1] = D(c) /\ (c = z \/ k - 1 <= c)
    BY <1>10
  <2>2. PICK d \in Counts : next(D(c)) = D(d) /\ (d = z \/ c + 1 <= d)
    BY <1>3
  <2>3. drawn[k] = D(d)
    BY <1>8, <2>1, <2>2
  <2>4. c \in 0 .. z /\ d \in 0 .. z
    BY DEF Counts
  <2>5. d = z \/ k <= d
    BY <2>1, <2>2, <2>4
  <2> QED
    BY <2>3, <2>5
<1> HIDE DEF T
<1>11. z \in T
  <2>1. \A k \in 1 .. z : k - 1 \in T => k \in T
    BY <1>10
  <2>2. \A k \in 0 .. z : k \in T
    BY <1>9, <2>1, Induction
  <2> QED
    BY <2>2
<1>12. drawn[z] = D(z)
  <2>1. PICK c \in Counts : drawn[z] = D(c) /\ (c = z \/ z <= c)
    BY <1>11 DEF T
  <2>2. c \in 0 .. z
    BY DEF Counts
  <2> QED
    BY <2>1, <2>2
<1> QED
  BY <1>6, <1>12 DEF D

(* The recursion of the code draws the same rectangle.                     *)
LEMMA RecursionIsRect ==
  ASSUME NEW w \in Nat, NEW h \in Nat, NEW S, NEW v \in Grids(w, h, S),
         NEW G, NEW s \in Seq(G), s # <<>>, Dyes(s, "white", "black", S), NEW r \in Drawable
  PROVE  rectRecursion(v, r, s) = rect(v, r, s, "white", "black")
<1> DEFINE A == Grids(w, h, S)
           g == nextRow(w, h, S, r, s, "white", "black")
           Is(q) == q = [k \in 0 .. r.h |->
                           IF k = 0 THEN v
                           ELSE columns(q[k - 1], r.x, r.y + k - 1, r.w, s)]
<1>1. r.h \in Nat /\ r.w \in Nat /\ r.x \in Nat
  BY DEF Drawable
<1>2. PICK rows : Recursive(rows, A, v, g, r.h) /\ rect(v, r, s, "white", "black") = rows[r.h]
  BY RowsAre
<1>3. /\ rows \in [0 .. r.h -> A] /\ rows[0] = v
      /\ \A k \in 1 .. r.h : rows[k] = g[<<rows[k - 1], k>>]
  BY <1>2 DEF Recursive
<1>4. ASSUME NEW u \in A, NEW k \in 1 .. r.h
      PROVE  g[<<u, k>>] = columns(u, r.x, r.y + k - 1, r.w, s)
  <2>1. g[<<u, k>>] = rectColumns(u, r.x, r.y + k - 1, r.w, s, "white", "black")
    BY NextRow
  <2> DEFINE y == r.y + k - 1
  <2>2. y \in Nat
    BY DEF Drawable
  <2> HIDE DEF y
  <2>3. columns(u, r.x, y, r.w, s) = rectColumns(u, r.x, y, r.w, s, "white", "black")
    BY <1>1, <2>2, ColumnsAre
  <2> QED
    BY <2>1, <2>3 DEF y
<1> HIDE DEF A, g
<1>5. Is(rows)
  <2>1. rows = [k \in 0 .. r.h |-> rows[k]]
    BY <1>3
  <2>2. ASSUME NEW k \in 1 .. r.h
        PROVE  rows[k] = columns(rows[k - 1], r.x, r.y + k - 1, r.w, s)
    <3>1. k - 1 \in 0 .. r.h
      BY <1>1
    <3>2. rows[k - 1] \in A
      BY <1>3, <3>1
    <3> QED
      BY <1>3, <1>4, <3>1, <3>2
  <2>3. \A k \in 0 .. r.h : k # 0 => k \in 1 .. r.h
    BY <1>1
  <2> QED
    BY <1>3, <2>1, <2>2, <2>3
<1>6. ASSUME NEW q, Is(q) PROVE q[r.h] = rows[r.h]
  <2> DEFINE T == {k \in 0 .. r.h : q[k] = rows[k]}
  <2>1. 0 \in T
    <3>1. 0 \in 0 .. r.h
      BY <1>1
    <3> QED
      BY <1>3, <1>6, <3>1
  <2>2. \A k \in 1 .. r.h : k - 1 \in T => k \in T
    <3> SUFFICES ASSUME NEW k \in 1 .. r.h, k - 1 \in T PROVE k \in T
      OBVIOUS
    <3>1. k \in 0 .. r.h /\ k # 0 /\ k - 1 \in 0 .. r.h /\ q[k - 1] = rows[k - 1]
      BY <1>1
    <3>2. rows[k - 1] \in A /\ rows[k] = g[<<rows[k - 1], k>>]
      BY <1>3, <3>1
    <3>3. q[k] = columns(q[k - 1], r.x, r.y + k - 1, r.w, s)
      BY <1>6, <3>1
    <3>4. q[k] = rows[k]
      BY <1>4, <3>1, <3>2, <3>3
    <3> QED
      BY <3>1, <3>4
  <2> HIDE DEF T
  <2>3. \A k \in 0 .. r.h : k \in T
    BY <1>1, <2>1, <2>2, Induction
  <2>4. r.h \in 0 .. r.h
    BY <1>1
  <2> QED
    BY <2>3, <2>4 DEF T
<1>7. rectRecursion(v, r, s) = (CHOOSE q : Is(q))[r.h]
  BY DEF rectRecursion
<1> HIDE DEF Is
<1>8. Is(CHOOSE q : Is(q))
  BY <1>5
<1> QED
  BY <1>2, <1>6, <1>7, <1>8
-----------------------------------------------------------------------------
(* Recursion over a sequence, and induction: the step takes what the       *)
(* sequence without its last element gives.                                *)

LEMMA Snoc ==
  ASSUME NEW S, NEW s \in Seq(S), NEW k \in 1 .. Len(s)
  PROVE  /\ SubSeq(s, 1, k - 1) \in Seq(S) /\ s[k] \in S
         /\ SubSeq(s, 1, k) = Append(SubSeq(s, 1, k - 1), s[k])
<1>1. Len(s) \in Nat /\ \A i \in 1 .. Len(s) : s[i] \in S
  BY LenProperties, ElementOfSeq
<1>2. /\ SubSeq(s, 1, k) \in Seq(S) /\ Len(SubSeq(s, 1, k)) = k
      /\ \A i \in 1 .. k : SubSeq(s, 1, k)[i] = s[i]
  <2>1. \A i \in 1 .. k : s[i] \in S
    BY <1>1
  <2> QED
    BY <2>1, SubSeqProperties
<1>3. /\ SubSeq(s, 1, k - 1) \in Seq(S) /\ Len(SubSeq(s, 1, k - 1)) = k - 1
      /\ \A i \in 1 .. k - 1 : SubSeq(s, 1, k - 1)[i] = s[i]
  <2>1. \A i \in 1 .. k - 1 : s[i] \in S
    BY <1>1
  <2>2. IF 1 <= k - 1 THEN k - 1 - 1 + 1 = k - 1 ELSE 0 = k - 1
    OBVIOUS
  <2>3. k - 1 - 1 + 1 = k - 1 /\ \A i \in 1 .. k - 1 : 1 + i - 1 = i
    OBVIOUS
  <2> QED
    BY <2>1, <2>2, <2>3, SubSeqProperties
<1> DEFINE p == SubSeq(s, 1, k - 1)
<1>4. /\ Append(p, s[k]) \in Seq(S) /\ Len(Append(p, s[k])) = k
      /\ \A i \in 1 .. k - 1 : Append(p, s[k])[i] = s[i]
      /\ Append(p, s[k])[k] = s[k]
  BY <1>1, <1>3, AppendProperties
<1>5. \A i \in 1 .. k : SubSeq(s, 1, k)[i] = Append(p, s[k])[i]
  BY <1>2, <1>4
<1> HIDE DEF p
<1>6. SubSeq(s, 1, k) = Append(p, s[k])
  BY <1>2, <1>4, <1>5, SeqEqual
<1> QED
  BY <1>1, <1>3, <1>6 DEF p

LEMMA SeqInduction ==
  ASSUME NEW S, NEW T, <<>> \in T,
         \A s \in Seq(S) : \A c \in S : s \in T => Append(s, c) \in T
  PROVE  \A s \in Seq(S) : s \in T
<1> SUFFICES ASSUME NEW s \in Seq(S) PROVE s \in T
  OBVIOUS
<1> DEFINE U == {k \in 0 .. Len(s) : SubSeq(s, 1, k) \in T}
<1>1. Len(s) \in Nat /\ SubSeq(s, 1, 0) = <<>> /\ SubSeq(s, 1, Len(s)) = s
  BY LenProperties, SubSeqEmpty, SubSeqFull
<1>2. 0 \in U
  <2>1. 0 \in 0 .. Len(s)
    BY <1>1
  <2>2. SubSeq(s, 1, 0) \in T
    BY <1>1
  <2> QED
    BY <2>1, <2>2
<1>3. ASSUME NEW k \in 1 .. Len(s), k - 1 \in U PROVE k \in U
  <2>1. SubSeq(s, 1, k - 1) \in T
    BY <1>3
  <2>2. /\ SubSeq(s, 1, k - 1) \in Seq(S) /\ s[k] \in S
        /\ SubSeq(s, 1, k) = Append(SubSeq(s, 1, k - 1), s[k])
    BY Snoc
  <2>3. SubSeq(s, 1, k) \in T
    BY <2>1, <2>2
  <2>4. k \in 0 .. Len(s)
    BY <1>1
  <2> QED
    BY <2>3, <2>4
<1> HIDE DEF U
<1>4. \A k \in 0 .. Len(s) : k \in U
  BY <1>1, <1>2, <1>3, Induction
<1>5. Len(s) \in U
  BY <1>1, <1>4
<1> QED
  BY <1>1, <1>5 DEF U

(* f holds what each prefix of s gives.                                    *)
step(g, v, c) == g[<<v, c>>]

Folds(f, A, S, a, g, s) ==
  /\ f \in [0 .. Len(s) -> A] /\ f[0] = a
  /\ \A i \in 1 .. Len(s) : f[i] = g[<<f[i - 1], s[i]>>]

folded(A, S, a, g, s) == (CHOOSE f : Folds(f, A, S, a, g, s))[Len(s)]

LEMMA FoldsIs ==
  ASSUME NEW A, NEW S, NEW a \in A, NEW g \in [A \X S -> A], NEW s \in Seq(S)
  PROVE  /\ \E f : Folds(f, A, S, a, g, s)
         /\ \A f : Folds(f, A, S, a, g, s) => f[Len(s)] = folded(A, S, a, g, s)
<1> DEFINE n == Len(s)
           h == [q \in A \X (1 .. n) |-> g[<<q[1], s[q[2]]>>]]
<1>1. n \in Nat /\ \A i \in 1 .. n : s[i] \in S
  BY LenProperties, ElementOfSeq
<1>2. h \in Steps(A, n)
  <2>1. ASSUME NEW q \in A \X (1 .. n) PROVE g[<<q[1], s[q[2]]>>] \in A
    <3>1. <<q[1], s[q[2]]>> \in A \X S
      BY <1>1
    <3> QED
      BY <3>1
  <2> QED
    BY <2>1 DEF Steps
<1>3. PICK f : Recursive(f, A, a, h, n)
  <2> HIDE DEF h
  <2> QED
    BY <1>1, <1>2, Recursion
<1>4. Folds(f, A, S, a, g, s)
  <2>1. f \in [0 .. n -> A] /\ f[0] = a /\ \A k \in 1 .. n : f[k] = h[<<f[k - 1], k>>]
    BY <1>3 DEF Recursive
  <2>2. ASSUME NEW k \in 1 .. n PROVE f[k] = g[<<f[k - 1], s[k]>>]
    <3>1. k - 1 \in 0 .. n
      BY <1>1
    <3>2. <<f[k - 1], k>> \in A \X (1 .. n)
      BY <2>1, <3>1
    <3>3. h[<<f[k - 1], k>>] = g[<<f[k - 1], s[k]>>]
      BY <3>2
    <3> QED
      BY <2>1, <3>3
  <2> QED
    BY <2>1, <2>2 DEF Folds
<1>5. ASSUME NEW e, NEW f2, Folds(e, A, S, a, g, s), Folds(f2, A, S, a, g, s)
      PROVE  e[Len(s)] = f2[Len(s)]
  <2> DEFINE T == {k \in 0 .. n : e[k] = f2[k]}
  <2>1. 0 \in T
    BY <1>1, <1>5 DEF Folds
  <2>2. ASSUME NEW k \in 1 .. n, k - 1 \in T PROVE k \in T
    <3>1. e[k] = g[<<e[k - 1], s[k]>>] /\ f2[k] = g[<<f2[k - 1], s[k]>>]
      BY <1>5 DEF Folds
    <3>2. e[k - 1] = f2[k - 1] /\ k \in 0 .. n
      BY <1>1, <2>2
    <3> QED
      BY <3>1, <3>2
  <2> HIDE DEF T
  <2> HIDE DEF n
  <2>4. n \in Nat
    BY <1>1
  <2>5. \A k \in 0 .. n : k \in T
    BY <2>1, <2>2, <2>4, Induction
  <2>3. n \in T
    BY <2>4, <2>5
  <2> QED
    BY <2>3 DEF T, n
<1> QED
  BY <1>4, <1>5 DEF folded

Unfolds(A, S, a, g) ==
  /\ folded(A, S, a, g, <<>>) = a
  /\ \A s \in Seq(S) :
       /\ folded(A, S, a, g, s) \in A
       /\ \A c \in S : folded(A, S, a, g, Append(s, c)) = step(g, folded(A, S, a, g, s), c)

LEMMA FoldedIs ==
  ASSUME NEW A, NEW S, NEW a \in A, NEW g \in [A \X S -> A]
  PROVE  Unfolds(A, S, a, g)
<1>1. folded(A, S, a, g, <<>>) = a
  <2>1. <<>> \in Seq(S) /\ Len(<<>>) = 0
    BY EmptySeq
  <2>2. PICK f : Folds(f, A, S, a, g, <<>>)
    BY <2>1, FoldsIs
  <2>3. f[0] = folded(A, S, a, g, <<>>)
    BY <2>1, <2>2, FoldsIs
  <2> QED
    BY <2>2, <2>3 DEF Folds
<1>2. ASSUME NEW s \in Seq(S)
      PROVE  /\ folded(A, S, a, g, s) \in A
             /\ \A c \in S : folded(A, S, a, g, Append(s, c)) = step(g, folded(A, S, a, g, s), c)
  <2>1. PICK f : Folds(f, A, S, a, g, s)
    BY FoldsIs
  <2>2. f[Len(s)] = folded(A, S, a, g, s) /\ Len(s) \in Nat
    BY <2>1, FoldsIs, LenProperties
  <2>3. folded(A, S, a, g, s) \in A
    BY <2>1, <2>2 DEF Folds
  <2>4. ASSUME NEW c \in S PROVE folded(A, S, a, g, Append(s, c)) = step(g, folded(A, S, a, g, s), c)
    <3> DEFINE t == Append(s, c)
    <3>1. /\ t \in Seq(S) /\ Len(t) = Len(s) + 1
          /\ \A i \in 1 .. Len(s) : t[i] = s[i]
          /\ t[Len(s) + 1] = c
      BY AppendProperties
    <3> HIDE DEF t
    <3>2. PICK h : Folds(h, A, S, a, g, t)
      BY <3>1, FoldsIs
    <3>3. h[Len(t)] = folded(A, S, a, g, t)
      BY <3>1, <3>2, FoldsIs
    <3>9. Len(t) \in 1 .. Len(t)
      BY <2>2, <3>1
    <3> DEFINE e == [i \in 0 .. Len(s) |-> h[i]]
    <3>4. Folds(e, A, S, a, g, s)
      <4>1. h \in [0 .. Len(s) + 1 -> A] /\ h[0] = a
            /\ \A i \in 1 .. Len(s) + 1 : h[i] = g[<<h[i - 1], t[i]>>]
        BY <3>1, <3>2 DEF Folds
      <4>2. e \in [0 .. Len(s) -> A] /\ e[0] = a
        BY <2>2, <4>1
      <4>3. ASSUME NEW i \in 1 .. Len(s) PROVE e[i] = g[<<e[i - 1], s[i]>>]
        <5>1. i \in 1 .. Len(s) + 1 /\ i \in 0 .. Len(s) /\ i - 1 \in 0 .. Len(s)
          BY <2>2
        <5> QED
          BY <3>1, <4>1, <5>1
      <4> HIDE DEF e
      <4> QED
        BY <4>2, <4>3 DEF Folds
    <3>5. e[Len(s)] = folded(A, S, a, g, s)
      <4> HIDE DEF e
      <4> QED
        BY <3>4, FoldsIs
    <3>6. e[Len(s)] = h[Len(s)]
      BY <2>2
    <3>7. h[Len(t)] = g[<<h[Len(t) - 1], t[Len(t)]>>]
      BY <3>2, <3>9 DEF Folds
    <3>8. Len(t) - 1 = Len(s)
      BY <2>2, <3>1
    <3> QED
      BY <3>1, <3>3, <3>5, <3>6, <3>7, <3>8 DEF t, step
  <2> QED
    BY <2>3, <2>4
<1> QED
  BY <1>1, <1>2 DEF Unfolds
-----------------------------------------------------------------------------
(* Digits and numbers.                                                     *)

Numerals == {digit[d + 1] : d \in 0 .. 9}

LEMMA DigitsDiffer ==
  ASSUME NEW d \in 0 .. 9, NEW e \in 0 .. 9, digit[d + 1] = digit[e + 1]
  PROVE  d = e
BY DEF digit

LEMMA DigitIs ==
  /\ \A d \in 0 .. 9 : to_digit(digit[d + 1]) = d
  /\ \A c \in Numerals : to_digit(c) \in 0 .. 9 /\ digit[to_digit(c) + 1] = c
  /\ \A c : isDigit(c) <=> c \in Numerals
  /\ "0" \in Numerals /\ to_digit("0") = 0
  /\ "_" \notin Numerals /\ "." \notin Numerals /\ "+" \notin Numerals /\ "-" \notin Numerals
<1>1. \A c : isDigit(c) <=> c \in Numerals
  BY DEF isDigit, Numerals
<1>2. ASSUME NEW c \in Numerals PROVE to_digit(c) \in 0 .. 9 /\ digit[to_digit(c) + 1] = c
  <2>1. \E d \in 0 .. 9 : digit[d + 1] = c
    BY DEF Numerals
  <2> QED
    BY <2>1 DEF to_digit
<1>3. ASSUME NEW d \in 0 .. 9 PROVE to_digit(digit[d + 1]) = d
  <2>1. digit[d + 1] \in Numerals
    BY DEF Numerals
  <2> QED
    BY <1>2, <2>1, DigitsDiffer
<1>4. digit[0 + 1] = "0" /\ 0 \in 0 .. 9
  BY DEF digit
<1>5. "_" \notin Numerals /\ "." \notin Numerals /\ "+" \notin Numerals /\ "-" \notin Numerals
  <2> SUFFICES ASSUME NEW d \in 0 .. 9
               PROVE  digit[d + 1] \notin {"_", ".", "+", "-"}
    BY DEF Numerals
  <2>1. digit[d + 1] \in {"0", "1", "2", "3", "4", "5", "6", "7", "8", "9"}
    BY DEF digit
  <2> HIDE DEF digit
  <2> QED
    BY <2>1
<1>6. "0" \in Numerals
  BY <1>4 DEF Numerals
<1> QED
  BY <1>1, <1>2, <1>3, <1>4, <1>5, <1>6

(* The numbers, and a step of number.                                      *)
Totals == Nat

nextNumber(n, c) == 10 * n + to_digit(c)

numberStep == [q \in Totals \X Numerals |-> nextNumber(q[1], q[2])]

LEMMA NumberStep ==
  /\ 0 \in Totals /\ numberStep \in [Totals \X Numerals -> Totals]
  /\ \A n \in Totals : \A c \in Numerals : step(numberStep, n, c) = nextNumber(n, c)
<1>1. ASSUME NEW n \in Totals, NEW c \in Numerals PROVE nextNumber(n, c) \in Totals
  <2>1. to_digit(c) \in 0 .. 9
    BY DigitIs
  <2> QED
    BY <2>1 DEF Totals, nextNumber
<1>2. 0 \in Totals
  BY DEF Totals
<1> QED
  BY <1>1, <1>2 DEF numberStep, step

LEMMA NumberFolds ==
  ASSUME NEW s \in Seq(Numerals)
  PROVE  number(s) = folded(Totals, Numerals, 0, numberStep, s)
<1> DEFINE Is(h) == h = [i \in 0 .. Len(s) |-> IF i = 0 THEN 0 ELSE nextNumber(h[i - 1], s[i])]
           start == 0
           steps == numberStep
<1>1. start \in Totals /\ steps \in [Totals \X Numerals -> Totals]
  BY NumberStep
<1>2. \A v \in Totals : \A c \in Numerals : step(steps, v, c) = nextNumber(v, c)
  BY NumberStep
<1>3. number(s) = (CHOOSE h : Is(h))[Len(s)]
  BY DEF number, nextNumber
<1>4. Len(s) \in Nat /\ \A i \in 1 .. Len(s) : s[i] \in Numerals
  BY LenProperties, ElementOfSeq
<1>5. \A h : Is(h) <=> h = [i \in 0 .. Len(s) |-> IF i = 0 THEN start ELSE nextNumber(h[i - 1], s[i])]
  OBVIOUS
<1> HIDE DEF Is, start, steps
<1>6. PICK f : Folds(f, Totals, Numerals, start, steps, s)
  BY <1>1, FoldsIs
<1>7. f[Len(s)] = folded(Totals, Numerals, start, steps, s)
  BY <1>1, <1>6, FoldsIs
<1>8. /\ f \in [0 .. Len(s) -> Totals] /\ f[0] = start
      /\ \A i \in 1 .. Len(s) : f[i] = nextNumber(f[i - 1], s[i])
  <2>1. /\ f \in [0 .. Len(s) -> Totals] /\ f[0] = start
        /\ \A i \in 1 .. Len(s) : f[i] = step(steps, f[i - 1], s[i])
    BY <1>6 DEF Folds, step
  <2>2. \A i \in 1 .. Len(s) : f[i - 1] \in Totals
    <3>1. \A i \in 1 .. Len(s) : i - 1 \in 0 .. Len(s)
      BY <1>4
    <3> QED
      BY <2>1, <3>1
  <2> QED
    BY <1>2, <1>4, <2>1, <2>2
<1>9. Is(f)
  <2> DEFINE e == [i \in 0 .. Len(s) |-> IF i = 0 THEN start ELSE nextNumber(f[i - 1], s[i])]
  <2>1. \A i \in 0 .. Len(s) : i = 0 \/ i \in 1 .. Len(s)
    BY <1>4
  <2>2. \A i \in 0 .. Len(s) : f[i] = e[i]
    BY <1>8, <2>1
  <2>3. f = e
    BY <1>8, <2>2
  <2> QED
    BY <1>5, <2>3
<1>10. PICK h : Is(h) /\ number(s) = h[Len(s)]
  BY <1>3, <1>9
<1>11. h[0] = start /\ \A i \in 1 .. Len(s) : h[i] = nextNumber(h[i - 1], s[i])
  <2>1. \A i \in 1 .. Len(s) : i \in 0 .. Len(s) /\ i # 0
    BY <1>4
  <2>2. 0 \in 0 .. Len(s)
    BY <1>4
  <2> QED
    BY <1>5, <1>10, <2>1, <2>2
<1> DEFINE T == {i \in 0 .. Len(s) : h[i] = f[i]}
<1>12. 0 \in T
  BY <1>4, <1>8, <1>11
<1>13. ASSUME NEW i \in 1 .. Len(s), i - 1 \in T PROVE i \in T
  <2>1. h[i - 1] = f[i - 1] /\ i \in 0 .. Len(s)
    BY <1>4, <1>13
  <2> QED
    BY <1>8, <1>11, <2>1
<1> HIDE DEF T
<1>14. \A i \in 0 .. Len(s) : i \in T
  BY <1>4, <1>12, <1>13, Induction
<1>15. Len(s) \in T
  BY <1>4, <1>14
<1>16. h[Len(s)] = f[Len(s)]
  BY <1>15 DEF T
<1> QED
  BY <1>7, <1>10, <1>16 DEF start, steps

LEMMA NumberIs ==
  /\ number(<<>>) = 0
  /\ \A s \in Seq(Numerals) :
       /\ number(s) \in Nat
       /\ \A c \in Numerals : number(Append(s, c)) = 10 * number(s) + to_digit(c)
<1>1. 0 \in Totals /\ numberStep \in [Totals \X Numerals -> Totals]
  BY NumberStep
<1> DEFINE value(s) == folded(Totals, Numerals, 0, numberStep, s)
<1>2. /\ value(<<>>) = 0
      /\ \A s \in Seq(Numerals) :
           /\ value(s) \in Totals
           /\ \A c \in Numerals : value(Append(s, c)) = step(numberStep, value(s), c)
  <2>1. Unfolds(Totals, Numerals, 0, numberStep)
    BY <1>1, FoldedIs
  <2> QED
    BY <2>1 DEF Unfolds
<1>3. number(<<>>) = 0
  BY <1>2, EmptySeq, NumberFolds
<1>4. ASSUME NEW s \in Seq(Numerals)
      PROVE  /\ number(s) \in Nat
             /\ \A c \in Numerals : number(Append(s, c)) = 10 * number(s) + to_digit(c)
  <2>1. number(s) \in Nat
    BY <1>2, NumberFolds DEF Totals
  <2>2. ASSUME NEW c \in Numerals PROVE number(Append(s, c)) = 10 * number(s) + to_digit(c)
    <3>1. number(Append(s, c)) = step(numberStep, number(s), c)
      <4>1. Append(s, c) \in Seq(Numerals)
        BY AppendProperties
      <4> QED
        BY <1>2, <4>1, NumberFolds
    <3>2. number(s) \in Totals
      BY <1>2, NumberFolds
    <3> QED
      BY <3>1, <3>2, NumberStep DEF nextNumber
  <2> QED
    BY <2>1, <2>2
<1> QED
  BY <1>3, <1>4
-----------------------------------------------------------------------------
(* The digits before the point.                                            *)

Letters(S) == Seq(S)

nextKept(t, c) == IF c = "_" THEN t ELSE Append(t, c)

keptStep(S) == [q \in Letters(S) \X S |-> nextKept(q[1], q[2])]

LEMMA KeptStep ==
  ASSUME NEW S
  PROVE  /\ <<>> \in Letters(S) /\ keptStep(S) \in [Letters(S) \X S -> Letters(S)]
         /\ \A t \in Letters(S) : \A c \in S : step(keptStep(S), t, c) = nextKept(t, c)
<1>1. \A t \in Seq(S) : \A c \in S : Append(t, c) \in Seq(S)
  BY AppendProperties
<1>2. <<>> \in Letters(S) /\ \A t \in Letters(S) : \A c \in S : nextKept(t, c) \in Letters(S)
  BY <1>1, EmptySeq DEF Letters, nextKept
<1> QED
  BY <1>2 DEF keptStep, step

LEMMA KeptFolds ==
  ASSUME NEW S, NEW s \in Seq(S)
  PROVE  withoutUnderscores(s) = folded(Letters(S), S, <<>>, keptStep(S), s)
<1> DEFINE Is(h) == h = [i \in 0 .. Len(s) |-> IF i = 0 THEN <<>> ELSE nextKept(h[i - 1], s[i])]
           start == <<>>
           steps == keptStep(S)
<1>1. start \in Letters(S) /\ steps \in [Letters(S) \X S -> Letters(S)]
  BY KeptStep
<1>2. \A v \in Letters(S) : \A c \in S : step(steps, v, c) = nextKept(v, c)
  BY KeptStep
<1>3. withoutUnderscores(s) = (CHOOSE h : Is(h))[Len(s)]
  BY DEF withoutUnderscores, nextKept
<1>4. Len(s) \in Nat /\ \A i \in 1 .. Len(s) : s[i] \in S
  BY LenProperties, ElementOfSeq
<1>5. \A h : Is(h) <=> h = [i \in 0 .. Len(s) |-> IF i = 0 THEN start ELSE nextKept(h[i - 1], s[i])]
  OBVIOUS
<1> HIDE DEF Is, start, steps
<1>6. PICK f : Folds(f, Letters(S), S, start, steps, s)
  BY <1>1, FoldsIs
<1>7. f[Len(s)] = folded(Letters(S), S, start, steps, s)
  BY <1>1, <1>6, FoldsIs
<1>8. /\ f \in [0 .. Len(s) -> Letters(S)] /\ f[0] = start
      /\ \A i \in 1 .. Len(s) : f[i] = nextKept(f[i - 1], s[i])
  <2>1. /\ f \in [0 .. Len(s) -> Letters(S)] /\ f[0] = start
        /\ \A i \in 1 .. Len(s) : f[i] = step(steps, f[i - 1], s[i])
    BY <1>6 DEF Folds, step
  <2>2. \A i \in 1 .. Len(s) : f[i - 1] \in Letters(S)
    <3>1. \A i \in 1 .. Len(s) : i - 1 \in 0 .. Len(s)
      BY <1>4
    <3> QED
      BY <2>1, <3>1
  <2> QED
    BY <1>2, <1>4, <2>1, <2>2
<1>9. Is(f)
  <2> DEFINE e == [i \in 0 .. Len(s) |-> IF i = 0 THEN start ELSE nextKept(f[i - 1], s[i])]
  <2>1. \A i \in 0 .. Len(s) : i = 0 \/ i \in 1 .. Len(s)
    BY <1>4
  <2>2. \A i \in 0 .. Len(s) : f[i] = e[i]
    BY <1>8, <2>1
  <2>3. f = e
    BY <1>8, <2>2
  <2> QED
    BY <1>5, <2>3
<1>10. PICK h : Is(h) /\ withoutUnderscores(s) = h[Len(s)]
  BY <1>3, <1>9
<1>11. h[0] = start /\ \A i \in 1 .. Len(s) : h[i] = nextKept(h[i - 1], s[i])
  <2>1. \A i \in 1 .. Len(s) : i \in 0 .. Len(s) /\ i # 0
    BY <1>4
  <2>2. 0 \in 0 .. Len(s)
    BY <1>4
  <2> QED
    BY <1>5, <1>10, <2>1, <2>2
<1> DEFINE T == {i \in 0 .. Len(s) : h[i] = f[i]}
<1>12. 0 \in T
  BY <1>4, <1>8, <1>11
<1>13. ASSUME NEW i \in 1 .. Len(s), i - 1 \in T PROVE i \in T
  <2>1. h[i - 1] = f[i - 1] /\ i \in 0 .. Len(s)
    BY <1>4, <1>13
  <2> QED
    BY <1>8, <1>11, <2>1
<1> HIDE DEF T
<1>14. \A i \in 0 .. Len(s) : i \in T
  BY <1>4, <1>12, <1>13, Induction
<1>15. Len(s) \in T
  BY <1>4, <1>14
<1>16. h[Len(s)] = f[Len(s)]
  BY <1>15 DEF T
<1> QED
  BY <1>7, <1>10, <1>16 DEF start, steps

LEMMA KeptIs ==
  ASSUME NEW S
  PROVE  /\ withoutUnderscores(<<>>) = <<>>
         /\ \A s \in Seq(S) :
              /\ withoutUnderscores(s) \in Seq(S)
              /\ \A c \in S : withoutUnderscores(Append(s, c)) =
                                nextKept(withoutUnderscores(s), c)
<1> DEFINE g == keptStep(S)
           value(s) == folded(Letters(S), S, <<>>, g, s)
<1>1. <<>> \in Letters(S) /\ g \in [Letters(S) \X S -> Letters(S)]
  BY KeptStep
<1>2. \A s \in Seq(S) : withoutUnderscores(s) = value(s)
  BY KeptFolds
<1>3. \A t \in Letters(S) : \A c \in S : step(g, t, c) = nextKept(t, c)
  BY KeptStep
<1> HIDE DEF g
<1>4. /\ value(<<>>) = <<>>
      /\ \A s \in Seq(S) :
           value(s) \in Letters(S) /\ \A c \in S : value(Append(s, c)) = step(g, value(s), c)
  <2>1. Unfolds(Letters(S), S, <<>>, g)
    BY <1>1, FoldedIs
  <2> QED
    BY <2>1 DEF Unfolds
<1> HIDE DEF value
<1>5. \A s \in Seq(S) : \A c \in S : Append(s, c) \in Seq(S)
  BY AppendProperties
<1> QED
  BY <1>2, <1>3, <1>4, <1>5, EmptySeq DEF Letters

IntSets == SUBSET Int

nextHi(sign, his, c) ==
  CASE c = "_"    -> his
    [] isDigit(c) -> UNION {checked(h + sign * to_digit(c)) : h \in UNION {checked(10 * h) : h \in his}}
    [] OTHER      -> {}

hiStep(sign, S) == [q \in IntSets \X S |-> nextHi(sign, q[1], q[2])]

LEMMA HiStep ==
  ASSUME NEW sign, NEW S
  PROVE  /\ {0} \in IntSets /\ hiStep(sign, S) \in [IntSets \X S -> IntSets]
         /\ \A his \in IntSets : \A c \in S : step(hiStep(sign, S), his, c) = nextHi(sign, his, c)
<1>1. \A n : checked(n) \subseteq Int
  <2>1. MIN \in Int /\ MAX \in Int
    BY DecAssumption DEF MIN
  <2>2. \A n : n \in MIN .. MAX => n \in Int
    BY <2>1
  <2> QED
    BY <2>2 DEF checked
<1>2. ASSUME NEW his \in IntSets, NEW c \in S PROVE nextHi(sign, his, c) \in IntSets
  <2> DEFINE sums == UNION {checked(h + sign * to_digit(c)) :
                              h \in UNION {checked(10 * h) : h \in his}}
  <2>1. sums \subseteq Int
    BY <1>1
  <2>2. nextHi(sign, his, c) = CASE c = "_" -> his [] isDigit(c) -> sums [] OTHER -> {}
    BY DEF nextHi
  <2> HIDE DEF sums
  <2>3. nextHi(sign, his, c) \in {his, sums, {}}
    <3>1. CASE c = "_" /\ isDigit(c)
      <4>1. FALSE
        BY <3>1, DigitIs
      <4> QED
        BY <4>1
    <3> QED
      BY <2>2, <3>1
  <2> QED
    BY <2>1, <2>3 DEF IntSets
<1>3. {0} \in IntSets
  BY DEF IntSets
<1> HIDE DEF IntSets
<1> QED
  BY <1>2, <1>3 DEF hiStep, step

LEMMA HiFolds ==
  ASSUME NEW sign, NEW S, NEW s \in Seq(S)
  PROVE  adjust_hi(sign, s) = folded(IntSets, S, {0}, hiStep(sign, S), s)
<1> DEFINE Is(h) == h = [i \in 0 .. Len(s) |-> IF i = 0 THEN {0} ELSE nextHi(sign, h[i - 1], s[i])]
           start == {0}
           steps == hiStep(sign, S)
<1>1. start \in IntSets /\ steps \in [IntSets \X S -> IntSets]
  BY HiStep
<1>2. \A v \in IntSets : \A c \in S : step(steps, v, c) = nextHi(sign, v, c)
  BY HiStep
<1>3. adjust_hi(sign, s) = (CHOOSE h : Is(h))[Len(s)]
  BY DEF adjust_hi, nextHi
<1>4. Len(s) \in Nat /\ \A i \in 1 .. Len(s) : s[i] \in S
  BY LenProperties, ElementOfSeq
<1>5. \A h : Is(h) <=> h = [i \in 0 .. Len(s) |-> IF i = 0 THEN start ELSE nextHi(sign, h[i - 1], s[i])]
  OBVIOUS
<1> HIDE DEF Is, start, steps
<1>6. PICK f : Folds(f, IntSets, S, start, steps, s)
  BY <1>1, FoldsIs
<1>7. f[Len(s)] = folded(IntSets, S, start, steps, s)
  BY <1>1, <1>6, FoldsIs
<1>8. /\ f \in [0 .. Len(s) -> IntSets] /\ f[0] = start
      /\ \A i \in 1 .. Len(s) : f[i] = nextHi(sign, f[i - 1], s[i])
  <2>1. /\ f \in [0 .. Len(s) -> IntSets] /\ f[0] = start
        /\ \A i \in 1 .. Len(s) : f[i] = step(steps, f[i - 1], s[i])
    BY <1>6 DEF Folds, step
  <2>2. \A i \in 1 .. Len(s) : f[i - 1] \in IntSets
    <3>1. \A i \in 1 .. Len(s) : i - 1 \in 0 .. Len(s)
      BY <1>4
    <3> QED
      BY <2>1, <3>1
  <2> QED
    BY <1>2, <1>4, <2>1, <2>2
<1>9. Is(f)
  <2> DEFINE e == [i \in 0 .. Len(s) |-> IF i = 0 THEN start ELSE nextHi(sign, f[i - 1], s[i])]
  <2>1. \A i \in 0 .. Len(s) : i = 0 \/ i \in 1 .. Len(s)
    BY <1>4
  <2>2. \A i \in 0 .. Len(s) : f[i] = e[i]
    BY <1>8, <2>1
  <2>3. f = e
    BY <1>8, <2>2
  <2> QED
    BY <1>5, <2>3
<1>10. PICK h : Is(h) /\ adjust_hi(sign, s) = h[Len(s)]
  BY <1>3, <1>9
<1>11. h[0] = start /\ \A i \in 1 .. Len(s) : h[i] = nextHi(sign, h[i - 1], s[i])
  <2>1. \A i \in 1 .. Len(s) : i \in 0 .. Len(s) /\ i # 0
    BY <1>4
  <2>2. 0 \in 0 .. Len(s)
    BY <1>4
  <2> QED
    BY <1>5, <1>10, <2>1, <2>2
<1> DEFINE T == {i \in 0 .. Len(s) : h[i] = f[i]}
<1>12. 0 \in T
  BY <1>4, <1>8, <1>11
<1>13. ASSUME NEW i \in 1 .. Len(s), i - 1 \in T PROVE i \in T
  <2>1. h[i - 1] = f[i - 1] /\ i \in 0 .. Len(s)
    BY <1>4, <1>13
  <2> QED
    BY <1>8, <1>11, <2>1
<1> HIDE DEF T
<1>14. \A i \in 0 .. Len(s) : i \in T
  BY <1>4, <1>12, <1>13, Induction
<1>15. Len(s) \in T
  BY <1>4, <1>14
<1>16. h[Len(s)] = f[Len(s)]
  BY <1>15 DEF T
<1> QED
  BY <1>7, <1>10, <1>16 DEF start, steps

LEMMA HiIs ==
  ASSUME NEW sign, NEW S
  PROVE  /\ adjust_hi(sign, <<>>) = {0}
         /\ \A s \in Seq(S) : \A c \in S :
              adjust_hi(sign, Append(s, c)) = nextHi(sign, adjust_hi(sign, s), c)
<1> DEFINE g == hiStep(sign, S)
           value(s) == folded(IntSets, S, {0}, g, s)
<1>1. {0} \in IntSets /\ g \in [IntSets \X S -> IntSets]
  BY HiStep
<1>2. \A s \in Seq(S) : adjust_hi(sign, s) = value(s)
  BY HiFolds
<1>3. \A his \in IntSets : \A c \in S : step(g, his, c) = nextHi(sign, his, c)
  BY HiStep
<1> HIDE DEF g
<1>4. /\ value(<<>>) = {0}
      /\ \A s \in Seq(S) :
           value(s) \in IntSets /\ \A c \in S : value(Append(s, c)) = step(g, value(s), c)
  <2>1. Unfolds(IntSets, S, {0}, g)
    BY <1>1, FoldedIs
  <2> QED
    BY <2>1 DEF Unfolds
<1> HIDE DEF value
<1>5. \A s \in Seq(S) : \A c \in S : Append(s, c) \in Seq(S)
  BY AppendProperties
<1> QED
  BY <1>2, <1>3, <1>4, <1>5, EmptySeq

LEMMA AppendIn ==
  ASSUME NEW S, NEW N, NEW k \in Seq(S), NEW c \in S
  PROVE  Append(k, c) \in Seq(N) <=> k \in Seq(N) /\ c \in N
<1> DEFINE t == Append(k, c)
<1>1. /\ t \in Seq(S) /\ Len(t) = Len(k) + 1 /\ t[Len(k) + 1] = c
      /\ \A i \in 1 .. Len(k) : t[i] = k[i]
  BY AppendProperties
<1>2. Len(k) \in Nat
  BY LenProperties
<1>3. ASSUME t \in Seq(N) PROVE k \in Seq(N) /\ c \in N
  <2> HIDE DEF t
  <2>1. \A i \in 1 .. Len(t) : t[i] \in N
    BY <1>3, ElementOfSeq
  <2>2. Len(k) + 1 \in 1 .. Len(t) /\ \A i \in 1 .. Len(k) : i \in 1 .. Len(t)
    BY <1>1, <1>2
  <2>3. c \in N /\ \A i \in 1 .. Len(k) : k[i] \in N
    BY <1>1, <2>1, <2>2
  <2>4. SubSeq(k, 1, Len(k)) \in Seq(N)
    BY <1>2, <2>3, SubSeqProperties
  <2> QED
    BY <2>3, <2>4, SubSeqFull
<1>4. ASSUME k \in Seq(N), c \in N PROVE t \in Seq(N)
  BY <1>4, AppendProperties
<1> QED
  BY <1>3, <1>4

Signs == {1, -1}

LEMMA CheckedIs ==
  /\ MIN \in Int /\ MAX \in Nat /\ MIN = -MAX - 1
  /\ \A n \in Int : checked(n) = IF MIN <= n /\ n <= MAX THEN {n} ELSE {}
  /\ checked(0) = {0}
BY DecAssumption DEF checked, MIN

(* What overflows on the way overflows in the end.                         *)
LEMMA CheckedNext ==
  ASSUME NEW sign \in Signs, NEW n \in Nat, NEW d \in 0 .. 9
  PROVE  UNION {checked(h + sign * d) : h \in UNION {checked(10 * h) : h \in checked(sign * n)}}
           = checked(sign * (10 * n + d))
<1> DEFINE tens(h)  == checked(10 * h)
           sums(h)  == checked(h + sign * d)
           value    == sign * (10 * n + d)
<1>1. /\ sign * n \in Int /\ 10 * (sign * n) \in Int /\ value \in Int
      /\ 10 * (sign * n) + sign * d = value
  <2>1. CASE sign = 1
    BY <2>1
  <2>2. CASE sign = -1
    BY <2>2
  <2> QED
    BY <2>1, <2>2 DEF Signs
<1>2. ASSUME MIN <= value, value <= MAX
      PROVE  /\ MIN <= sign * n /\ sign * n <= MAX
             /\ MIN <= 10 * (sign * n) /\ 10 * (sign * n) <= MAX
  <2>1. CASE sign = 1
    BY <1>2, <2>1, CheckedIs
  <2>2. CASE sign = -1
    BY <1>2, <2>2, CheckedIs
  <2> QED
    BY <2>1, <2>2 DEF Signs
<1>3. CASE MIN <= value /\ value <= MAX
  <2>1. checked(sign * n) = {sign * n} /\ tens(sign * n) = {10 * (sign * n)}
        /\ sums(10 * (sign * n)) = {value} /\ checked(value) = {value}
    BY <1>1, <1>2, <1>3, CheckedIs
  <2> HIDE DEF tens, sums, value
  <2>2. UNION {tens(h) : h \in checked(sign * n)} = {10 * (sign * n)}
    BY <2>1
  <2>3. UNION {sums(h) : h \in {10 * (sign * n)}} = checked(value)
    BY <2>1
  <2>4. UNION {sums(h) : h \in UNION {tens(h) : h \in checked(sign * n)}} = checked(value)
    BY <2>2, <2>3
  <2> QED
    BY <2>4 DEF tens, sums, value
<1>4. CASE ~(MIN <= value /\ value <= MAX)
  <2>1. checked(value) = {}
    BY <1>1, <1>4, CheckedIs
  <2>2. ASSUME NEW h \in UNION {tens(h) : h \in checked(sign * n)} PROVE sums(h) = {}
    <3>1. PICK g \in checked(sign * n) : h \in tens(g)
      BY <2>2
    <3>2. g = sign * n
      BY <1>1, <3>1, CheckedIs
    <3>3. h = 10 * (sign * n)
      BY <1>1, <3>1, <3>2, CheckedIs
    <3>4. h + sign * d = value
      BY <1>1, <3>3
    <3> QED
      BY <2>1, <3>4
  <2> HIDE DEF tens, sums, value
  <2>3. UNION {sums(h) : h \in UNION {tens(h) : h \in checked(sign * n)}} = {}
    BY <2>2
  <2> QED
    BY <2>1, <2>3 DEF tens, sums, value
<1> QED
  BY <1>3, <1>4 DEF value

valueOf(sign, k) == IF k \in Seq(Numerals) THEN checked(sign * number(k)) ELSE {}

LEMMA NextValue ==
  ASSUME NEW S, NEW sign \in Signs, NEW k \in Seq(S), NEW c \in S
  PROVE  nextHi(sign, valueOf(sign, k), c) = valueOf(sign, nextKept(k, c))
<1>1. Append(k, c) \in Seq(Numerals) <=> k \in Seq(Numerals) /\ c \in Numerals
  BY AppendIn
<1>2. CASE c = "_"
  BY <1>2, DigitIs DEF nextHi, nextKept
<1>3. CASE c # "_" /\ c \in Numerals
  <2>1. isDigit(c) /\ to_digit(c) \in 0 .. 9 /\ nextKept(k, c) = Append(k, c)
    BY <1>3, DigitIs DEF nextKept
  <2>2. nextHi(sign, valueOf(sign, k), c) =
          UNION {checked(h + sign * to_digit(c)) :
                   h \in UNION {checked(10 * h) : h \in valueOf(sign, k)}}
    BY <1>3, <2>1 DEF nextHi
  <2>3. CASE k \in Seq(Numerals)
    <3>1. number(k) \in Nat /\ number(Append(k, c)) = 10 * number(k) + to_digit(c)
      BY <1>3, <2>3, NumberIs
    <3>2. valueOf(sign, k) = checked(sign * number(k))
      BY <2>3 DEF valueOf
    <3>3. valueOf(sign, Append(k, c)) = checked(sign * (10 * number(k) + to_digit(c)))
      BY <1>1, <1>3, <2>3, <3>1 DEF valueOf
    <3> QED
      BY <2>1, <2>2, <3>1, <3>2, <3>3, CheckedNext
  <2>4. CASE k \notin Seq(Numerals)
    <3>1. valueOf(sign, k) = {} /\ valueOf(sign, Append(k, c)) = {}
      BY <1>1, <2>4 DEF valueOf
    <3> QED
      BY <2>1, <2>2, <3>1
  <2> QED
    BY <2>3, <2>4
<1>4. CASE c # "_" /\ c \notin Numerals
  <2>1. ~isDigit(c) /\ nextKept(k, c) = Append(k, c)
    BY <1>4, DigitIs DEF nextKept
  <2>2. nextHi(sign, valueOf(sign, k), c) = {}
    BY <1>4, <2>1 DEF nextHi
  <2> QED
    BY <1>1, <1>4, <2>1, <2>2 DEF valueOf
<1> QED
  BY <1>2, <1>3, <1>4

LEMMA HiValue ==
  ASSUME NEW S, NEW sign \in Signs
  PROVE  \A s \in Seq(S) : adjust_hi(sign, s) = valueOf(sign, withoutUnderscores(s))
<1> DEFINE T == {s \in Seq(S) : adjust_hi(sign, s) = valueOf(sign, withoutUnderscores(s))}
<1>1. /\ adjust_hi(sign, <<>>) = {0}
      /\ \A s \in Seq(S) : \A c \in S :
           adjust_hi(sign, Append(s, c)) = nextHi(sign, adjust_hi(sign, s), c)
  BY HiIs
<1>2. <<>> \in T
  <2>1. sign * 0 = 0
    BY DEF Signs
  <2>2. valueOf(sign, <<>>) = {0}
    BY <2>1, NumberIs, CheckedIs, EmptySeq DEF valueOf
  <2> QED
    BY <1>1, <2>2, KeptIs, EmptySeq
<1>3. ASSUME NEW s \in Seq(S), NEW c \in S, s \in T PROVE Append(s, c) \in T
  <2>1. Append(s, c) \in Seq(S)
    BY AppendProperties
  <2>2. adjust_hi(sign, Append(s, c)) = nextHi(sign, adjust_hi(sign, s), c)
    BY <1>1
  <2>3. /\ withoutUnderscores(s) \in Seq(S)
        /\ withoutUnderscores(Append(s, c)) = nextKept(withoutUnderscores(s), c)
    BY KeptIs
  <2>4. adjust_hi(sign, s) = valueOf(sign, withoutUnderscores(s))
    BY <1>3
  <2> QED
    BY <2>1, <2>2, <2>3, <2>4, NextValue
<1> HIDE DEF T
<1>4. \A s \in Seq(S) : s \in T
  BY <1>2, <1>3, SeqInduction
<1> QED
  BY <1>4 DEF T
-----------------------------------------------------------------------------
(* Powers of ten, and what the digits of a sequence are worth.             *)

LEMMA ZerosAre ==
  ASSUME NEW n \in Nat
  PROVE  /\ zeros(n) \in Seq(Numerals) /\ Len(zeros(n)) = n
         /\ zeros(0) = <<>> /\ zeros(n + 1) = Append(zeros(n), "0")
<1>1. "0" \in Numerals
  BY DigitIs
<1>2. \A k \in Nat : zeros(k) \in Seq(Numerals) /\ Len(zeros(k)) = k
  BY <1>1 DEF zeros
<1>3. zeros(0) = <<>>
  BY DEF zeros
<1>4. zeros(n + 1) = Append(zeros(n), "0")
  <2>1. /\ Append(zeros(n), "0") \in Seq(Numerals) /\ Len(Append(zeros(n), "0")) = n + 1
        /\ \A i \in 1 .. n : Append(zeros(n), "0")[i] = zeros(n)[i]
        /\ Append(zeros(n), "0")[n + 1] = "0"
    BY <1>1, <1>2, AppendProperties
  <2>2. \A i \in 1 .. n + 1 : zeros(n + 1)[i] = Append(zeros(n), "0")[i]
    BY <2>1 DEF zeros
  <2>3. n + 1 \in Nat
    OBVIOUS
  <2> QED
    BY <1>2, <2>1, <2>2, <2>3, SeqEqual
<1> QED
  BY <1>2, <1>3, <1>4

(* Ten to the power of n has n zeros.                                      *)
LEMMA PowIs ==
  /\ pow10[0] = 1
  /\ \A n \in Nat : pow10[n] \in Nat \ {0} /\ pow10[n + 1] = 10 * pow10[n]
<1> DEFINE one(n)  == <<"1">> \o zeros(n)
           p       == [n \in Nat |-> number(one(n))]
           Is(f)   == f = [n \in Nat |-> IF n = 0 THEN 1 ELSE 10 * f[n - 1]]
<1>1. "1" \in Numerals /\ to_digit("1") = 1 /\ "0" \in Numerals /\ to_digit("0") = 0
  <2>1. digit[1 + 1] = "1" /\ 1 \in 0 .. 9
    BY DEF digit
  <2>2. "1" \in Numerals
    BY <2>1 DEF Numerals
  <2>3. to_digit(digit[1 + 1]) = 1
    BY <2>1, DigitIs
  <2> QED
    BY <2>1, <2>2, <2>3, DigitIs
<1>2. number(one(0)) = 1
  <2>1. one(0) = Append(<<>>, "1")
    <3>1. zeros(0) = <<>>
      BY ZerosAre
    <3>2. <<>> \in Seq(Numerals) /\ <<"1">> \in Seq(Numerals)
      BY <1>1, EmptySeq
    <3>3. Append(<<>>, "1") = <<>> \o <<"1">>
      BY <1>1, <3>2, AppendIsConcat
    <3> QED
      BY <3>1, <3>2, <3>3, ConcatEmptySeq
  <2>2. <<>> \in Seq(Numerals) /\ number(<<>>) = 0
    BY EmptySeq, NumberIs
  <2>3. number(Append(<<>>, "1")) = 10 * number(<<>>) + to_digit("1")
    BY <1>1, <2>2, NumberIs
  <2> HIDE DEF one
  <2> QED
    BY <1>1, <2>1, <2>2, <2>3
<1>3. ASSUME NEW n \in Nat PROVE number(one(n + 1)) = 10 * number(one(n)) /\ number(one(n)) \in Nat
  <2>1. zeros(n) \in Seq(Numerals) /\ <<"1">> \in Seq(Numerals)
    BY <1>1, ZerosAre
  <2>2. one(n) \in Seq(Numerals)
    BY <2>1, ConcatProperties
  <2>3. one(n + 1) = Append(one(n), "0")
    <3>1. zeros(n + 1) = zeros(n) \o <<"0">> /\ <<"0">> \in Seq(Numerals)
      <4>1. zeros(n + 1) = Append(zeros(n), "0") /\ <<"0">> \in Seq(Numerals)
        <5>1. zeros(n + 1) = Append(zeros(n), "0")
          BY ZerosAre
        <5>2. <<"0">> \in Seq(Numerals)
          BY <1>1
        <5> QED
          BY <5>1, <5>2
      <4>2. Append(zeros(n), "0") = zeros(n) \o <<"0">>
        BY <1>1, <2>1, AppendIsConcat
      <4> QED
        BY <4>1, <4>2
    <3>2. one(n + 1) = one(n) \o <<"0">>
      BY <2>1, <3>1, ConcatAssociative
    <3> HIDE DEF one
    <3> QED
      BY <1>1, <2>2, <3>2, AppendIsConcat
  <2> HIDE DEF one
  <2>4. /\ number(Append(one(n), "0")) = 10 * number(one(n)) + to_digit("0")
        /\ number(one(n)) \in Nat
    BY <1>1, <2>2, NumberIs
  <2>5. 10 * number(one(n)) + to_digit("0") = 10 * number(one(n))
    BY <1>1, <2>4
  <2> QED
    BY <2>3, <2>4, <2>5
<1> HIDE DEF one
<1>4. Is(p)
  <2>1. \A n \in Nat : n # 0 => n - 1 \in Nat /\ n - 1 + 1 = n
    OBVIOUS
  <2>2. ASSUME NEW n \in Nat PROVE p[n] = IF n = 0 THEN 1 ELSE 10 * p[n - 1]
    <3>1. CASE n = 0
      BY <1>2, <3>1
    <3>2. CASE n # 0
      <4>1. number(one(n - 1 + 1)) = 10 * number(one(n - 1))
        BY <1>3, <2>1, <3>2
      <4> QED
        BY <2>1, <3>2, <4>1
    <3> QED
      BY <3>1, <3>2
  <2> QED
    BY <2>2
<1> HIDE DEF p
<1>5. Is(pow10)
  <2>1. pow10 = CHOOSE f : Is(f)
    BY DEF pow10
  <2> HIDE DEF Is
  <2> QED
    BY <1>4, <2>1
<1>6. pow10[0] = 1 /\ \A n \in Nat : pow10[n + 1] = 10 * pow10[n]
  <2>1. \A n \in Nat : pow10[n] = IF n = 0 THEN 1 ELSE 10 * pow10[n - 1]
    BY <1>5
  <2>2. \A n \in Nat : n + 1 \in Nat /\ n + 1 # 0 /\ n + 1 - 1 = n
    OBVIOUS
  <2> HIDE DEF Is
  <2>3. ASSUME NEW n \in Nat PROVE pow10[n + 1] = 10 * pow10[n]
    <3>1. pow10[n + 1] = 10 * pow10[n + 1 - 1]
      BY <2>1, <2>2
    <3> QED
      BY <2>2, <3>1
  <2> QED
    BY <2>1, <2>3
<1>7. ASSUME NEW n \in Nat PROVE pow10[n] \in Nat \ {0}
  <2> DEFINE T == {k \in Nat : pow10[k] \in Nat \ {0}}
  <2>1. 0 \in T
    BY <1>6
  <2>2. ASSUME NEW k \in 1 .. n, k - 1 \in T PROVE k \in T
    <3>1. k - 1 \in Nat /\ pow10[k - 1 + 1] = 10 * pow10[k - 1] /\ k - 1 + 1 = k
      BY <1>6
    <3> QED
      BY <2>2, <3>1
  <2> HIDE DEF T
  <2>3. \A k \in 0 .. n : k \in T
    BY <2>1, <2>2, Induction
  <2>4. n \in T
    BY <2>3
  <2> QED
    BY <2>4 DEF T
<1> QED
  BY <1>6, <1>7

(* The digits in front count for as many powers of ten as digits follow.   *)
LEMMA NumberConcat ==
  ASSUME NEW s \in Seq(Numerals)
  PROVE  \A t \in Seq(Numerals) :
           number(s \o t) = number(s) * pow10[Len(t)] + number(t) /\ number(t) < pow10[Len(t)]
<1> DEFINE T == {t \in Seq(Numerals) : /\ number(s \o t) = number(s) * pow10[Len(t)] + number(t)
                                       /\ number(t) < pow10[Len(t)]}
<1>1. <<>> \in T
  <2>1. s \o <<>> = s /\ <<>> \in Seq(Numerals) /\ Len(<<>>) = 0
    BY ConcatEmptySeq, EmptySeq
  <2>2. number(s) \in Nat /\ number(<<>>) = 0 /\ pow10[0] = 1
    BY NumberIs, PowIs
  <2> QED
    BY <2>1, <2>2
<1>2. ASSUME NEW t \in Seq(Numerals), NEW c \in Numerals, t \in T PROVE Append(t, c) \in T
  <2>1. Append(t, c) \in Seq(Numerals) /\ Len(Append(t, c)) = Len(t) + 1 /\ Len(t) \in Nat
    BY AppendProperties, LenProperties
  <2>2. s \o Append(t, c) = Append(s \o t, c) /\ s \o t \in Seq(Numerals)
    <3>1. /\ s \o t \in Seq(Numerals) /\ <<c>> \in Seq(Numerals)
          /\ Append(t, c) = t \o <<c>> /\ Append(s \o t, c) = (s \o t) \o <<c>>
      BY ConcatProperties, AppendIsConcat
    <3> QED
      BY <3>1, ConcatAssociative
  <2>3. /\ number(s \o Append(t, c)) = 10 * number(s \o t) + to_digit(c)
        /\ number(Append(t, c)) = 10 * number(t) + to_digit(c)
        /\ number(s) \in Nat /\ number(t) \in Nat /\ to_digit(c) \in 0 .. 9
    BY <2>2, NumberIs, DigitIs
  <2>4. pow10[Len(t)] \in Nat /\ pow10[Len(Append(t, c))] = 10 * pow10[Len(t)]
    BY <2>1, PowIs
  <2>5. number(s \o t) = number(s) * pow10[Len(t)] + number(t) /\ number(t) < pow10[Len(t)]
    BY <1>2
  <2> DEFINE x == number(s)
             y == number(t)
             z == pow10[Len(t)]
             d == to_digit(c)
             u == x * z
  <2>6. x * (10 * z) = 10 * u /\ u \in Nat
    BY <2>3, <2>4
  <2>7. number(s \o Append(t, c)) = 10 * (u + y) + d
    BY <2>3, <2>5
  <2>8. y \in Nat /\ z \in Nat /\ d \in 0 .. 9 /\ y < z
    BY <2>3, <2>4, <2>5
  <2> HIDE DEF x, y, z, d, u
  <2>9. 10 * (u + y) + d = x * (10 * z) + (10 * y + d) /\ 10 * y + d < 10 * z
    BY <2>6, <2>8
  <2> QED
    BY <2>1, <2>3, <2>4, <2>7, <2>9 DEF x, y, z, d
<1> HIDE DEF T
<1>3. \A t \in Seq(Numerals) : t \in T
  BY <1>1, <1>2, SeqInduction
<1> QED
  BY <1>3 DEF T

LEMMA NumberZeros ==
  ASSUME NEW n \in Nat
  PROVE  number(zeros(n)) = 0
<1> DEFINE T == {k \in Nat : number(zeros(k)) = 0}
<1>1. 0 \in T
  BY ZerosAre, NumberIs
<1>2. ASSUME NEW k \in 1 .. n, k - 1 \in T PROVE k \in T
  <2>1. k - 1 \in Nat /\ k - 1 + 1 = k
    OBVIOUS
  <2>2. zeros(k - 1) \in Seq(Numerals) /\ zeros(k - 1 + 1) = Append(zeros(k - 1), "0")
    BY <2>1, ZerosAre
  <2>3. number(Append(zeros(k - 1), "0")) = 10 * number(zeros(k - 1)) + to_digit("0")
    <3>1. "0" \in Numerals
      BY DigitIs
    <3> QED
      BY <2>2, <3>1, NumberIs
  <2>4. number(zeros(k - 1)) = 0 /\ to_digit("0") = 0
    BY <1>2, DigitIs
  <2>5. number(zeros(k - 1 + 1)) = 0
    <3>1. 10 * number(zeros(k - 1)) + to_digit("0") = 0
      BY <2>4
    <3> QED
      BY <2>2, <2>3, <3>1
  <2>6. number(zeros(k)) = 0
    BY <2>1, <2>5
  <2> QED
    BY <2>6
<1> HIDE DEF T
<1>3. \A k \in 0 .. n : k \in T
  BY <1>1, <1>2, Induction
<1>4. n \in T
  BY <1>3
<1> QED
  BY <1>4 DEF T

LEMMA ZeroDigits ==
  \A s \in Seq(Numerals) : number(s) = 0 => \A i \in 1 .. Len(s) : s[i] = "0"
<1> DEFINE T == {s \in Seq(Numerals) : number(s) = 0 => \A i \in 1 .. Len(s) : s[i] = "0"}
<1>1. <<>> \in T
  BY EmptySeq
<1>2. ASSUME NEW s \in Seq(Numerals), NEW c \in Numerals, s \in T PROVE Append(s, c) \in T
  <2>1. /\ Append(s, c) \in Seq(Numerals) /\ Len(Append(s, c)) = Len(s) + 1 /\ Len(s) \in Nat
        /\ \A i \in 1 .. Len(s) : Append(s, c)[i] = s[i]
        /\ Append(s, c)[Len(s) + 1] = c
    BY AppendProperties, LenProperties
  <2>2. /\ number(Append(s, c)) = 10 * number(s) + to_digit(c)
        /\ number(s) \in Nat /\ to_digit(c) \in 0 .. 9 /\ digit[to_digit(c) + 1] = c
    BY NumberIs, DigitIs
  <2>3. ASSUME number(Append(s, c)) = 0 PROVE number(s) = 0 /\ c = "0"
    <3>1. number(s) = 0 /\ to_digit(c) = 0
      BY <2>2, <2>3
    <3>2. digit[0 + 1] = "0"
      BY DEF digit
    <3> QED
      BY <2>2, <3>1, <3>2
  <2>4. \A i \in 1 .. Len(s) + 1 : i \in 1 .. Len(s) \/ i = Len(s) + 1
    BY <2>1
  <2>5. number(s) = 0 => \A i \in 1 .. Len(s) : s[i] = "0"
    BY <1>2
  <2> QED
    BY <2>1, <2>3, <2>4, <2>5
<1> HIDE DEF T
<1>3. \A s \in Seq(Numerals) : s \in T
  BY <1>1, <1>2, SeqInduction
<1> QED
  BY <1>3 DEF T
-----------------------------------------------------------------------------
(* The digits of a number.                                                 *)

digitsOf == [d \in 0 .. 9 |-> digit[d + 1]]

LEMMA DecimalUnfolds ==
  ASSUME NEW n \in Nat
  PROVE  decimal[n] = tensOf(decimal, digitsOf, n)
<1> DEFINE Is(f) == f = [k \in Nat |-> IF k < 10 THEN <<digit[k + 1]>>
                                       ELSE Append(f[k \div 10], digit[(k % 10) + 1])]
<1>1. digitsOf \in [0 .. 9 -> Numerals]
  BY DEF Numerals, digitsOf
<1>2. ASSUME NEW f, NEW k \in Nat
      PROVE  tensOf(f, digitsOf, k) = IF k < 10 THEN <<digit[k + 1]>>
                                      ELSE Append(f[k \div 10], digit[(k % 10) + 1])
  <2>1. k % 10 \in 0 .. 9 /\ (k < 10 => k \in 0 .. 9)
    BY <1>1, TensIs
  <2> QED
    BY <2>1 DEF tensOf, digitsOf
<1>3. PICK d \in [Nat -> Seq(Numerals)] : \A k \in Nat : d[k] = tensOf(d, digitsOf, k)
  BY <1>1, TensRecursion
<1>4. Is(d)
  BY <1>2, <1>3
<1>5. decimal = CHOOSE f : Is(f)
  BY DEF decimal
<1>6. Is(decimal)
  <2> HIDE DEF Is
  <2> QED
    BY <1>4, <1>5
<1> QED
  BY <1>2, <1>6

(* What is written of a number, read digit by digit, is the number.        *)
LEMMA DecimalIs ==
  \A n \in Nat : /\ decimal[n] \in Seq(Numerals) /\ Len(decimal[n]) \in Nat \ {0}
                 /\ number(decimal[n]) = n
<1> DEFINE Good(n) == /\ decimal[n] \in Seq(Numerals) /\ Len(decimal[n]) \in Nat \ {0}
                      /\ number(decimal[n]) = n
           Bad == {n \in Nat : ~Good(n)}
<1> SUFFICES ASSUME Bad # {} PROVE FALSE
  OBVIOUS
<1>1. PICK n \in Bad : \A i \in Bad : n <= i
  BY NatMinExists
<1>2. n \in Nat /\ ~Good(n) /\ \A i \in 0 .. n - 1 : Good(i)
  BY <1>1
<1>3. decimal[n] = IF n < 10 THEN <<digitsOf[n]>> ELSE Append(decimal[n \div 10], digitsOf[n % 10])
  BY <1>2, DecimalUnfolds DEF tensOf
<1>4. CASE n < 10
  <2> DEFINE c == digit[n + 1]
  <2>1. n \in 0 .. 9
    BY <1>2, <1>4
  <2>2. c \in Numerals /\ to_digit(c) = n
    BY <2>1, DigitIs DEF Numerals
  <2>3. decimal[n] = <<c>>
    BY <1>3, <1>4, <2>1 DEF digitsOf
  <2> HIDE DEF c
  <2>4. <<c>> = Append(<<>>, c) /\ <<>> \in Seq(Numerals)
    BY <2>2, EmptySeq
  <2>5. number(Append(<<>>, c)) = 10 * number(<<>>) + to_digit(c)
    BY <2>2, <2>4, NumberIs
  <2>6. number(decimal[n]) = n
    BY <1>2, <2>2, <2>3, <2>4, <2>5, NumberIs
  <2>7. decimal[n] \in Seq(Numerals) /\ Len(decimal[n]) \in Nat \ {0}
    BY <2>2, <2>3
  <2> QED
    BY <1>2, <2>6, <2>7
<1>5. CASE n >= 10
  <2> DEFINE q == n \div 10
             r == n % 10
             c == digit[r + 1]
  <2>2. r \in 0 .. 9 /\ n = 10 * q + r /\ q \in Nat
    BY <1>2, ModIs
  <2>1. q \in 0 .. n - 1
    BY <1>2, <1>5, <2>2
  <2>3. decimal[n] = Append(decimal[q], c)
    BY <1>2, <1>3, <1>5, <2>2 DEF digitsOf
  <2> HIDE DEF q, r
  <2>4. c \in Numerals /\ to_digit(c) = r
    BY <2>2, DigitIs DEF Numerals
  <2> HIDE DEF c
  <2>5. decimal[q] \in Seq(Numerals) /\ number(decimal[q]) = q
    BY <1>2, <2>1
  <2>6. number(Append(decimal[q], c)) = 10 * q + r
    BY <2>4, <2>5, NumberIs
  <2>7. Append(decimal[q], c) \in Seq(Numerals) /\ Len(Append(decimal[q], c)) = Len(decimal[q]) + 1
        /\ Len(decimal[q]) \in Nat
    BY <2>4, <2>5, AppendProperties, LenProperties
  <2> QED
    BY <1>2, <2>2, <2>3, <2>6, <2>7
<1> QED
  BY <1>2, <1>4, <1>5
-----------------------------------------------------------------------------
(* Where from_str splits a text.                                           *)

signs(t) == IF startsWith(t, {"+", "-"}) THEN 1 ELSE 0

LEMMA SignIs ==
  ASSUME NEW S, NEW t \in Seq(S)
  PROVE  /\ withoutSign(t) \in Seq(S) /\ Len(t) \in Nat
         /\ signs(t) \in {0, 1} /\ Len(t) = Len(withoutSign(t)) + signs(t)
         /\ Len(withoutSign(t)) \in Nat
         /\ \A i \in 1 .. Len(withoutSign(t)) : withoutSign(t)[i] = t[i + signs(t)]
         /\ signs(t) = 1 => t # <<>> /\ t[1] \in {"+", "-"}
         /\ signs(t) = 0 => withoutSign(t) = t
<1>1. Len(t) \in Nat /\ (t # <<>> => Len(t) # 0)
  BY LenProperties, EmptySeq
<1>2. CASE startsWith(t, {"+", "-"})
  <2>1. t # <<>> /\ Head(t) \in {"+", "-"} /\ withoutSign(t) = Tail(t) /\ signs(t) = 1
    BY <1>2 DEF startsWith, withoutSign, signs
  <2>2. /\ Tail(t) \in Seq(S) /\ Len(Tail(t)) = Len(t) - 1
        /\ \A i \in 1 .. Len(Tail(t)) : Tail(t)[i] = t[i + 1]
    BY <2>1, HeadTailProperties
  <2>3. t[1] = Head(t)
    BY <2>1
  <2> QED
    BY <1>1, <2>1, <2>2, <2>3
<1>3. CASE ~startsWith(t, {"+", "-"})
  <2>1. withoutSign(t) = t /\ signs(t) = 0
    BY <1>3 DEF withoutSign, signs
  <2> QED
    BY <1>1, <2>1
<1> QED
  BY <1>2, <1>3

IsPoint(body, n) ==
  /\ n \in 0 .. Len(body)
  /\ \A i \in 1 .. n : body[i] # "."
  /\ n = Len(body) \/ body[n + 1] = "."

LEMMA SplitIs ==
  ASSUME NEW S, NEW b \in Seq(S)
  PROVE  IsPoint(b, pointOf(b))
<1> DEFINE ends == {n \in Nat : n <= Len(b) /\ (n = Len(b) \/ b[n + 1] = ".")}
<1>1. Len(b) \in Nat /\ Len(b) \in ends
  BY LenProperties
<1>2. PICK n \in ends : \A m \in ends : n <= m
  BY <1>1, NatMinExists
<1>3. ASSUME NEW i \in 1 .. n PROVE b[i] # "."
  <2>1. i - 1 \in Nat /\ i - 1 < n /\ i - 1 <= Len(b) /\ i - 1 + 1 = i
    BY <1>1, <1>2
  <2>2. i - 1 \notin ends
    <3>1. n \in Nat /\ ~(n <= i - 1)
      BY <1>2, <2>1
    <3> HIDE DEF ends
    <3> QED
      BY <1>2, <3>1
  <2> QED
    BY <2>1, <2>2
<1>4. IsPoint(b, n)
  BY <1>1, <1>2, <1>3 DEF IsPoint
<1>5. \E m \in 0 .. Len(b) : (\A i \in 1 .. m : b[i] # ".") /\ (m = Len(b) \/ b[m + 1] = ".")
  BY <1>4 DEF IsPoint
<1>6. IsPoint(b, pointOf(b))
  <2> HIDE DEF ends
  <2> QED
    BY <1>5 DEF IsPoint, pointOf
<1> QED
  BY <1>6

pointsOf(t) == {i \in DOMAIN t : t[i] = "."}

firstPoint(t) ==
  IF pointsOf(t) = {} THEN Len(t) + 1
  ELSE CHOOSE i \in pointsOf(t) : \A j \in pointsOf(t) : i <= j

LEMMA FirstPoint ==
  ASSUME NEW S, NEW t \in Seq(S)
  PROVE  /\ firstPoint(t) = pointOf(withoutSign(t)) + signs(t) + 1
         /\ pointsOf(t) = {} <=> pointOf(withoutSign(t)) = Len(withoutSign(t))
<1> DEFINE body == withoutSign(t)
           k    == signs(t)
           n    == Len(body)
           p    == pointOf(body)
<1>1. /\ n \in Nat /\ k \in {0, 1} /\ Len(t) = n + k /\ Len(t) \in Nat
      /\ \A i \in 1 .. n : body[i] = t[i + k]
      /\ k = 1 => t[1] \in {"+", "-"}
  BY SignIs
<1>2. /\ p \in 0 .. n /\ (\A i \in 1 .. p : body[i] # ".")
      /\ p = n \/ body[p + 1] = "."
  <2>1. body \in Seq(S)
    BY SignIs
  <2> HIDE DEF body
  <2>2. IsPoint(body, p)
    BY <2>1, SplitIs
  <2> QED
    BY <2>2 DEF IsPoint
<1>3. DOMAIN t = 1 .. Len(t)
  BY LenProperties
<1>4. pointsOf(t) = {i \in 1 .. n + k : t[i] = "."}
  BY <1>1, <1>3 DEF pointsOf
<1>5. firstPoint(t) = IF pointsOf(t) = {} THEN n + k + 1
                      ELSE CHOOSE i \in pointsOf(t) : \A j \in pointsOf(t) : i <= j
  BY <1>1 DEF firstPoint
<1> HIDE DEF body, k, n, p
<1>6. ASSUME NEW i \in 1 .. n + k, i <= p + k PROVE t[i] # "."
  <2>1. CASE k = 1 /\ i = 1
    BY <1>1, <2>1
  <2>2. CASE ~(k = 1 /\ i = 1)
    <3>1. i - k \in 1 .. p /\ i - k \in 1 .. n /\ i - k + k = i
      BY <1>1, <1>2, <1>6, <2>2
    <3>2. body[i - k] # "." /\ body[i - k] = t[i - k + k]
      BY <1>1, <1>2, <3>1
    <3> QED
      BY <3>1, <3>2
  <2> QED
    BY <2>1, <2>2
<1>7. CASE p = n
  <2>1. pointsOf(t) = {}
    BY <1>4, <1>6, <1>7, <1>1
  <2> QED
    BY <1>5, <1>7, <2>1 DEF body, k, n, p
<1>8. CASE p # n
  <2>1. p + 1 \in 1 .. n /\ p + 1 + k \in 1 .. n + k /\ p + 1 + k = p + k + 1
    BY <1>1, <1>2, <1>8
  <2>2. t[p + 1 + k] = "."
    BY <1>1, <1>2, <1>8, <2>1
  <2>3. p + k + 1 \in pointsOf(t)
    BY <1>4, <2>1, <2>2
  <2>4. ASSUME NEW i \in pointsOf(t) PROVE i \in Nat /\ p + k + 1 <= i
    <3>1. i \in 1 .. n + k /\ t[i] = "."
      BY <1>4, <2>4
    <3>2. ~(i <= p + k)
      BY <1>6, <3>1
    <3> QED
      BY <1>1, <1>2, <3>1, <3>2
  <2>5. \A i \in pointsOf(t) : (\A j \in pointsOf(t) : i <= j) => i = p + k + 1
    <3> SUFFICES ASSUME NEW i \in pointsOf(t), \A j \in pointsOf(t) : i <= j
                 PROVE  i = p + k + 1
      OBVIOUS
    <3>1. i <= p + k + 1 /\ p + k + 1 <= i /\ i \in Nat /\ p + k + 1 \in Nat
      BY <1>1, <1>2, <2>3, <2>4
    <3> QED
      BY <3>1
  <2>6. firstPoint(t) = p + k + 1
    <3>1. pointsOf(t) # {}
      BY <2>3
    <3>2. firstPoint(t) = CHOOSE i \in pointsOf(t) : \A j \in pointsOf(t) : i <= j
      BY <1>5, <3>1
    <3>3. \E i \in pointsOf(t) : \A j \in pointsOf(t) : i <= j
      BY <2>3, <2>4
    <3> QED
      BY <2>5, <3>2, <3>3
  <2>7. pointsOf(t) # {}
    BY <2>3
  <2> QED
    BY <1>8, <2>6, <2>7 DEF body, k, n, p
<1> QED
  BY <1>7, <1>8

(* The parts of the text, as from_str cuts them.                           *)
beforePoint(t) == SubSeq(t, 1, firstPoint(t) - 1)
afterPoint(t)  == SubSeq(t, firstPoint(t) + 1, Len(t))

LEMMA BeforePoint ==
  ASSUME NEW S, NEW t \in Seq(S)
  PROVE  /\ withoutSign(beforePoint(t)) =
              SubSeq(withoutSign(t), 1, pointOf(withoutSign(t)))
         /\ startsWith(beforePoint(t), {"-"}) <=> startsWith(t, {"-"})
<1> DEFINE body == withoutSign(t)
           k    == signs(t)
           n    == Len(body)
           p    == pointOf(body)
           u    == beforePoint(t)
           w    == SubSeq(body, 1, p)
<1>1. /\ body \in Seq(S) /\ n \in Nat /\ k \in {0, 1} /\ Len(t) = n + k
      /\ \A i \in 1 .. n : body[i] = t[i + k]
      /\ k = 1 => t # <<>> /\ t[1] \in {"+", "-"}
      /\ k = 0 => body = t
  BY SignIs
<1>2. p \in 0 .. n /\ (p = n \/ body[p + 1] = ".")
  <2> HIDE DEF body
  <2> QED
    BY <1>1, SplitIs DEF IsPoint
<1>3. u = SubSeq(t, 1, p + k)
  <2>1. firstPoint(t) - 1 = p + k
    BY <1>1, <1>2, FirstPoint
  <2> QED
    BY <2>1 DEF beforePoint
<1>4. k = 1 <=> startsWith(t, {"+", "-"})
  BY DEF signs
<1> HIDE DEF body, k, n, p
<1>5. \A i \in 1 .. n + k : t[i] \in S
  BY <1>1, ElementOfSeq
<1>6. \A i \in 1 .. n : body[i] \in S
  BY <1>1, ElementOfSeq DEF n
<1>7. /\ u \in Seq(S) /\ Len(u) = p + k
      /\ \A i \in 1 .. p + k : u[i] = t[i]
  <2>1. \A i \in 1 .. p + k : t[i] \in S
    BY <1>1, <1>2, <1>5
  <2> DEFINE b == p + k
  <2>2. b \in Nat
    BY <1>1, <1>2
  <2> HIDE DEF b
  <2>3. /\ \A i \in 1 .. b : 1 + i - 1 = i /\ i \in 1 .. b - 1 + 1
        /\ b = IF 1 <= b THEN b - 1 + 1 ELSE 0
    BY <2>2
  <2>4. /\ SubSeq(t, 1, b) \in Seq(S)
        /\ Len(SubSeq(t, 1, b)) = IF 1 <= b THEN b - 1 + 1 ELSE 0
        /\ \A i \in 1 .. b - 1 + 1 : SubSeq(t, 1, b)[i] = t[1 + i - 1]
    BY <2>1, <2>2, SubSeqProperties DEF b
  <2>5. u = SubSeq(t, 1, b)
    BY <1>3 DEF b
  <2>6. u \in Seq(S) /\ Len(u) = b /\ \A i \in 1 .. b : u[i] = t[i]
    BY <2>3, <2>4, <2>5
  <2> QED
    BY <2>6 DEF b
<1>8. /\ w \in Seq(S) /\ Len(w) = p
      /\ \A i \in 1 .. p : w[i] = body[i]
  <2>1. \A i \in 1 .. p : body[i] \in S
    BY <1>1, <1>2, <1>6
  <2>2. p \in Int /\ (1 <= p \/ p = 0)
    BY <1>2
  <2>3. \A i \in 1 .. p : 1 + i - 1 = i /\ i \in 1 .. p - 1 + 1
    BY <2>2
  <2>4. p - 1 + 1 = p
    BY <2>2
  <2> QED
    BY <2>1, <2>2, <2>3, <2>4, SubSeqProperties
<1> HIDE DEF u, w
<1>9. CASE k = 1
  <2>1. u # <<>> /\ 1 \in 1 .. p + k
    BY <1>2, <1>7, <1>9, EmptySeq
  <2>2. Head(u) = t[1] /\ Head(t) = t[1]
    BY <1>7, <1>9, <1>1, <2>1
  <2>3. withoutSign(u) = Tail(u)
    BY <1>1, <1>9, <2>1, <2>2 DEF withoutSign, startsWith
  <2>4. /\ Tail(u) \in Seq(S) /\ Len(Tail(u)) = p
        /\ \A i \in 1 .. p : Tail(u)[i] = u[i + 1]
    <3>1. p + 1 - 1 = p
      BY <1>1, <1>2
    <3>2. /\ Tail(u) \in Seq(S) /\ Len(Tail(u)) = Len(u) - 1
          /\ \A i \in 1 .. Len(Tail(u)) : Tail(u)[i] = u[i + 1]
      BY <1>7, <2>1, HeadTailProperties
    <3>3. Len(Tail(u)) = p
      <4>1. Len(u) - 1 = p
        <5>1. p \in Int /\ p + 1 \in Int /\ (p + 1) - 1 = p
          BY <1>1, <1>2
        <5>2. Len(u) = p + 1
          BY <1>7, <1>9
        <5> QED
          BY <5>1, <5>2
      <4> QED
        BY <3>2, <4>1
    <3> QED
      BY <3>2, <3>3
  <2>5. \A i \in 1 .. p : Tail(u)[i] = w[i]
    <3>1. \A i \in 1 .. p : i + 1 \in 1 .. p + k /\ i \in 1 .. n
      BY <1>1, <1>2, <1>9
    <3> QED
      BY <1>1, <1>7, <1>8, <1>9, <2>4, <3>1
  <2>6. Tail(u) = w
    BY <1>8, <2>4, <2>5, SeqEqual
  <2>7. startsWith(u, {"-"}) <=> startsWith(t, {"-"})
    BY <1>1, <1>9, <2>1, <2>2 DEF startsWith
  <2> QED
    BY <2>3, <2>6, <2>7 DEF body, p, u, w
<1>10. CASE k = 0
  <2>1. body = t /\ p + k = p
    BY <1>1, <1>2, <1>10
  <2>2. u = w
    BY <1>3, <2>1 DEF w
  <2>3. \A c : startsWith(u, c) => startsWith(t, c)
    <3> SUFFICES ASSUME NEW c, startsWith(u, c) PROVE startsWith(t, c)
      OBVIOUS
    <3>1. u # <<>> /\ Head(u) \in c
      BY DEF startsWith
    <3>2. 1 \in 1 .. p + k /\ Len(t) # 0
      <4>1. Len(u) # 0
        BY <1>7, <3>1, EmptySeq
      <4> QED
        BY <1>1, <1>2, <1>7, <1>10, <4>1
    <3>3. Head(u) = u[1] /\ t # <<>> /\ Head(t) = t[1]
      BY <1>7, <3>1, <3>2, EmptySeq
    <3> QED
      BY <1>7, <3>1, <3>2, <3>3 DEF startsWith
  <2>4. ~startsWith(t, {"+", "-"})
    BY <1>4, <1>10
  <2>5. ~startsWith(u, {"+", "-"}) /\ ~startsWith(t, {"-"})
    BY <2>3, <2>4 DEF startsWith
  <2>6. ~startsWith(u, {"-"}) /\ withoutSign(u) = u
    BY <2>5 DEF startsWith, withoutSign
  <2> QED
    BY <2>2, <2>5, <2>6 DEF body, p, u, w
<1> QED
  BY <1>1, <1>9, <1>10

LEMMA AfterPoint ==
  ASSUME NEW S, NEW t \in Seq(S)
  PROVE  /\ afterPoint(t) = places(withoutSign(t)) /\ places(withoutSign(t)) \in Seq(S)
         /\ pointsOf(t) = {} => places(withoutSign(t)) = <<>>
         /\ pointsOf(t) # {} =>
              (Cardinality(pointsOf(t)) > 1 <=>
                 \E i \in DOMAIN places(withoutSign(t)) : places(withoutSign(t))[i] = ".")
<1> DEFINE body == withoutSign(t)
           k    == signs(t)
           n    == Len(body)
           p    == pointOf(body)
           u    == afterPoint(t)
           w    == places(body)
<1>1. /\ body \in Seq(S) /\ n \in Nat /\ k \in {0, 1} /\ Len(t) = n + k
      /\ \A i \in 1 .. n : body[i] = t[i + k]
  BY SignIs
<1>2. p \in 0 .. n /\ (\A i \in 1 .. p : body[i] # ".") /\ (p = n \/ body[p + 1] = ".")
  <2> HIDE DEF body
  <2> QED
    BY <1>1, SplitIs DEF IsPoint
<1>3. firstPoint(t) = p + k + 1 /\ (pointsOf(t) = {} <=> p = n)
  BY FirstPoint
<1>4. u = SubSeq(t, p + k + 1 + 1, n + k) /\ w = SubSeq(body, p + 2, n)
  BY <1>1, <1>3 DEF afterPoint, places
<1>5. pointsOf(t) = {i \in 1 .. n + k : t[i] = "."}
  BY <1>1, LenProperties DEF pointsOf
<1> HIDE DEF body, k, n, p, u, w
<1>6. \A i \in 1 .. n + k : t[i] \in S
  BY <1>1, ElementOfSeq
<1>7. \A i \in 1 .. n : body[i] \in S
  BY <1>1, ElementOfSeq DEF n
<1> DEFINE m == IF p = n THEN 0 ELSE n - p - 1
<1>8. m \in Nat /\ m <= n
  BY <1>1, <1>2
<1>9. /\ u \in Seq(S) /\ Len(u) = m
      /\ \A i \in 1 .. m : u[i] = t[p + k + 1 + i]
  <2> DEFINE a == p + k + 1 + 1
             b == n + k
  <2>1. a \in Int /\ b \in Int /\ (IF a <= b THEN b - a + 1 ELSE 0) = m
    BY <1>1, <1>2
  <2>2. \A i \in a .. b : t[i] \in S
    <3>1. \A i \in a .. b : i \in 1 .. n + k
      BY <1>1, <1>2
    <3> QED
      BY <1>6, <3>1
  <2>3. \A i \in 1 .. m : i \in 1 .. b - a + 1 /\ a + i - 1 = p + k + 1 + i
    BY <1>1, <1>2
  <2> HIDE DEF a, b, m
  <2>4. /\ SubSeq(t, a, b) \in Seq(S) /\ Len(SubSeq(t, a, b)) = m
        /\ \A i \in 1 .. b - a + 1 : SubSeq(t, a, b)[i] = t[a + i - 1]
    BY <2>1, <2>2, SubSeqProperties
  <2>5. u = SubSeq(t, a, b)
    BY <1>4 DEF a, b
  <2> QED
    BY <2>3, <2>4, <2>5
<1>10. /\ w \in Seq(S) /\ Len(w) = m
       /\ \A i \in 1 .. m : w[i] = body[p + 1 + i]
  <2> DEFINE a == p + 2
  <2>1. a \in Int /\ n \in Int /\ (IF a <= n THEN n - a + 1 ELSE 0) = m
    BY <1>1, <1>2
  <2>2. \A i \in a .. n : body[i] \in S
    <3>1. \A i \in a .. n : i \in 1 .. n
      BY <1>1, <1>2
    <3> QED
      BY <1>7, <3>1
  <2>3. \A i \in 1 .. m : i \in 1 .. n - a + 1 /\ a + i - 1 = p + 1 + i
    BY <1>1, <1>2
  <2> HIDE DEF a, m
  <2>4. /\ SubSeq(body, a, n) \in Seq(S) /\ Len(SubSeq(body, a, n)) = m
        /\ \A i \in 1 .. n - a + 1 : SubSeq(body, a, n)[i] = body[a + i - 1]
    BY <2>1, <2>2, SubSeqProperties
  <2>5. w = SubSeq(body, a, n)
    BY <1>4 DEF a
  <2> QED
    BY <2>3, <2>4, <2>5
<1>11. \A i \in 1 .. m : u[i] = w[i] /\ w[i] = t[p + k + 1 + i]
  <2>1. \A i \in 1 .. m : p + 1 + i \in 1 .. n /\ p + 1 + i + k = p + k + 1 + i
    BY <1>1, <1>2
  <2> HIDE DEF m
  <2> QED
    BY <1>1, <1>9, <1>10, <2>1
<1>12. u = w
  <2> HIDE DEF m
  <2> QED
    BY <1>9, <1>10, <1>11, SeqEqual
<1>13. p = n => w = <<>>
  BY <1>10, EmptySeq
<1>14. ASSUME p # n
       PROVE  Cardinality(pointsOf(t)) > 1 <=> \E i \in DOMAIN w : w[i] = "."
  <2>7. m = n - p - 1 /\ m \in Nat
    BY <1>1, <1>2, <1>14
  <2>8. n \in Nat /\ k \in Nat /\ p \in Nat
    BY <1>1, <1>2
  <2> HIDE DEF m
  <2>1. p + k + 1 \in pointsOf(t) /\ p + k + 1 \in Nat
    <3>1. p + 1 \in 1 .. n /\ p + k + 1 \in 1 .. n + k /\ p + 1 + k = p + k + 1
      BY <1>1, <1>2, <1>14
    <3> QED
      BY <1>1, <1>2, <1>5, <1>14, <3>1
  <2>2. \A j \in pointsOf(t) : j \in Nat /\ j <= n + k /\ p + k + 1 <= j
    <3>1. \A j \in pointsOf(t) : j \in 1 .. n + k /\ t[j] = "."
      BY <1>5
    <3>2. ASSUME NEW j \in pointsOf(t) PROVE p + k + 1 <= j
      <4>1. firstPoint(t) = CHOOSE i \in pointsOf(t) : \A e \in pointsOf(t) : i <= e
        BY <2>1 DEF firstPoint
      <4>2. \E i \in pointsOf(t) : \A e \in pointsOf(t) : i <= e
        <5>1. pointsOf(t) \subseteq Nat /\ pointsOf(t) # {}
          <6>1. \A e \in pointsOf(t) : e \in Nat
            BY <1>1, <3>1
          <6> QED
            BY <2>1, <6>1
        <5> QED
          BY <5>1, NatMinExists
      <4>3. \A e \in pointsOf(t) : firstPoint(t) <= e
        BY <4>1, <4>2
      <4> QED
        BY <1>3, <4>3
    <3> QED
      BY <1>1, <3>1, <3>2
  <2>3. IsFiniteSet(pointsOf(t))
    <3>1. IsFiniteSet(1 .. n + k)
      BY <1>1, FS_Interval
    <3> QED
      BY <1>5, <3>1, FS_Subset
  <2>4. DOMAIN w = 1 .. m
    BY <1>10, LenProperties
  <2>5. ASSUME NEW i \in DOMAIN w, w[i] = "."
        PROVE  Cardinality(pointsOf(t)) > 1
    <3> DEFINE j == p + k + 1 + i
               q == p + k + 1
    <3>1. i \in 1 .. m /\ t[j] = "."
      BY <1>11, <2>4, <2>5
    <3>2. j \in 1 .. n + k /\ j # p + k + 1
      BY <2>7, <2>8, <3>1
    <3>3. {q, j} \subseteq pointsOf(t)
      BY <1>5, <2>1, <3>1, <3>2
    <3>7. j # q
      BY <3>2
    <3> HIDE DEF j, q
    <3>4. Cardinality({q, j}) = 2
      <4>1. IsFiniteSet({j}) /\ Cardinality({j}) = 1
        BY FS_Singleton
      <4>2. {q, j} = {j} \cup {q} /\ q \notin {j}
        BY <3>7
      <4>3. Cardinality({j} \cup {q}) = Cardinality({j}) + 1
        BY <4>1, <4>2, FS_AddElement
      <4>4. Cardinality({j}) + 1 = 2
        BY <4>1
      <4>5. Cardinality({j} \cup {q}) = 2
        BY <4>3, <4>4
      <4> QED
        BY <4>2, <4>5
    <3>5. Cardinality({q, j}) <= Cardinality(pointsOf(t))
      BY <2>3, <3>3, FS_Subset
    <3>6. Cardinality(pointsOf(t)) \in Nat
      BY <2>3, FS_CardinalityType
    <3> QED
      BY <3>4, <3>5, <3>6
  <2>6. ASSUME Cardinality(pointsOf(t)) > 1 PROVE \E i \in DOMAIN w : w[i] = "."
    <3>1. PICK j \in pointsOf(t) : j # p + k + 1
      <4> SUFFICES ASSUME pointsOf(t) \subseteq {p + k + 1} PROVE FALSE
        OBVIOUS
      <4>1. pointsOf(t) = {p + k + 1}
        BY <2>1
      <4>2. Cardinality({p + k + 1}) = 1
        BY FS_Singleton
      <4> QED
        BY <2>6, <4>1, <4>2
    <3> DEFINE i == j - (p + k + 1)
    <3>2. i \in 1 .. m /\ p + k + 1 + i = j
      BY <2>2, <2>7, <2>8, <3>1
    <3>3. t[j] = "."
      BY <1>5
    <3> HIDE DEF i, m
    <3> QED
      BY <1>11, <2>4, <3>2, <3>3
  <2> QED
    BY <2>5, <2>6
<1> QED
  BY <1>3, <1>10, <1>12, <1>13, <1>14 DEF body, p, n, u, w

(* What is read after the point: no more digits than there are decimal     *)
(* places.                                                                 *)
readPlaces(w) == SubSeq(w, 1, IF Len(w) <= DecimalPlaces THEN Len(w) ELSE DecimalPlaces)

filled(a) == a \o zeros(DecimalPlaces - Len(a))

LEMMA Filled ==
  ASSUME NEW S, NEW w \in Seq(S)
  PROVE  /\ readPlaces(w) \in Seq(S) /\ Len(readPlaces(w)) \in 0 .. DecimalPlaces
         /\ SubSeq(w \o zeros(DecimalPlaces), 1, DecimalPlaces) = filled(readPlaces(w))
         /\ readPlaces(w) = <<>> <=> w = <<>>
         /\ w # <<>> => Head(readPlaces(w)) = Head(w)
<1> DEFINE N == DecimalPlaces
           T == S \cup Numerals
           m == IF Len(w) <= N THEN Len(w) ELSE N
           a == readPlaces(w)
           z == zeros(N)
           y == zeros(N - m)
           l == SubSeq(w \o z, 1, N)
<1>1. N \in Nat /\ N # 0 /\ Len(w) \in Nat /\ m \in 0 .. N /\ m <= Len(w) /\ N - m \in Nat
  BY DecAssumption, LenProperties
<1>2. a = SubSeq(w, 1, m)
  BY DEF readPlaces
<1>3. /\ z \in Seq(Numerals) /\ Len(z) = N /\ y \in Seq(Numerals) /\ Len(y) = N - m
      /\ (\A i \in 1 .. N : z[i] = "0") /\ \A i \in 1 .. N - m : y[i] = "0"
  <2>1. z \in Seq(Numerals) /\ Len(z) = N /\ y \in Seq(Numerals) /\ Len(y) = N - m
    BY <1>1, ZerosAre
  <2> QED
    BY <2>1 DEF zeros
<1>4. m = Len(w) \/ m = N
  OBVIOUS
<1> HIDE DEF N, m, a, z, y, l
<1>5. a \in Seq(S) /\ Len(a) = m /\ \A i \in 1 .. m : a[i] = w[i]
  <2>1. \A i \in 1 .. m : w[i] \in S
    <3>1. \A i \in 1 .. Len(w) : w[i] \in S
      BY ElementOfSeq
    <3> QED
      BY <1>1, <3>1
  <2>2. m \in Int /\ (1 <= m \/ m = 0) /\ m - 1 + 1 = m
    BY <1>1
  <2>3. \A i \in 1 .. m : 1 + i - 1 = i /\ i \in 1 .. m - 1 + 1
    BY <2>2
  <2> QED
    BY <1>2, <2>1, <2>2, <2>3, SubSeqProperties
<1>6. w \in Seq(T) /\ z \in Seq(T) /\ a \in Seq(T) /\ y \in Seq(T)
  <2>1. S \subseteq T /\ Numerals \subseteq T
    OBVIOUS
  <2> HIDE DEF T
  <2> QED
    BY <1>3, <1>5, <2>1, SeqMonotonic
<1> HIDE DEF T
<1>7. /\ w \o z \in Seq(T) /\ Len(w \o z) = Len(w) + N
      /\ \A i \in 1 .. Len(w) + N : (w \o z)[i] = IF i <= Len(w) THEN w[i] ELSE z[i - Len(w)]
  BY <1>3, <1>6, ConcatProperties
<1>8. /\ l \in Seq(T) /\ Len(l) = N /\ \A i \in 1 .. N : l[i] = (w \o z)[i]
  <2> DEFINE x == w \o z
  <2>4. x \in Seq(T) /\ Len(x) = Len(w) + N /\ l = SubSeq(x, 1, N)
    BY <1>7 DEF l
  <2> HIDE DEF x
  <2>1. \A i \in 1 .. N : x[i] \in T
    <3>1. \A i \in 1 .. Len(x) : x[i] \in T
      BY <2>4, ElementOfSeq
    <3>2. \A i \in 1 .. N : i \in 1 .. Len(x)
      BY <1>1, <2>4
    <3> QED
      BY <3>1, <3>2
  <2>2. N \in Int /\ 1 <= N /\ N - 1 + 1 = N
    BY <1>1
  <2>3. \A i \in 1 .. N : 1 + i - 1 = i /\ i \in 1 .. N - 1 + 1
    BY <2>2
  <2>5. l \in Seq(T) /\ Len(l) = N /\ \A i \in 1 .. N : l[i] = x[i]
    BY <2>1, <2>2, <2>3, <2>4, SubSeqProperties
  <2> QED
    BY <2>5 DEF x
<1>9. /\ a \o y \in Seq(T) /\ Len(a \o y) = m + (N - m)
      /\ \A i \in 1 .. m + (N - m) : (a \o y)[i] = IF i <= m THEN a[i] ELSE y[i - m]
  <2>1. /\ a \o y \in Seq(T) /\ Len(a \o y) = Len(a) + Len(y)
        /\ \A i \in 1 .. Len(a) + Len(y) :
             (a \o y)[i] = IF i <= Len(a) THEN a[i] ELSE y[i - Len(a)]
    BY <1>6, ConcatProperties
  <2>2. Len(a) = m /\ Len(y) = N - m
    BY <1>3, <1>5
  <2> QED
    BY <2>1, <2>2
<1>10. m + (N - m) = N
  BY <1>1
<1>11. ASSUME NEW i \in 1 .. N PROVE l[i] = (a \o y)[i]
  <2>1. l[i] = IF i <= Len(w) THEN w[i] ELSE z[i - Len(w)]
    <3>1. i \in 1 .. Len(w) + N
      BY <1>1
    <3> QED
      BY <1>7, <1>8, <3>1
  <2>2. (a \o y)[i] = IF i <= m THEN a[i] ELSE y[i - m]
    BY <1>9, <1>10
  <2>3. CASE i <= m
    BY <1>1, <1>5, <2>1, <2>2, <2>3
  <2>4. CASE ~(i <= m)
    <3>1. m = Len(w) /\ i - m \in 1 .. N - m /\ i - m \in 1 .. N
      BY <1>1, <1>4, <2>4
    <3>2. (a \o y)[i] = "0" /\ ~(i <= Len(w))
      BY <1>3, <2>2, <2>4, <3>1
    <3>3. l[i] = z[i - m]
      BY <2>1, <3>1, <3>2
    <3> QED
      BY <1>3, <3>1, <3>2, <3>3
  <2> QED
    BY <2>3, <2>4
<1>12. l = a \o y
  BY <1>8, <1>9, <1>10, <1>11, SeqEqual
<1>13. a = <<>> <=> w = <<>>
  <2>1. a = <<>> <=> Len(a) = 0
    BY <1>5, EmptySeq
  <2>2. w = <<>> <=> Len(w) = 0
    BY EmptySeq
  <2> QED
    BY <1>1, <1>4, <1>5, <2>1, <2>2
<1>14. w # <<>> => Head(a) = Head(w)
  <2> SUFFICES ASSUME w # <<>> PROVE Head(a) = Head(w)
    OBVIOUS
  <2>1. Len(w) # 0 /\ Len(a) # 0 /\ a # <<>>
    BY <1>5, <1>13, EmptySeq
  <2>2. 1 \in 1 .. m
    BY <1>1, <1>5, <2>1
  <2>3. Head(a) = a[1] /\ Head(w) = w[1]
    BY <1>5, <1>13
  <2> QED
    BY <1>5, <2>2, <2>3
<1>15. filled(a) = a \o y
  BY <1>5 DEF filled, y, N
<1> QED
  BY <1>1, <1>5, <1>12, <1>13, <1>14, <1>15 DEF a, l, z, N

(* A sequence all of whose elements are digits.                            *)
LEMMA AllDigits ==
  ASSUME NEW S, NEW s \in Seq(S)
  PROVE  (\A i \in DOMAIN s : isDigit(s[i])) <=> s \in Seq(Numerals)
<1>1. DOMAIN s = 1 .. Len(s) /\ Len(s) \in Nat
  BY LenProperties
<1>2. ASSUME s \in Seq(Numerals) PROVE \A i \in 1 .. Len(s) : s[i] \in Numerals
  BY <1>2, ElementOfSeq
<1>3. ASSUME \A i \in 1 .. Len(s) : s[i] \in Numerals PROVE s \in Seq(Numerals)
  <2>1. SubSeq(s, 1, Len(s)) \in Seq(Numerals)
    BY <1>1, <1>3, SubSeqProperties
  <2> QED
    BY <2>1, SubSeqFull
<1> QED
  BY <1>1, <1>2, <1>3, DigitIs

(* What the zeros do to the digits after the point.                        *)
LEMMA FilledIs ==
  ASSUME NEW S, NEW a \in Seq(S), Len(a) <= DecimalPlaces
  PROVE  /\ (\A i \in DOMAIN filled(a) : isDigit(filled(a)[i])) <=> a \in Seq(Numerals)
         /\ a \in Seq(Numerals) =>
              /\ filled(a) \in Seq(Numerals) /\ Len(filled(a)) = DecimalPlaces
              /\ number(filled(a)) = number(a) * pow10[DecimalPlaces - Len(a)]
              /\ number(filled(a)) \in Nat /\ number(filled(a)) < ONE_POINT_ZERO
<1> DEFINE m == DecimalPlaces - Len(a)
           z == zeros(m)
           T == S \cup Numerals
<1>1. Len(a) \in Nat /\ m \in Nat /\ Len(a) + m = DecimalPlaces
  BY DecAssumption, LenProperties
<1>2. filled(a) = a \o z
  BY DEF filled
<1> HIDE DEF m
<1>3. z \in Seq(Numerals) /\ Len(z) = m
  BY <1>1, ZerosAre
<1>4. a \in Seq(T) /\ z \in Seq(T)
  <2>1. S \subseteq T /\ Numerals \subseteq T
    OBVIOUS
  <2> HIDE DEF T, z
  <2> QED
    BY <1>3, <2>1, SeqMonotonic
<1> HIDE DEF T, z
<1>5. /\ a \o z \in Seq(T) /\ Len(a \o z) = Len(a) + m
      /\ \A i \in 1 .. Len(a) + m : (a \o z)[i] = IF i <= Len(a) THEN a[i] ELSE z[i - Len(a)]
  BY <1>3, <1>4, ConcatProperties
<1>6. ASSUME a \o z \in Seq(Numerals) PROVE a \in Seq(Numerals)
  <2>1. \A i \in 1 .. Len(a \o z) : (a \o z)[i] \in Numerals
    BY <1>6, ElementOfSeq
  <2>2. \A i \in 1 .. Len(a) : i \in 1 .. Len(a \o z) /\ (a \o z)[i] = a[i]
    BY <1>1, <1>5
  <2>3. \A i \in 1 .. Len(a) : a[i] \in Numerals
    BY <2>1, <2>2
  <2>4. SubSeq(a, 1, Len(a)) \in Seq(Numerals)
    BY <1>1, <2>3, SubSeqProperties
  <2> QED
    BY <2>4, SubSeqFull
<1>7. ASSUME a \in Seq(Numerals)
      PROVE  /\ a \o z \in Seq(Numerals) /\ Len(a \o z) = DecimalPlaces
             /\ number(a \o z) = number(a) * pow10[m]
             /\ number(a \o z) \in Nat /\ number(a \o z) < ONE_POINT_ZERO
  <2>1. a \o z \in Seq(Numerals)
    BY <1>3, <1>7, ConcatProperties
  <2>2. number(a \o z) = number(a) * pow10[m] + number(z) /\ number(z) = 0
    <3>1. number(a \o z) = number(a) * pow10[Len(z)] + number(z)
      BY <1>3, <1>7, NumberConcat
    <3>2. number(z) = 0
      BY <1>1, NumberZeros DEF z
    <3> QED
      BY <1>3, <3>1, <3>2
  <2>3. number(a) * pow10[m] \in Nat
    <3>1. number(a) \in Nat /\ pow10[m] \in Nat
      BY <1>1, <1>7, NumberIs, PowIs
    <3> QED
      BY <3>1
  <2>4. number(a \o z) \in Nat /\ number(a \o z) < pow10[DecimalPlaces]
    <3>1. Len(a \o z) = DecimalPlaces
      BY <1>1, <1>5
    <3> DEFINE s == a \o z
    <3>2. s \in Seq(Numerals) /\ Len(s) = DecimalPlaces
      BY <2>1, <3>1
    <3> HIDE DEF s
    <3>3. number(s) \in Nat /\ number(s) < pow10[DecimalPlaces]
      <4>1. <<>> \in Seq(Numerals)
        BY EmptySeq
      <4>2. number(s) < pow10[Len(s)]
        BY <3>2, <4>1, NumberConcat
      <4> QED
        BY <3>2, <4>2, NumberIs
    <3> QED
      BY <3>3 DEF s
  <2>5. number(a \o z) = number(a) * pow10[m]
    <3> DEFINE b == number(a) * pow10[m]
    <3>1. b \in Nat /\ number(a \o z) = b + 0
      BY <2>2, <2>3
    <3> HIDE DEF b
    <3>2. number(a \o z) = b
      BY <3>1
    <3> QED
      BY <3>2 DEF b
  <2> QED
    BY <1>1, <1>5, <2>1, <2>4, <2>5 DEF ONE_POINT_ZERO
<1>8. (\A i \in DOMAIN filled(a) : isDigit(filled(a)[i])) <=> a \o z \in Seq(Numerals)
  BY <1>2, <1>5, AllDigits
<1> QED
  BY <1>2, <1>6, <1>7, <1>8 DEF m

(* A whole part, scaled, and a fraction: what overflows on the way         *)
(* overflows in the end.                                                   *)
LEMMA CheckedSum ==
  ASSUME NEW sign \in Signs, NEW w \in Nat, NEW f \in Nat
  PROVE  UNION {checked(hi + lo) :
                  hi \in UNION {checked(h * ONE_POINT_ZERO) : h \in checked(sign * w)},
                  lo \in {sign * f}}
           = checked(sign * (w * ONE_POINT_ZERO + f))
<1> DEFINE p        == w * ONE_POINT_ZERO
           ones(h)  == checked(h * ONE_POINT_ZERO)
           sums(h)  == checked(h + sign * f)
           value    == sign * (p + f)
<1>1. ONE_POINT_ZERO \in Nat /\ ONE_POINT_ZERO # 0
  BY PowIs, DecAssumption DEF ONE_POINT_ZERO
<1>2. p \in Nat /\ w <= p
  BY <1>1
<1>3. sign * w \in Int /\ (sign * w) * ONE_POINT_ZERO = sign * p
  <2>1. CASE sign = 1
    BY <1>1, <2>1
  <2>2. CASE sign = -1
    BY <1>1, <2>2
  <2> QED
    BY <2>1, <2>2 DEF Signs
<1>4. ones(sign * w) = checked(sign * p)
  BY <1>3
<1> HIDE DEF p
<1>5. sign * p \in Int /\ value \in Int /\ sign * p + sign * f = value
  <2>1. CASE sign = 1
    BY <1>2, <2>1
  <2>2. CASE sign = -1
    BY <1>2, <2>2
  <2> QED
    BY <2>1, <2>2 DEF Signs
<1>6. ASSUME MIN <= value, value <= MAX
      PROVE  /\ MIN <= sign * w /\ sign * w <= MAX
             /\ MIN <= sign * p /\ sign * p <= MAX
  <2>1. CASE sign = 1
    BY <1>2, <1>6, <2>1, CheckedIs
  <2>2. CASE sign = -1
    BY <1>2, <1>6, <2>2, CheckedIs
  <2> QED
    BY <2>1, <2>2 DEF Signs
<1>7. CASE MIN <= value /\ value <= MAX
  <2>1. checked(sign * w) = {sign * w} /\ checked(sign * p) = {sign * p}
        /\ sums(sign * p) = {value} /\ checked(value) = {value}
    BY <1>3, <1>5, <1>6, <1>7, CheckedIs
  <2> HIDE DEF ones, sums, value
  <2>2. UNION {ones(h) : h \in checked(sign * w)} = {sign * p}
    BY <1>4, <2>1
  <2>3. UNION {sums(h) : h \in {sign * p}} = checked(value)
    BY <2>1
  <2>4. UNION {sums(h) : h \in UNION {ones(h) : h \in checked(sign * w)}} = checked(value)
    BY <2>2, <2>3
  <2> QED
    BY <2>4 DEF ones, sums, value, p
<1>8. CASE ~(MIN <= value /\ value <= MAX)
  <2>1. checked(value) = {}
    BY <1>5, <1>8, CheckedIs
  <2>2. ASSUME NEW h \in UNION {ones(h) : h \in checked(sign * w)} PROVE sums(h) = {}
    <3>1. PICK g \in checked(sign * w) : h \in ones(g)
      BY <2>2
    <3>2. g = sign * w
      BY <1>3, <3>1, CheckedIs
    <3>3. h = sign * p
      BY <1>4, <1>5, <3>1, <3>2, CheckedIs
    <3> QED
      BY <1>5, <2>1, <3>3
  <2> HIDE DEF ones, sums, value
  <2>3. UNION {sums(h) : h \in UNION {ones(h) : h \in checked(sign * w)}} = {}
    BY <2>2
  <2> QED
    BY <2>1, <2>3 DEF ones, sums, value, p
<1> QED
  BY <1>7, <1>8 DEF value, p

(* from_str by its parts.                                                  *)
signOf(s) == IF startsWith(s, {"-"}) THEN -1 ELSE 1

hisOf(sign, s) == UNION {checked(h * ONE_POINT_ZERO) : h \in adjust_hi(sign, s)}

sumsOf(his, los) == UNION {checked(hi + lo) : hi \in his, lo \in los}

LEMMA FromStr ==
  ASSUME NEW t
  PROVE  from_str(t) =
           IF Cardinality(pointsOf(t)) > 1 THEN {}
           ELSE sumsOf(hisOf(signOf(beforePoint(t)), withoutSign(beforePoint(t))),
                       IF pointsOf(t) = {} THEN {0}
                       ELSE low(signOf(beforePoint(t)), readPlaces(afterPoint(t))))
BY DEF from_str, pointsOf, firstPoint, beforePoint, afterPoint, readPlaces, signOf, hisOf, sumsOf

(* The digits after the point are read with the zeros that were left out.  *)
LEMMA LowIs ==
  ASSUME NEW S, NEW a \in Seq(S), Len(a) <= DecimalPlaces, ~startsWith(a, {"+", "-"}),
         NEW sign \in Signs
  PROVE  low(sign, a) = IF a # <<>> /\ a \in Seq(Numerals)
                        THEN {sign * number(filled(a))} ELSE {}
<1>1. withoutSign(a) = a /\ ~startsWith(a, {"-"})
  BY DEF withoutSign, startsWith
<1>2. (\A i \in DOMAIN a : isDigit(a[i])) <=> a \in Seq(Numerals)
  BY AllDigits
<1>3. parse(a) = IF a # <<>> /\ a \in Seq(Numerals) THEN {number(a)} ELSE {}
  BY <1>1, <1>2 DEF parse
<1>4. CASE a # <<>> /\ a \in Seq(Numerals)
  <2> DEFINE z == pow10[DecimalPlaces - Len(a)]
  <2>1. number(filled(a)) = number(a) * z /\ number(a) \in Nat
    BY <1>4, FilledIs, NumberIs
  <2>2. z \in Nat
    <3>1. Len(a) \in Nat /\ DecimalPlaces - Len(a) \in Nat
      BY DecAssumption, LenProperties
    <3> QED
      BY <3>1, PowIs
  <2>3. low(sign, a) = {sign * number(a) * z}
    BY <1>3, <1>4 DEF low
  <2> HIDE DEF z
  <2>4. sign * number(a) * z = sign * (number(a) * z)
    <3>1. CASE sign = 1
      BY <2>1, <2>2, <3>1
    <3>2. CASE sign = -1
      BY <2>1, <2>2, <3>2
    <3> QED
      BY <3>1, <3>2 DEF Signs
  <2> QED
    BY <1>4, <2>1, <2>3, <2>4
<1>5. CASE ~(a # <<>> /\ a \in Seq(Numerals))
  BY <1>3, <1>5 DEF low
<1> QED
  BY <1>4, <1>5

LEMMA WholeIs ==
  ASSUME NEW S, NEW t \in Seq(S)
  PROVE  /\ whole(withoutSign(t)) \in Seq(S)
         /\ hisOf(signOf(beforePoint(t)), withoutSign(beforePoint(t))) =
              UNION {checked(h * ONE_POINT_ZERO) :
                       h \in valueOf(signOf(t), whole(withoutSign(t)))}
         /\ signOf(beforePoint(t)) = signOf(t) /\ signOf(t) \in Signs
<1> DEFINE body == withoutSign(t)
           b    == SubSeq(body, 1, pointOf(body))
<1>1. withoutSign(beforePoint(t)) = b /\ signOf(beforePoint(t)) = signOf(t)
  BY BeforePoint DEF signOf
<1>2. signOf(t) \in Signs
  BY DEF signOf, Signs
<1>3. b \in Seq(S)
  <2>1. body \in Seq(S) /\ Len(body) \in Nat
    BY SignIs
  <2> HIDE DEF body
  <2>2. pointOf(body) \in 0 .. Len(body)
    BY <2>1, SplitIs DEF IsPoint
  <2>3. \A i \in 1 .. Len(body) : body[i] \in S
    BY <2>1, ElementOfSeq
  <2>4. \A i \in 1 .. pointOf(body) : body[i] \in S
    BY <2>1, <2>2, <2>3
  <2> QED
    BY <2>2, <2>4, SubSeqProperties
<1>4. whole(body) = withoutUnderscores(b)
  BY DEF whole
<1> HIDE DEF body, b
<1>5. adjust_hi(signOf(t), b) = valueOf(signOf(t), whole(body))
  BY <1>2, <1>3, <1>4, HiValue
<1>6. whole(body) \in Seq(S)
  BY <1>3, <1>4, KeptIs
<1>7. hisOf(signOf(beforePoint(t)), withoutSign(beforePoint(t))) = hisOf(signOf(t), b)
  BY <1>1
<1>8. hisOf(signOf(t), b) =
        UNION {checked(h * ONE_POINT_ZERO) : h \in valueOf(signOf(t), whole(body))}
  BY <1>5 DEF hisOf
<1> QED
  BY <1>1, <1>2, <1>6, <1>7, <1>8 DEF body

(* A text is read as all of its digits in one row.                         *)
LEMMA Exact ==
  ASSUME NEW S, NEW t \in Seq(S)
  PROVE  ReadExactly(t)
<1> DEFINE body == withoutSign(t)
           sign == signOf(t)
           w    == whole(body)
           r    == places(body)
           a    == readPlaces(r)
           f    == filled(a)
           his  == UNION {checked(h * ONE_POINT_ZERO) : h \in valueOf(sign, w)}
<1>1. body \in Seq(S) /\ Len(body) \in Nat
  BY SignIs
<1>2. pointsOf(t) = {} <=> pointOf(body) = Len(body)
  BY FirstPoint
<1>3. pointOf(body) \in 0 .. Len(body)
  <2> HIDE DEF body
  <2> QED
    BY <1>1, SplitIs DEF IsPoint
<1>4. /\ afterPoint(t) = r /\ r \in Seq(S)
      /\ pointsOf(t) = {} => r = <<>>
      /\ pointsOf(t) # {} => (Cardinality(pointsOf(t)) > 1 <=> \E i \in DOMAIN r : r[i] = ".")
  BY AfterPoint
<1>5. /\ w \in Seq(S) /\ sign \in Signs
      /\ from_str(t) = IF Cardinality(pointsOf(t)) > 1 THEN {}
                       ELSE sumsOf(his, IF pointsOf(t) = {} THEN {0} ELSE low(sign, a))
  BY <1>4, WholeIs, FromStr
<1> SUFFICES ASSUME ~startsWith(r, {"+", "-"})
             PROVE  from_str(t) = IF ~isNumeral(body) THEN {}
                                  ELSE checked(IF startsWith(t, {"-"}) THEN -number(w \o fraction(body))
                                               ELSE number(w \o fraction(body)))
  BY DEF ReadExactly
<1>6. fraction(body) = f
  <2> HIDE DEF body, r
  <2>1. SubSeq(r \o zeros(DecimalPlaces), 1, DecimalPlaces) = filled(readPlaces(r))
    BY <1>4, Filled
  <2> QED
    BY <2>1 DEF fraction, r
<1>7. (\A i \in DOMAIN w : isDigit(w[i])) <=> w \in Seq(Numerals)
  <2> HIDE DEF w
  <2> QED
    BY <1>5, AllDigits
<1>8. /\ a \in Seq(S) /\ Len(a) <= DecimalPlaces /\ (a = <<>> <=> r = <<>>)
      /\ ~startsWith(a, {"+", "-"})
  <2> HIDE DEF r, a
  <2>1. /\ a \in Seq(S) /\ Len(a) \in 0 .. DecimalPlaces
        /\ a = <<>> <=> r = <<>>
        /\ r # <<>> => Head(a) = Head(r)
    BY <1>4, Filled DEF a
  <2> QED
    BY <2>1, DecAssumption DEF startsWith
<1>9. /\ (\A i \in DOMAIN f : isDigit(f[i])) <=> a \in Seq(Numerals)
      /\ a \in Seq(Numerals) =>
           /\ f \in Seq(Numerals) /\ Len(f) = DecimalPlaces /\ number(f) \in Nat
  <2> HIDE DEF a
  <2> QED
    BY <1>8, FilledIs
<1>10. isNumeral(body) <=>
         /\ pointOf(body) < Len(body) => r # <<>>
         /\ w \in Seq(Numerals)
         /\ a \in Seq(Numerals)
         /\ \A i \in DOMAIN r : r[i] # "."
  <2>1. isNumeral(body) <=>
          /\ pointOf(body) < Len(body) => r # <<>>
          /\ \A i \in DOMAIN w : isDigit(w[i])
          /\ \A i \in DOMAIN f : isDigit(f[i])
          /\ \A i \in DOMAIN r : r[i] # "."
    BY <1>6 DEF isNumeral
  <2> HIDE DEF w, f, a, r
  <2> QED
    BY <1>7, <1>9, <2>1
<1>11. (IF startsWith(t, {"-"}) THEN -number(w \o f) ELSE number(w \o f)) =
         IF sign = -1 THEN -number(w \o f) ELSE number(w \o f)
  BY DEF signOf
<1> HIDE DEF body, sign, w, r, a, f, his
<1>12. w \notin Seq(Numerals) => his = {}
  BY DEF his, valueOf
<1>13. ASSUME w \in Seq(Numerals), a \in Seq(Numerals)
       PROVE  sumsOf(his, {sign * number(f)}) =
                checked(IF sign = -1 THEN -number(w \o f) ELSE number(w \o f))
  <2>1. f \in Seq(Numerals) /\ Len(f) = DecimalPlaces /\ number(f) \in Nat /\ number(w) \in Nat
    BY <1>9, <1>13, NumberIs
  <2>2. number(w \o f) = number(w) * ONE_POINT_ZERO + number(f)
    <3>1. number(w \o f) = number(w) * pow10[Len(f)] + number(f)
      BY <1>13, <2>1, NumberConcat
    <3> QED
      BY <2>1, <3>1 DEF ONE_POINT_ZERO
  <2>3. sumsOf(his, {sign * number(f)}) = checked(sign * number(w \o f))
    <3>1. his = UNION {checked(h * ONE_POINT_ZERO) : h \in checked(sign * number(w))}
      BY <1>13 DEF his, valueOf
    <3> QED
      BY <1>5, <2>1, <2>2, <3>1, CheckedSum DEF sumsOf
  <2>4. number(w \o f) \in Nat
    <3>1. w \o f \in Seq(Numerals)
      BY <1>13, <2>1, ConcatProperties
    <3> QED
      BY <3>1, NumberIs
  <2>5. sign * number(w \o f) = IF sign = -1 THEN -number(w \o f) ELSE number(w \o f)
    <3>1. CASE sign = 1
      BY <2>4, <3>1
    <3>2. CASE sign = -1
      BY <2>4, <3>2
    <3> QED
      BY <1>5, <3>1, <3>2 DEF Signs
  <2> QED
    BY <2>3, <2>5
<1>14. CASE pointsOf(t) = {}
  <2>1. r = <<>> /\ a = <<>> /\ ~(pointOf(body) < Len(body))
    BY <1>1, <1>2, <1>3, <1>4, <1>8, <1>14
  <2>2. a \in Seq(Numerals)
    BY <2>1, EmptySeq
  <2>3. isNumeral(body) <=> w \in Seq(Numerals)
    <3>1. \A i \in DOMAIN r : r[i] # "."
      <4>1. DOMAIN r = 1 .. 0
        BY <2>1
      <4> QED
        BY <4>1
    <3> QED
      BY <1>10, <2>1, <2>2, <3>1
  <2>4. from_str(t) = sumsOf(his, {0})
    <3>1. Cardinality(pointsOf(t)) = 0
      BY <1>14, FS_EmptySet
    <3> QED
      BY <1>5, <1>14, <3>1
  <2>5. sign * number(f) = 0
    <3>1. number(f) = 0
      <4>1. f = <<>> \o zeros(DecimalPlaces - 0)
        <5>1. Len(a) = 0
          BY <2>1, EmptySeq
        <5> QED
          BY <2>1, <5>1 DEF f, filled
      <4>2. f = zeros(DecimalPlaces)
        <5>1. DecimalPlaces \in Nat /\ DecimalPlaces - 0 = DecimalPlaces
          BY DecAssumption
        <5>2. zeros(DecimalPlaces) \in Seq(Numerals)
          BY <5>1, ZerosAre
        <5> QED
          BY <4>1, <5>1, <5>2, ConcatEmptySeq
      <4> QED
        BY <4>2, DecAssumption, NumberZeros
    <3> QED
      BY <1>5, <3>1 DEF Signs
  <2>6. CASE w \in Seq(Numerals)
    BY <1>6, <1>11, <1>13, <2>2, <2>3, <2>4, <2>5, <2>6
  <2>7. CASE w \notin Seq(Numerals)
    BY <1>12, <2>3, <2>4, <2>7 DEF sumsOf
  <2> QED
    BY <2>6, <2>7
<1>15. CASE pointsOf(t) # {}
  <2>1. pointOf(body) < Len(body)
    BY <1>1, <1>2, <1>3, <1>15
  <2>2. CASE \E i \in DOMAIN r : r[i] = "."
    BY <1>4, <1>5, <1>10, <1>15, <2>2
  <2>3. CASE ~\E i \in DOMAIN r : r[i] = "."
    <3>1. from_str(t) = sumsOf(his, low(sign, a))
      BY <1>4, <1>5, <1>15, <2>3
    <3>2. low(sign, a) = IF a # <<>> /\ a \in Seq(Numerals) THEN {sign * number(f)} ELSE {}
      BY <1>5, <1>8, LowIs DEF f
    <3>3. CASE a # <<>> /\ a \in Seq(Numerals) /\ w \in Seq(Numerals)
      <4>1. isNumeral(body)
        BY <1>8, <1>10, <2>3, <3>3
      <4> QED
        BY <1>6, <1>11, <1>13, <3>1, <3>2, <3>3, <4>1
    <3>4. CASE ~(a # <<>> /\ a \in Seq(Numerals) /\ w \in Seq(Numerals))
      <4>1. ~isNumeral(body)
        BY <1>8, <1>10, <2>1, <3>4
      <4>2. sumsOf(his, low(sign, a)) = {}
        BY <1>12, <3>2, <3>4 DEF sumsOf
      <4> QED
        BY <3>1, <4>1, <4>2
    <3> QED
      BY <3>3, <3>4
  <2> QED
    BY <2>2, <2>3
<1> QED
  BY <1>14, <1>15 DEF body, w
-----------------------------------------------------------------------------
(* A numeral: a sign, the digits before the point, and the digits after it *)
(* when there are any.                                                     *)

minus(n)   == IF n < 0 THEN <<"-">> ELSE <<>>
pointed(p) == IF p = <<>> THEN <<>> ELSE <<".">> \o p

NumeralCharacters == Numerals \cup {".", "-"}

LEMMA NoUnderscores ==
  \A s \in Seq(Numerals) : withoutUnderscores(s) = s
<1> DEFINE T == {s \in Seq(Numerals) : withoutUnderscores(s) = s}
<1>1. <<>> \in T
  BY KeptIs, EmptySeq
<1>2. ASSUME NEW s \in Seq(Numerals), NEW c \in Numerals, s \in T PROVE Append(s, c) \in T
  <2>1. Append(s, c) \in Seq(Numerals)
    BY AppendProperties
  <2>2. withoutUnderscores(Append(s, c)) = nextKept(s, c)
    BY <1>2, KeptIs
  <2>3. nextKept(s, c) = Append(s, c)
    BY DigitIs DEF nextKept
  <2> QED
    BY <2>1, <2>2, <2>3
<1> HIDE DEF T
<1>3. \A s \in Seq(Numerals) : s \in T
  BY <1>1, <1>2, SeqInduction
<1> QED
  BY <1>3 DEF T

LEMMA PointedIs ==
  ASSUME NEW p \in Seq(Numerals), p # <<>>
  PROVE  /\ pointed(p) \in Seq(NumeralCharacters) /\ Len(pointed(p)) = Len(p) + 1
         /\ pointed(p)[1] = "."
         /\ \A i \in 1 .. Len(p) : pointed(p)[i + 1] = p[i]
<1>1. <<".">> \in Seq(NumeralCharacters) /\ Len(<<".">>) = 1 /\ <<".">>[1] = "."
  BY DEF NumeralCharacters
<1>2. p \in Seq(NumeralCharacters) /\ Len(p) \in Nat
  BY SeqMonotonic, LenProperties DEF NumeralCharacters
<1> DEFINE d == <<".">>
<1>3. d \in Seq(NumeralCharacters) /\ Len(d) = 1 /\ d[1] = "." /\ pointed(p) = d \o p
  BY <1>1 DEF pointed
<1> HIDE DEF d
<1>4. /\ d \o p \in Seq(NumeralCharacters) /\ Len(d \o p) = 1 + Len(p)
      /\ \A i \in 1 .. 1 + Len(p) : (d \o p)[i] = IF i <= 1 THEN d[i] ELSE p[i - 1]
  BY <1>2, <1>3, ConcatProperties
<1>5. 1 \in 1 .. 1 + Len(p) /\ 1 + Len(p) = Len(p) + 1
  BY <1>2
<1>6. \A i \in 1 .. Len(p) : i + 1 \in 1 .. 1 + Len(p) /\ ~(i + 1 <= 1) /\ i + 1 - 1 = i
  BY <1>2
<1>7. (d \o p)[1] = d[1]
  BY <1>4, <1>5
<1>8. \A i \in 1 .. Len(p) : (d \o p)[i + 1] = p[i]
  BY <1>4, <1>6
<1> QED
  BY <1>3, <1>4, <1>5, <1>7, <1>8

(* The parts of a numeral.                                                 *)
LEMMA BodyParts ==
  ASSUME NEW w \in Seq(Numerals), NEW p \in Seq(Numerals)
  PROVE  /\ w \o pointed(p) \in Seq(NumeralCharacters)
         /\ whole(w \o pointed(p)) = w /\ places(w \o pointed(p)) = p
         /\ pointOf(w \o pointed(p)) < Len(w \o pointed(p)) => p # <<>>
         /\ ~startsWith(w \o pointed(p), {"+", "-"})
<1> DEFINE C    == NumeralCharacters
           d    == pointed(p)
           body == w \o d
           n    == Len(w)
           m    == IF p = <<>> THEN 0 ELSE Len(p) + 1
<1>1. w \in Seq(C) /\ p \in Seq(C) /\ n \in Nat /\ Len(p) \in Nat /\ m \in Nat
  BY SeqMonotonic, LenProperties DEF NumeralCharacters
<1>2. /\ d \in Seq(C) /\ Len(d) = m
      /\ p # <<>> => d[1] = "." /\ \A i \in 1 .. Len(p) : d[i + 1] = p[i]
  <2>1. CASE p = <<>>
    <3>1. d = <<>>
      BY <2>1 DEF pointed
    <3> QED
      BY <2>1, <3>1, EmptySeq
  <2>2. CASE p # <<>>
    BY <2>2, PointedIs
  <2> QED
    BY <2>1, <2>2
<1>3. p = <<>> <=> Len(p) = 0
  BY EmptySeq
<1>4. m = 0 <=> p = <<>>
  BY <1>1
<1>5. p # <<>> => m = Len(p) + 1
  OBVIOUS
<1> HIDE DEF C, d, m
<1>6. /\ body \in Seq(C) /\ Len(body) = n + m
      /\ \A i \in 1 .. n + m : body[i] = IF i <= n THEN w[i] ELSE d[i - n]
  BY <1>1, <1>2, ConcatProperties
<1> HIDE DEF body, n
<1>7. \A i \in 1 .. n : body[i] = w[i] /\ body[i] \in Numerals
  <2>1. \A i \in 1 .. n : w[i] \in Numerals
    BY ElementOfSeq DEF n
  <2>2. \A i \in 1 .. n : i \in 1 .. n + m /\ i <= n
    BY <1>1
  <2> QED
    BY <1>6, <2>1, <2>2
<1>8. ASSUME p # <<>> PROVE body[n + 1] = "."
  <2> DEFINE j == n + 1
  <2>1. j \in 1 .. n + m /\ ~(j <= n) /\ j - n = 1
    BY <1>1, <1>5, <1>8
  <2>2. d[1] = "."
    BY <1>2, <1>8
  <2> HIDE DEF j
  <2>3. body[j] = d[j - n]
    BY <1>6, <2>1
  <2>4. body[j] = "."
    BY <2>1, <2>2, <2>3
  <2> QED
    BY <2>4 DEF j
<1>9. ASSUME p # <<>>, NEW i \in 1 .. Len(p) PROVE body[n + 1 + i] = p[i]
  <2> DEFINE j == n + 1 + i
  <2>1. j \in 1 .. n + m /\ ~(j <= n) /\ j - n = i + 1
    BY <1>1, <1>5, <1>9
  <2>2. d[i + 1] = p[i]
    BY <1>2, <1>9
  <2> HIDE DEF j
  <2>3. body[j] = d[j - n]
    BY <1>6, <2>1
  <2>4. body[j] = p[i]
    BY <2>1, <2>2, <2>3
  <2> QED
    BY <2>4 DEF j
<1>10. pointOf(body) = n
  <2> DEFINE q == pointOf(body)
  <2>1. /\ q \in 0 .. n + m
        /\ \A i \in 1 .. q : body[i] # "."
        /\ q = n + m \/ body[q + 1] = "."
    <3>1. IsPoint(body, pointOf(body))
      BY <1>6, SplitIs
    <3> QED
      BY <1>6, <3>1 DEF IsPoint
  <2> HIDE DEF q
  <2>2. ~(q < n)
    <3> SUFFICES ASSUME q < n PROVE FALSE
      OBVIOUS
    <3>1. q + 1 \in 1 .. n /\ q # n + m
      BY <1>1, <2>1
    <3>2. body[q + 1] \in Numerals
      BY <1>7, <3>1
    <3> QED
      BY <2>1, <3>1, <3>2, DigitIs
  <2>3. ~(q > n)
    <3> SUFFICES ASSUME q > n PROVE FALSE
      OBVIOUS
    <3>1. n + 1 \in 1 .. q /\ m # 0
      BY <1>1, <2>1
    <3> QED
      BY <1>4, <1>8, <2>1, <3>1
  <2>4. q = n
    BY <1>1, <2>1, <2>2, <2>3
  <2> QED
    BY <2>4 DEF q
<1>11. whole(body) = w
  <2> DEFINE b == SubSeq(body, 1, n)
  <2>1. \A i \in 1 .. n : body[i] \in Numerals
    BY <1>7
  <2>2. n \in Int /\ (1 <= n \/ n = 0) /\ n - 1 + 1 = n
    BY <1>1
  <2>3. \A i \in 1 .. n : 1 + i - 1 = i /\ i \in 1 .. n - 1 + 1
    BY <2>2
  <2>4. b \in Seq(Numerals) /\ Len(b) = n /\ \A i \in 1 .. n : b[i] = body[i]
    BY <2>1, <2>2, <2>3, SubSeqProperties
  <2> HIDE DEF b
  <2>5. \A i \in 1 .. n : b[i] = w[i]
    BY <1>7, <2>4
  <2>6. b = w
    BY <2>4, <2>5, SeqEqual DEF n
  <2>7. withoutUnderscores(b) = b
    BY <2>4, NoUnderscores
  <2> QED
    BY <1>10, <2>6, <2>7 DEF whole, b
<1>12. places(body) = p
  <2>1. places(body) = SubSeq(body, n + 2, n + m)
    BY <1>6, <1>10 DEF places
  <2>2. CASE p = <<>>
    <3>1. n + m < n + 2 /\ n + m \in Int /\ n + 2 \in Int
      BY <1>1, <1>4, <2>2
    <3> QED
      BY <2>1, <2>2, <3>1, SubSeqEmpty
  <2>3. CASE p # <<>>
    <3> DEFINE a == n + 2
               b == n + m
               s == SubSeq(body, a, b)
    <3>1. a \in Int /\ b \in Int /\ a <= b /\ b - a + 1 = Len(p)
      BY <1>1, <1>3, <1>5, <2>3
    <3>2. \A i \in a .. b : body[i] \in C
      <4>1. \A i \in a .. b : i \in 1 .. n + m
        BY <1>1
      <4> QED
        BY <1>6, <4>1, ElementOfSeq
    <3>3. \A i \in 1 .. Len(p) : a + i - 1 = n + 1 + i
      BY <1>1
    <3> HIDE DEF a, b
    <3>4. s \in Seq(C) /\ Len(s) = Len(p) /\ \A i \in 1 .. Len(p) : s[i] = body[a + i - 1]
      BY <3>1, <3>2, SubSeqProperties
    <3> HIDE DEF s
    <3>5. \A i \in 1 .. Len(p) : s[i] = p[i]
      BY <1>9, <2>3, <3>3, <3>4
    <3>6. s = p
      BY <1>1, <3>4, <3>5, SeqEqual
    <3> QED
      BY <2>1, <3>6 DEF s, a, b
  <2> QED
    BY <2>2, <2>3
<1>13. pointOf(body) < Len(body) => p # <<>>
  BY <1>1, <1>4, <1>6, <1>10
<1>14. ~startsWith(body, {"+", "-"})
  <2> SUFFICES ASSUME body # <<>> PROVE Head(body) \notin {"+", "-"}
    BY DEF startsWith
  <2>1. Len(body) # 0 /\ Head(body) = body[1]
    BY <1>6, EmptySeq
  <2>2. CASE n # 0
    <3>1. 1 \in 1 .. n
      BY <1>1, <2>2
    <3>2. body[1] \in Numerals
      BY <1>7, <3>1
    <3> QED
      BY <2>1, <3>2, DigitIs
  <2>3. CASE n = 0
    <3>1. m # 0
      BY <1>1, <1>6, <2>1, <2>3
    <3>2. body[1] = "."
      BY <1>4, <1>8, <2>3, <3>1
    <3> QED
      BY <2>1, <3>2
  <2> QED
    BY <2>2, <2>3
<1> QED
  BY <1>6, <1>11, <1>12, <1>13, <1>14 DEF body, d, C

LEMMA MinusIs ==
  ASSUME NEW n \in Int, NEW S, "-" \in S, NEW b \in Seq(S), ~startsWith(b, {"+", "-"})
  PROVE  /\ minus(n) \o b \in Seq(S)
         /\ withoutSign(minus(n) \o b) = b
         /\ startsWith(minus(n) \o b, {"-"}) <=> n < 0
<1>1. CASE n < 0
  <2> DEFINE d == <<"-">>
             t == d \o b
  <2>1. d \in Seq(S) /\ Len(d) = 1 /\ d[1] = "-" /\ minus(n) = d
    BY <1>1 DEF minus
  <2> HIDE DEF d
  <2>2. Len(b) \in Nat
    BY LenProperties
  <2>3. /\ t \in Seq(S) /\ Len(t) = 1 + Len(b)
        /\ \A i \in 1 .. 1 + Len(b) : t[i] = IF i <= 1 THEN d[i] ELSE b[i - 1]
    <3>1. /\ t \in Seq(S) /\ Len(t) = Len(d) + Len(b)
          /\ \A i \in 1 .. Len(d) + Len(b) : t[i] = IF i <= Len(d) THEN d[i] ELSE b[i - Len(d)]
      BY <2>1, ConcatProperties
    <3>2. Len(d) = 1
      BY <2>1
    <3> HIDE DEF t
    <3> QED
      BY <3>1, <3>2
  <2> HIDE DEF t
  <2>4. 1 \in 1 .. 1 + Len(b) /\ 1 + Len(b) # 0
    BY <2>2
  <2>5. t # <<>> /\ t[1] = "-"
    BY <2>1, <2>3, <2>4, EmptySeq
  <2>6. Head(t) = "-"
    BY <2>3, <2>5
  <2>7. Tail(t) = b
    <3>1. /\ Tail(t) \in Seq(S) /\ Len(Tail(t)) = Len(t) - 1
          /\ \A i \in 1 .. Len(Tail(t)) : Tail(t)[i] = t[i + 1]
      BY <2>3, <2>5, HeadTailProperties
    <3>2. Len(Tail(t)) = Len(b)
      BY <2>2, <2>3, <3>1
    <3>3. \A i \in 1 .. Len(b) : i + 1 \in 1 .. 1 + Len(b) /\ ~(i + 1 <= 1) /\ i + 1 - 1 = i
      BY <2>2
    <3>4. \A i \in 1 .. Len(b) : Tail(t)[i] = b[i]
      BY <2>3, <3>1, <3>2, <3>3
    <3> QED
      BY <3>1, <3>2, <3>4, SeqEqual
  <2> QED
    BY <1>1, <2>1, <2>3, <2>5, <2>6, <2>7 DEF startsWith, withoutSign, t
<1>2. CASE ~(n < 0)
  <2>1. minus(n) \o b = b
    BY <1>2, ConcatEmptySeq DEF minus
  <2> QED
    BY <1>2, <2>1 DEF startsWith, withoutSign
<1> QED
  BY <1>1, <1>2

(* A numeral is read as its digits.                                        *)
LEMMA ReadsNumeral ==
  ASSUME NEW n \in Int, NEW w \in Seq(Numerals), NEW p \in Seq(Numerals), Len(p) <= DecimalPlaces
  PROVE  from_str(minus(n) \o (w \o pointed(p))) =
           checked(IF n < 0 THEN -number(w \o filled(p)) ELSE number(w \o filled(p)))
<1> DEFINE body == w \o pointed(p)
           t    == minus(n) \o body
<1>1. /\ body \in Seq(NumeralCharacters) /\ whole(body) = w /\ places(body) = p
      /\ pointOf(body) < Len(body) => p # <<>>
      /\ ~startsWith(body, {"+", "-"})
  BY BodyParts
<1> HIDE DEF body
<1>2. /\ t \in Seq(NumeralCharacters) /\ withoutSign(t) = body
      /\ startsWith(t, {"-"}) <=> n < 0
  BY <1>1, MinusIs DEF NumeralCharacters
<1> HIDE DEF t
<1>3. ReadExactly(t)
  BY <1>2, Exact
<1>4. Len(p) \in Nat /\ DOMAIN p = 1 .. Len(p) /\ \A i \in 1 .. Len(p) : p[i] \in Numerals
  BY LenProperties, ElementOfSeq
<1>5. ~startsWith(p, {"+", "-"})
  <2> SUFFICES ASSUME p # <<>> PROVE Head(p) \notin {"+", "-"}
    BY DEF startsWith
  <2>1. Head(p) \in Numerals
    BY HeadTailProperties
  <2> QED
    BY <2>1, DigitIs
<1>6. fraction(body) = filled(p)
  <2>1. readPlaces(p) = p
    BY SubSeqFull DEF readPlaces
  <2>2. fraction(body) = SubSeq(p \o zeros(DecimalPlaces), 1, DecimalPlaces)
    BY <1>1 DEF fraction
  <2> QED
    BY <2>1, <2>2, Filled
<1>7. isNumeral(body)
  <2>1. \A i \in DOMAIN w : isDigit(w[i])
    BY AllDigits
  <2>2. \A i \in DOMAIN filled(p) : isDigit(filled(p)[i])
    BY FilledIs
  <2>3. \A i \in DOMAIN p : p[i] # "."
    BY <1>4, DigitIs
  <2> QED
    BY <1>1, <1>6, <2>1, <2>2, <2>3 DEF isNumeral
<1>8. from_str(t) = checked(IF n < 0 THEN -number(w \o filled(p)) ELSE number(w \o filled(p)))
  BY <1>1, <1>2, <1>3, <1>5, <1>6, <1>7 DEF ReadExactly
<1> QED
  BY <1>8 DEF t, body
-----------------------------------------------------------------------------
(* What to_str writes is a numeral.                                        *)

(* Concatenation, for sequences that are parts of others.                  *)
concat(s, t) == s \o t

LEMMA ConcatLetters ==
  ASSUME NEW S
  PROVE  \A s, t \in Letters(S) : concat(s, t) \in Letters(S)
BY ConcatProperties DEF concat, Letters

LEMMA LettersAssociate ==
  ASSUME NEW S
  PROVE  \A s, t, u \in Letters(S) : concat(concat(s, t), u) = concat(s, concat(t, u))
BY ConcatAssociative DEF concat, Letters

lastNonzero(s) == CHOOSE i \in DOMAIN s : s[i] # "0" /\ \A j \in i + 1 .. Len(s) : s[j] = "0"

cut(s, location) ==
  IF lastNonzero(s) <= location THEN SubSeq(s, 1, location)
  ELSE SubSeq(s, 1, location) \o <<".">> \o SubSeq(s, location + 1, lastNonzero(s))

magnitude(n) == IF n < 0 THEN -n ELSE n

LEMMA ToStr ==
  ASSUME NEW n
  PROVE  to_str(n) = IF n = 0 THEN <<"0">>
                     ELSE cut(padded(n, DecimalPlaces + 1),
                              Len(padded(n, DecimalPlaces + 1)) - DecimalPlaces)
BY DEF to_str, cut, lastNonzero

LEMMA Padded ==
  ASSUME NEW n, NEW width
  PROVE  padded(n, width) =
           minus(n) \o zeros(width - Len(minus(n) \o decimal[magnitude(n)])) \o decimal[magnitude(n)]
BY Zenon DEF padded, minus, magnitude, zeros

(* A number is padded with zeros, to at least one character before the     *)
(* decimal places.                                                         *)
LEMMA PaddedIs ==
  ASSUME NEW n \in Int
  PROVE  \E s \in Seq(Numerals) : /\ padded(n, DecimalPlaces + 1) = minus(n) \o s
                                  /\ number(s) = magnitude(n)
                                  /\ Len(minus(n)) + Len(s) >= DecimalPlaces + 1
<1> DEFINE C == NumeralCharacters
           d == decimal[magnitude(n)]
           g == minus(n)
           width == DecimalPlaces + 1
           k == width - Len(g \o d)
           z == zeros(k)
<1> HIDE DEF width
<1>1. magnitude(n) \in Nat
  BY DEF magnitude
<1>2. d \in Seq(Numerals) /\ number(d) = magnitude(n) /\ Len(d) \in Nat
  BY <1>1, DecimalIs
<1>3. g \in Seq(C) /\ Len(g) \in {0, 1}
  <2>1. <<"-">> \in Seq(C) /\ Len(<<"-">>) = 1
    BY DEF NumeralCharacters
  <2>2. <<>> \in Seq(C) /\ Len(<<>>) = 0
    BY EmptySeq
  <2>3. g = <<"-">> \/ g = <<>>
    BY DEF minus
  <2> HIDE DEF C, g
  <2> QED
    BY <2>1, <2>2, <2>3
<1>4. padded(n, width) = g \o z \o d
  BY Padded
<1> HIDE DEF d, g
<1>5. d \in Seq(C)
  BY <1>2, SeqMonotonic DEF NumeralCharacters
<1>6. Len(g \o d) = Len(g) + Len(d)
  BY <1>3, <1>5, ConcatProperties
<1>7. k \in Int /\ k = DecimalPlaces + 1 - (Len(g) + Len(d))
  BY <1>2, <1>3, <1>6, DecAssumption DEF width
<1> HIDE DEF k
<1>8. z \in Seq(Numerals) /\ number(z) = 0 /\ Len(z) \in Nat /\ Len(z) >= k
  <2>1. CASE k >= 0
    <3>1. k \in Nat
      BY <1>7, <2>1
    <3>2. z \in Seq(Numerals) /\ Len(z) = k /\ number(z) = 0
      BY <3>1, ZerosAre, NumberZeros
    <3> HIDE DEF z
    <3> QED
      BY <3>1, <3>2
  <2>2. CASE k < 0
    <3>1. 1 .. k = 1 .. 0
      <4>1. k \in Int
        BY <1>7
      <4> QED
        BY <2>2, <4>1
    <3>2. z = zeros(0)
      BY <3>1 DEF zeros
    <3>3. zeros(0) \in Seq(Numerals) /\ Len(zeros(0)) = 0 /\ number(zeros(0)) = 0
      BY ZerosAre, NumberZeros
    <3> QED
      BY <1>7, <2>2, <3>2, <3>3
  <2> QED
    BY <1>7, <2>1, <2>2
<1> HIDE DEF z
<1> DEFINE s == z \o d
<1>9. s \in Seq(Numerals) /\ Len(s) = Len(z) + Len(d)
  BY <1>2, <1>8, ConcatProperties
<1>10. number(s) = magnitude(n)
  <2> DEFINE t == pow10[Len(d)]
  <2>1. number(s) = number(z) * t + number(d)
    BY <1>2, <1>8, NumberConcat
  <2>2. t \in Nat
    BY <1>2, PowIs
  <2> HIDE DEF t
  <2>3. number(s) = 0 * t + number(d)
    BY <1>8, <2>1
  <2>4. 0 * t = 0 /\ number(d) \in Nat
    BY <1>1, <1>2, <2>2
  <2>5. 0 * t + number(d) = number(d)
    BY <2>4
  <2> QED
    BY <1>2, <2>3, <2>5
<1>11. g \o z \o d = g \o s
  <2>1. z \in Seq(C)
    BY <1>8, SeqMonotonic DEF NumeralCharacters
  <2>2. g \in Letters(C) /\ z \in Letters(C) /\ d \in Letters(C)
    BY <1>3, <1>5, <2>1 DEF Letters
  <2> HIDE DEF C
  <2>3. concat(concat(g, z), d) = concat(g, concat(z, d))
    BY <2>2, LettersAssociate
  <2> QED
    BY <2>3 DEF concat
<1>12. Len(g) + Len(s) >= DecimalPlaces + 1
  BY <1>2, <1>3, <1>7, <1>8, <1>9, DecAssumption
<1> QED
  BY <1>4, <1>9, <1>10, <1>11, <1>12 DEF g, width

(* Zeros at the end.                                                       *)
LEMMA ZeroTail ==
  ASSUME NEW s \in Seq(Numerals), NEW q \in 0 .. Len(s),
         \A i \in q + 1 .. Len(s) : s[i] = "0"
  PROVE  SubSeq(s, 1, q) \o zeros(Len(s) - q) = s
<1> DEFINE n == Len(s)
           m == n - q
           r == SubSeq(s, q + 1, n)
           z == zeros(m)
<1>1. n \in Nat /\ q \in 0 .. n /\ m \in Nat
  BY LenProperties
<1>2. z \in Seq(Numerals) /\ Len(z) = m
  BY <1>1, ZerosAre
<1>3. \A i \in 1 .. m : z[i] = "0"
  BY DEF zeros
<1>4. \A i \in 1 .. n : s[i] \in Numerals
  BY ElementOfSeq
<1>5. \A i \in q + 1 .. n : s[i] = "0"
  OBVIOUS
<1>6. SubSeq(s, 1, q) \o r = s
  <2>1. 1 \in 1 .. Len(s) + 1 /\ q \in 1 - 1 .. Len(s) /\ Len(s) \in q .. Len(s)
    BY <1>1
  <2>2. SubSeq(s, 1, q) \o SubSeq(s, q + 1, Len(s)) = SubSeq(s, 1, Len(s))
    BY <2>1, ConcatAdjacentSubSeq
  <2> QED
    BY <2>2, SubSeqFull
<1>7. r \in Seq(Numerals) /\ Len(r) = m /\ \A i \in 1 .. m : r[i] = s[q + i]
  <2> DEFINE a == q + 1
  <2>1. a \in Int /\ n \in Int /\ (IF a <= n THEN n - a + 1 ELSE 0) = m /\ n - a + 1 = m
    BY <1>1
  <2>2. \A i \in a .. n : s[i] \in Numerals
    <3>1. \A i \in a .. n : i \in 1 .. n
      BY <1>1
    <3> QED
      BY <1>4, <3>1
  <2>3. \A i \in 1 .. m : a + i - 1 = q + i
    BY <1>1
  <2> HIDE DEF a, m, n
  <2>4. /\ SubSeq(s, a, n) \in Seq(Numerals) /\ Len(SubSeq(s, a, n)) = m
        /\ \A i \in 1 .. m : SubSeq(s, a, n)[i] = s[a + i - 1]
    BY <2>1, <2>2, SubSeqProperties
  <2> QED
    BY <2>3, <2>4 DEF a
<1>8. \A i \in 1 .. m : q + i \in q + 1 .. n
  BY <1>1
<1> HIDE DEF n, m, r, z
<1>9. \A i \in 1 .. m : r[i] = z[i]
  BY <1>3, <1>5, <1>7, <1>8
<1>10. r = z
  BY <1>2, <1>7, <1>9, SeqEqual
<1> QED
  BY <1>6, <1>10 DEF z, m, n

(* The last digit that is not zero.                                        *)
LEMMA LastDigit ==
  ASSUME NEW s \in Seq(Numerals), number(s) # 0
  PROVE  \E q \in 1 .. Len(s) : s[q] # "0" /\ \A i \in q + 1 .. Len(s) : s[i] = "0"
<1> DEFINE T == {q \in Nat : q <= Len(s) /\ \A i \in q + 1 .. Len(s) : s[i] = "0"}
<1>1. Len(s) \in Nat
  BY LenProperties
<1>2. Len(s) \in T
  BY <1>1
<1>3. PICK q \in T : \A e \in T : q <= e
  BY <1>2, NatMinExists
<1>4. q \in Nat /\ q <= Len(s) /\ \A i \in q + 1 .. Len(s) : s[i] = "0"
  BY <1>3
<1>5. q # 0
  <2> SUFFICES ASSUME q = 0 PROVE FALSE
    OBVIOUS
  <2>1. SubSeq(s, 1, q) \o zeros(Len(s) - q) = s
    BY <1>1, <1>4, ZeroTail
  <2>2. SubSeq(s, 1, q) = <<>> /\ Len(s) - q = Len(s)
    BY <1>1
  <2>3. zeros(Len(s)) \in Seq(Numerals)
    BY <1>1, ZerosAre
  <2>4. s = zeros(Len(s))
    BY <2>1, <2>2, <2>3, ConcatEmptySeq
  <2>5. number(zeros(Len(s))) = 0
    BY <1>1, NumberZeros
  <2> QED
    BY <2>4, <2>5
<1>6. s[q] # "0"
  <2> SUFFICES ASSUME s[q] = "0" PROVE FALSE
    OBVIOUS
  <2>1. q - 1 \in Nat /\ q - 1 <= Len(s) /\ ~(q <= q - 1)
    BY <1>1, <1>4, <1>5
  <2>2. \A i \in q - 1 + 1 .. Len(s) : i = q \/ i \in q + 1 .. Len(s)
    BY <1>1, <1>4
  <2>3. \A i \in q - 1 + 1 .. Len(s) : s[i] = "0"
    BY <1>4, <2>2
  <2>4. q - 1 \in T
    BY <2>1, <2>3
  <2> QED
    BY <1>3, <2>1, <2>4
<1> QED
  BY <1>1, <1>4, <1>5, <1>6

LEMMA FourAssociate ==
  ASSUME NEW S
  PROVE  \A s, t, u, v \in Letters(S) :
           concat(concat(concat(s, t), u), v) = concat(s, concat(t, concat(u, v)))
<1> SUFFICES ASSUME NEW s \in Letters(S), NEW t \in Letters(S), NEW u \in Letters(S),
                    NEW v \in Letters(S)
             PROVE  concat(concat(concat(s, t), u), v) = concat(s, concat(t, concat(u, v)))
  OBVIOUS
<1>1. concat(s, t) \in Letters(S) /\ concat(u, v) \in Letters(S)
  BY ConcatLetters
<1>2. concat(concat(concat(s, t), u), v) = concat(concat(s, t), concat(u, v))
  BY <1>1, LettersAssociate
<1>3. concat(concat(s, t), concat(u, v)) = concat(s, concat(t, concat(u, v)))
  BY <1>1, LettersAssociate
<1> QED
  BY <1>2, <1>3

LEMMA CutConcat ==
  ASSUME NEW S, NEW g \in Seq(S), NEW s \in Seq(S), NEW q \in 0 .. Len(s)
  PROVE  SubSeq(g \o s, 1, Len(g) + q) = g \o SubSeq(s, 1, q)
<1> DEFINE n == Len(g)
           m == Len(s)
           x == g \o s
           b == n + q
           l == SubSeq(x, 1, b)
           f == SubSeq(s, 1, q)
           r == g \o f
<1>1. n \in Nat /\ m \in Nat /\ q \in 0 .. m /\ b \in Nat
  BY LenProperties
<1>2. /\ x \in Seq(S) /\ Len(x) = n + m
      /\ \A i \in 1 .. n + m : x[i] = IF i <= n THEN g[i] ELSE s[i - n]
  BY ConcatProperties
<1> HIDE DEF x, l, f, r
<1>3. f \in Seq(S) /\ Len(f) = q /\ \A i \in 1 .. q : f[i] = s[i]
  <2>1. \A i \in 1 .. q : s[i] \in S
    <3>1. \A i \in 1 .. m : s[i] \in S
      BY ElementOfSeq
    <3>2. \A i \in 1 .. q : i \in 1 .. m
      BY <1>1
    <3> QED
      BY <3>1, <3>2
  <2>2. q \in Int /\ (1 <= q \/ q = 0) /\ q - 1 + 1 = q
    BY <1>1
  <2>3. \A i \in 1 .. q : 1 + i - 1 = i /\ i \in 1 .. q - 1 + 1
    BY <2>2
  <2> QED
    BY <2>1, <2>2, <2>3, SubSeqProperties DEF f
<1>4. l \in Seq(S) /\ Len(l) = b /\ \A i \in 1 .. b : l[i] = x[i]
  <2>1. \A i \in 1 .. b : x[i] \in S
    <3>1. \A i \in 1 .. Len(x) : x[i] \in S
      BY <1>2, ElementOfSeq
    <3>2. \A i \in 1 .. b : i \in 1 .. Len(x)
      BY <1>1, <1>2
    <3> QED
      BY <3>1, <3>2
  <2> HIDE DEF b
  <2>2. b \in Int /\ (1 <= b \/ b = 0) /\ b - 1 + 1 = b
    BY <1>1
  <2>3. \A i \in 1 .. b : 1 + i - 1 = i /\ i \in 1 .. b - 1 + 1
    BY <2>2
  <2> QED
    BY <2>1, <2>2, <2>3, SubSeqProperties DEF l
<1>5. /\ r \in Seq(S) /\ Len(r) = b
      /\ \A i \in 1 .. b : r[i] = IF i <= n THEN g[i] ELSE f[i - n]
  <2>1. /\ r \in Seq(S) /\ Len(r) = Len(g) + Len(f)
        /\ \A i \in 1 .. Len(g) + Len(f) : r[i] = IF i <= Len(g) THEN g[i] ELSE f[i - Len(g)]
    BY <1>3, ConcatProperties DEF r
  <2> QED
    BY <1>3, <2>1
<1>6. ASSUME NEW i \in 1 .. b PROVE l[i] = r[i]
  <2>1. i \in 1 .. n + m
    BY <1>1
  <2>2. l[i] = IF i <= n THEN g[i] ELSE s[i - n]
    BY <1>2, <1>4, <2>1
  <2>3. CASE i <= n
    BY <1>5, <2>2, <2>3
  <2>4. CASE ~(i <= n)
    <3>1. i - n \in 1 .. q
      BY <1>1, <2>4
    <3>2. f[i - n] = s[i - n]
      BY <1>3, <3>1
    <3>3. r[i] = f[i - n]
      BY <1>5, <2>4
    <3>4. l[i] = s[i - n]
      BY <2>2, <2>4
    <3> QED
      BY <3>2, <3>3, <3>4
  <2> QED
    BY <2>3, <2>4
<1> HIDE DEF b
<1>7. l = r
  BY <1>4, <1>5, <1>6, SeqEqual
<1> QED
  BY <1>7 DEF l, r, f, x, b, n

(* The digits that to_str writes of a number: as many before the point as  *)
(* there are, and those after it without the zeros at the end.             *)
Writes(n, w, p) ==
  /\ w \in Seq(Numerals) /\ p \in Seq(Numerals) /\ Len(p) <= DecimalPlaces
  /\ p # <<>> => p[Len(p)] # "0"
  /\ number(w \o filled(p)) = magnitude(n)
  /\ to_str(n) = minus(n) \o (w \o pointed(p))

LEMMA NoPlaces ==
  /\ <<>> \in Seq(Numerals) /\ Len(<<>>) = 0 /\ 0 <= DecimalPlaces
  /\ filled(<<>>) = zeros(DecimalPlaces) /\ pointed(<<>>) = <<>>
  /\ \A w \in Seq(Numerals) : w \o pointed(<<>>) = w
<1>1. DecimalPlaces \in Nat /\ DecimalPlaces - 0 = DecimalPlaces
  BY DecAssumption
<1>2. <<>> \in Seq(Numerals) /\ Len(<<>>) = 0
  BY EmptySeq
<1>3. zeros(DecimalPlaces) \in Seq(Numerals)
  BY <1>1, ZerosAre
<1>4. filled(<<>>) = zeros(DecimalPlaces)
  <2>1. filled(<<>>) = <<>> \o zeros(DecimalPlaces - 0)
    BY <1>2 DEF filled
  <2> QED
    BY <1>1, <1>3, <2>1, ConcatEmptySeq
<1>5. pointed(<<>>) = <<>>
  BY DEF pointed
<1>6. \A w \in Seq(Numerals) : w \o <<>> = w
  BY ConcatEmptySeq
<1> QED
  BY <1>1, <1>2, <1>4, <1>5, <1>6

LEMMA ZeroWritten ==
  \E w, p : Writes(0, w, p)
<1> DEFINE w == <<"0">>
<1>1. w \in Seq(Numerals) /\ w = Append(<<>>, "0")
  <2>1. "0" \in Numerals
    BY DigitIs
  <2>2. <<"0">> = Append(<<>>, "0")
    OBVIOUS
  <2>3. <<>> \in Seq(Numerals)
    BY EmptySeq
  <2>4. Append(<<>>, "0") \in Seq(Numerals)
    BY <2>1, <2>3, AppendProperties
  <2> QED
    BY <2>2, <2>4
<1>2. minus(0) = <<>> /\ magnitude(0) = 0 /\ to_str(0) = w
  <2>1. to_str(0) = w
    BY ToStr
  <2>2. minus(0) = <<>> /\ magnitude(0) = 0
    BY DEF minus, magnitude
  <2> QED
    BY <2>1, <2>2
<1> HIDE DEF w
<1>3. number(w) = 0
  <2>1. number(w) = 10 * number(<<>>) + to_digit("0")
    BY <1>1, DigitIs, NumberIs, NoPlaces
  <2>2. number(<<>>) = 0 /\ to_digit("0") = 0
    BY NumberIs, DigitIs
  <2> QED
    BY <2>1, <2>2
<1>4. number(w \o zeros(DecimalPlaces)) = 0
  <2> DEFINE z == zeros(DecimalPlaces)
             t == pow10[Len(z)]
  <2>1. z \in Seq(Numerals) /\ Len(z) \in Nat /\ number(z) = 0
    BY DecAssumption, ZerosAre, NumberZeros
  <2> HIDE DEF z
  <2>2. number(w \o z) = number(w) * t + number(z)
    BY <1>1, <2>1, NumberConcat
  <2>3. t \in Nat
    BY <2>1, PowIs
  <2> HIDE DEF t
  <2>4. number(w \o z) = 0 * t + 0
    BY <1>3, <2>1, <2>2
  <2>5. number(w \o z) = 0
    BY <2>3, <2>4
  <2> QED
    BY <2>5 DEF z
<1>5. to_str(0) = minus(0) \o (w \o pointed(<<>>))
  BY <1>1, <1>2, NoPlaces, ConcatEmptySeq
<1>6. Writes(0, w, <<>>)
  BY <1>1, <1>2, <1>4, <1>5, NoPlaces DEF Writes
<1> QED
  BY <1>6

LEMMA NumberWritten ==
  ASSUME NEW n \in Int
  PROVE  \E w, p : Writes(n, w, p)
<1>1. CASE n = 0
  BY <1>1, ZeroWritten
<1>2. CASE n # 0
  <2> DEFINE C == NumeralCharacters
             N == DecimalPlaces
             g == minus(n)
             k == Len(g)
  <2>1. PICK s \in Seq(Numerals) : /\ padded(n, DecimalPlaces + 1) = g \o s
                                   /\ number(s) = magnitude(n)
                                   /\ k + Len(s) >= DecimalPlaces + 1
    BY PaddedIs
  <2> DEFINE m == Len(s)
             x == g \o s
             b == m - N
             w == SubSeq(s, 1, b)
  <2>2. magnitude(n) \in Nat \ {0}
    BY <1>2 DEF magnitude
  <2>3. /\ g \in Seq(C) /\ k \in {0, 1} /\ s \in Seq(C) /\ m \in Nat /\ N \in Nat \ {0}
    <3>1. /\ <<>> \in Seq(C) /\ Len(<<>>) = 0
          /\ <<"-">> \in Seq(C) /\ Len(<<"-">>) = 1
      BY EmptySeq DEF NumeralCharacters
    <3>2. g = <<>> \/ g = <<"-">>
      BY DEF minus
    <3>3. Numerals \subseteq C
      BY DEF NumeralCharacters
    <3> HIDE DEF C, g
    <3>4. s \in Seq(C)
      BY <3>3, SeqMonotonic
    <3> QED
      BY <3>1, <3>2, <3>4, LenProperties, DecAssumption
  <2>4. number(s) # 0
    BY <2>1, <2>2
  <2>5. PICK q \in 1 .. m : s[q] # "0" /\ \A i \in q + 1 .. m : s[i] = "0"
    BY <2>4, LastDigit
  <2>6. k + m >= N + 1
    BY <2>1
  <2>7. to_str(n) = cut(x, Len(x) - N)
    BY <1>2, <2>1, ToStr
  <2> HIDE DEF C, g, k, m, x, N
  <2>8. b \in 0 .. m /\ b \in Nat /\ m - b = N /\ k + m - N = k + b
    <3>1. N <= m
      BY <2>3, <2>6
    <3> QED
      BY <2>3, <3>1
  <2> HIDE DEF b
  <2>9. /\ x \in Seq(C) /\ Len(x) = k + m /\ DOMAIN x = 1 .. k + m
        /\ \A i \in 1 .. k + m : x[i] = IF i <= k THEN g[i] ELSE s[i - k]
    <3>1. /\ x \in Seq(C) /\ Len(x) = k + m
          /\ \A i \in 1 .. k + m : x[i] = IF i <= k THEN g[i] ELSE s[i - k]
      BY <2>3, ConcatProperties DEF x, k, m
    <3> QED
      BY <3>1, LenProperties
  <2>10. \A i \in 1 .. m : x[k + i] = s[i]
    <3> SUFFICES ASSUME NEW i \in 1 .. m PROVE x[k + i] = s[i]
      OBVIOUS
    <3> DEFINE j == k + i
    <3>1. j \in 1 .. k + m /\ ~(j <= k) /\ j - k = i
      BY <2>3
    <3> HIDE DEF j
    <3>2. x[j] = s[j - k]
      BY <2>9, <3>1
    <3>3. x[j] = s[i]
      BY <3>1, <3>2
    <3> QED
      BY <3>3 DEF j
  <2>11. lastNonzero(x) = k + q
    <3>1. k + q \in DOMAIN x /\ x[k + q] # "0"
      BY <2>3, <2>5, <2>9, <2>10
    <3>2. \A j \in k + q + 1 .. k + m : x[j] = "0"
      <4> SUFFICES ASSUME NEW j \in k + q + 1 .. k + m PROVE x[j] = "0"
        OBVIOUS
      <4>1. j - k \in 1 .. m /\ j - k \in q + 1 .. m /\ k + (j - k) = j
        BY <2>3
      <4>2. x[k + (j - k)] = s[j - k] /\ s[j - k] = "0"
        BY <2>5, <2>10, <4>1
      <4> QED
        BY <4>1, <4>2
    <3>4. ASSUME NEW i \in DOMAIN x, x[i] # "0", \A j \in i + 1 .. Len(x) : x[j] = "0"
          PROVE  i = k + q
      <4>1. i \in 1 .. k + m /\ k + q \in 1 .. k + m
        BY <2>9, <3>1
      <4>2. ~(i < k + q)
        <5> SUFFICES ASSUME i < k + q PROVE FALSE
          OBVIOUS
        <5>1. k + q \in i + 1 .. Len(x)
          BY <2>3, <2>9, <4>1
        <5> QED
          BY <3>1, <3>4, <5>1
      <4>3. ~(i > k + q)
        <5> SUFFICES ASSUME i > k + q PROVE FALSE
          OBVIOUS
        <5>1. i \in k + q + 1 .. k + m
          BY <2>3, <4>1
        <5> QED
          BY <3>2, <3>4, <5>1
      <4> QED
        BY <4>1, <4>2, <4>3
    <3>5. \E i \in DOMAIN x : x[i] # "0" /\ \A j \in i + 1 .. Len(x) : x[j] = "0"
      <4> DEFINE e == k + q
      <4>1. e \in DOMAIN x /\ x[e] # "0" /\ \A j \in e + 1 .. Len(x) : x[j] = "0"
        BY <2>9, <3>1, <3>2
      <4> HIDE DEF e
      <4> QED
        BY <4>1
    <3> DEFINE c == CHOOSE i \in DOMAIN x : x[i] # "0" /\ \A j \in i + 1 .. Len(x) : x[j] = "0"
    <3>6. c \in DOMAIN x /\ x[c] # "0" /\ \A j \in c + 1 .. Len(x) : x[j] = "0"
      BY <3>5
    <3> HIDE DEF c
    <3>7. c = k + q
      BY <3>4, <3>6
    <3> QED
      BY <3>7 DEF lastNonzero, c
  <2>12. Len(x) - N = k + b
    <3>1. Len(x) = k + m
      BY <2>9
    <3>2. k \in Int /\ m \in Int /\ N \in Int
      BY <2>3
    <3> QED
      BY <2>8, <3>1, <3>2
  <2>13. SubSeq(x, 1, k + b) = g \o w
    BY <2>3, <2>8, CutConcat DEF x, k, m
  <2>14. w \in Seq(Numerals) /\ w \in Seq(C)
    <3>1. \A i \in 1 .. m : s[i] \in Numerals
      BY ElementOfSeq DEF m
    <3>2. \A i \in 1 .. b : s[i] \in Numerals
      BY <2>3, <2>8, <3>1
    <3>3. w \in Seq(Numerals)
      BY <2>8, <3>2, SubSeqProperties
    <3> HIDE DEF w
    <3> QED
      BY <3>3, SeqMonotonic DEF C, NumeralCharacters
  <2> HIDE DEF w
  <2>15. CASE q <= b
    <3>1. to_str(n) = g \o w
      <4>1. k + q <= k + b
        BY <2>3, <2>8, <2>15
      <4> QED
        BY <2>7, <2>11, <2>12, <2>13, <4>1 DEF cut
    <3>2. w \o zeros(m - b) = s
      <4>1. \A i \in b + 1 .. m : i \in q + 1 .. m
        BY <2>3, <2>8, <2>15
      <4>2. \A i \in b + 1 .. m : s[i] = "0"
        BY <2>5, <4>1
      <4> QED
        BY <2>8, <4>2, ZeroTail DEF w, m
    <3>3. w \o filled(<<>>) = s
      <4>1. filled(<<>>) = zeros(N)
        BY NoPlaces DEF N
      <4> QED
        BY <2>8, <3>2, <4>1
    <3>4. Writes(n, w, <<>>)
      <4>1. to_str(n) = minus(n) \o (w \o pointed(<<>>))
        BY <2>14, <3>1, NoPlaces DEF g
      <4> QED
        BY <2>1, <2>14, <3>3, <4>1, NoPlaces DEF Writes
    <3> QED
      BY <3>4
  <2>16. CASE ~(q <= b)
    <3> DEFINE p == SubSeq(s, b + 1, q)
               l == q - b
    <3>1. q \in Nat /\ l \in Nat \ {0} /\ l <= N /\ q - (b + 1) + 1 = l /\ N - l = m - q
          /\ b + 1 \in 1 .. m /\ q \in 1 .. m /\ b + 1 <= q
      BY <2>3, <2>8, <2>16
    <3>2. /\ p \in Seq(Numerals) /\ Len(p) = l
          /\ \A i \in 1 .. l : p[i] = s[b + i]
      <4> DEFINE a == b + 1
      <4>1. a \in Int /\ q \in Int /\ a <= q /\ q - a + 1 = l
        BY <2>8, <3>1
      <4>2. \A i \in a .. q : s[i] \in Numerals
        <5>1. \A i \in 1 .. m : s[i] \in Numerals
          BY ElementOfSeq DEF m
        <5>2. \A i \in a .. q : i \in 1 .. m
          BY <2>3, <2>8, <3>1
        <5> QED
          BY <5>1, <5>2
      <4>3. \A i \in 1 .. l : a + i - 1 = b + i
        BY <2>8, <3>1
      <4> HIDE DEF a, l
      <4>4. /\ SubSeq(s, a, q) \in Seq(Numerals) /\ Len(SubSeq(s, a, q)) = l
            /\ \A i \in 1 .. l : SubSeq(s, a, q)[i] = s[a + i - 1]
        BY <4>1, <4>2, SubSeqProperties
      <4> QED
        BY <4>3, <4>4 DEF a
    <3> HIDE DEF p
    <3>3. p # <<>> /\ p[Len(p)] # "0"
      <4>1. l \in 1 .. l /\ b + l = q
        BY <2>8, <3>1
      <4>2. p[l] = s[b + l]
        BY <3>2, <4>1
      <4>3. p[Len(p)] = s[q]
        BY <3>2, <4>1, <4>2
      <4>4. Len(p) # 0
        BY <3>1, <3>2
      <4> QED
        BY <2>5, <4>3, <4>4, EmptySeq
    <3>4. w \o p = SubSeq(s, 1, q)
      <4>1. 1 \in 1 .. Len(s) + 1 /\ b \in 1 - 1 .. Len(s) /\ q \in b .. Len(s)
        BY <2>3, <2>8, <3>1 DEF m
      <4> QED
        BY <4>1, ConcatAdjacentSubSeq DEF w, p
    <3>5. w \o filled(p) = s
      <4> DEFINE z == zeros(m - q)
      <4>1. filled(p) = p \o z
        BY <3>1, <3>2 DEF filled, N
      <4>2. z \in Seq(Numerals)
        BY <2>3, <3>1, ZerosAre
      <4>3. SubSeq(s, 1, q) \o z = s
        <5>1. q \in 0 .. m /\ \A i \in q + 1 .. m : s[i] = "0"
          BY <2>3, <2>5, <3>1
        <5>2. q \in 0 .. Len(s) /\ \A i \in q + 1 .. Len(s) : s[i] = "0"
          BY <5>1 DEF m
        <5>3. SubSeq(s, 1, q) \o zeros(Len(s) - q) = s
          BY <5>2, ZeroTail
        <5> QED
          BY <5>3 DEF m
      <4> HIDE DEF z
      <4>4. w \o (p \o z) = (w \o p) \o z
        <5>1. w \in Letters(Numerals) /\ p \in Letters(Numerals) /\ z \in Letters(Numerals)
          BY <2>14, <3>2, <4>2 DEF Letters
        <5>2. concat(concat(w, p), z) = concat(w, concat(p, z))
          BY <5>1, LettersAssociate
        <5> QED
          BY <5>2 DEF concat
      <4> QED
        BY <3>4, <4>1, <4>3, <4>4
    <3>6. SubSeq(x, k + b + 1, k + q) = p
      <4> DEFINE a == k + b + 1
                 c == k + q
      <4>1. /\ a \in Len(g) + 1 .. Len(g) + Len(s) /\ c \in Len(g) + 1 .. Len(g) + Len(s)
            /\ a - Len(g) = b + 1 /\ c - Len(g) = q
        BY <2>3, <2>8, <3>1 DEF k, m
      <4> HIDE DEF a, c
      <4>2. SubSeq(g \o s, a, c) = SubSeq(s, a - Len(g), c - Len(g))
        BY <2>3, <4>1, SubSeqOfConcat2
      <4>3. SubSeq(x, a, c) = p
        BY <4>1, <4>2 DEF x, p
      <4> QED
        BY <4>3 DEF a, c
    <3>7. to_str(n) = g \o w \o <<".">> \o p
      <4>1. ~(k + q <= k + b)
        BY <2>3, <2>8, <3>1, <2>16
      <4> QED
        BY <2>7, <2>11, <2>12, <2>13, <3>6, <4>1 DEF cut
    <3>8. g \o w \o <<".">> \o p = g \o (w \o pointed(p))
      <4> DEFINE d == <<".">>
      <4>1. d \in Seq(C)
        BY DEF C, NumeralCharacters
      <4>2. p \in Seq(C)
        BY <3>2, SeqMonotonic DEF C, NumeralCharacters
      <4>3. pointed(p) = d \o p
        BY <3>3 DEF pointed
      <4> HIDE DEF d
      <4>4. g \in Letters(C) /\ w \in Letters(C) /\ d \in Letters(C) /\ p \in Letters(C)
        BY <2>3, <2>14, <4>1, <4>2 DEF Letters
      <4>5. concat(concat(concat(g, w), d), p) = concat(g, concat(w, concat(d, p)))
        BY <4>4, FourAssociate
      <4> QED
        BY <4>3, <4>5 DEF d, concat
    <3>9. Writes(n, w, p)
      <4>1. Len(p) <= DecimalPlaces
        BY <3>1, <3>2 DEF N
      <4> QED
        BY <2>1, <2>14, <3>2, <3>3, <3>5, <3>7, <3>8, <4>1 DEF Writes, g
    <3> QED
      BY <3>9
  <2> QED
    BY <2>15, <2>16
<1> QED
  BY <1>1, <1>2

(* The digits in one row are the whole part and the fraction.              *)
LEMMA DigitsInRow ==
  ASSUME NEW n, NEW w, NEW p, Writes(n, w, p)
  PROVE  /\ number(w) \in Nat /\ number(filled(p)) \in Nat /\ number(filled(p)) < ONE_POINT_ZERO
         /\ magnitude(n) = number(w) * ONE_POINT_ZERO + number(filled(p))
<1>1. /\ w \in Seq(Numerals) /\ p \in Seq(Numerals) /\ Len(p) <= DecimalPlaces
      /\ number(w \o filled(p)) = magnitude(n)
  BY DEF Writes
<1>2. /\ filled(p) \in Seq(Numerals) /\ Len(filled(p)) = DecimalPlaces
      /\ number(filled(p)) \in Nat /\ number(filled(p)) < ONE_POINT_ZERO
  BY <1>1, FilledIs
<1>3. number(w) \in Nat
  BY <1>1, NumberIs
<1>4. number(w \o filled(p)) = number(w) * pow10[Len(filled(p))] + number(filled(p))
  BY <1>1, <1>2, NumberConcat
<1> QED
  BY <1>1, <1>2, <1>3, <1>4 DEF ONE_POINT_ZERO

(* from_str reads what to_str writes.                                      *)
LEMMA RoundTrip ==
  ASSUME NEW n \in MIN .. MAX
  PROVE  from_str(to_str(n)) = {n}
<1>1. n \in Int /\ MIN <= n /\ n <= MAX
  BY CheckedIs
<1>2. PICK w, p : Writes(n, w, p)
  BY <1>1, NumberWritten
<1>3. from_str(to_str(n)) =
        checked(IF n < 0 THEN -number(w \o filled(p)) ELSE number(w \o filled(p)))
  BY <1>1, <1>2, ReadsNumeral DEF Writes
<1>4. number(w \o filled(p)) = magnitude(n)
  BY <1>2 DEF Writes
<1>5. (IF n < 0 THEN -magnitude(n) ELSE magnitude(n)) = n
  BY <1>1 DEF magnitude
<1>6. checked(n) = {n}
  BY <1>1, CheckedIs
<1> QED
  BY <1>3, <1>4, <1>5, <1>6

LEMMA Quotients ==
  ASSUME NEW d \in Nat \ {0}, NEW q \in Nat, NEW r \in Nat, r < d, NEW e \in Nat,
         q * d + r = d * e
  PROVE  q = e /\ r = 0
<1>1. d * q \in Nat /\ d * e \in Nat /\ d * q + r = d * e
  OBVIOUS
<1>2. ~(q < e)
  <2> SUFFICES ASSUME q < e PROVE FALSE
    OBVIOUS
  <2>1. d * q + d <= d * e
    BY Below
  <2> QED
    BY <1>1, <2>1
<1>3. ~(e < q)
  <2> SUFFICES ASSUME e < q PROVE FALSE
    OBVIOUS
  <2>1. d * e + d <= d * q
    BY Below
  <2> QED
    BY <1>1, <2>1
<1>4. q = e
  BY <1>2, <1>3
<1> QED
  BY <1>1, <1>4

(* An integer is written without a point, and read as the integer.         *)
LEMMA IntegerRead ==
  ASSUME NEW value \in Int, NEW n \in Int, n = from_i32(value)
  PROVE  parse(to_str(n)) = {value}
<1> DEFINE one == ONE_POINT_ZERO
           v   == magnitude(value)
<1>1. one \in Nat \ {0} /\ n = one * value
  BY PowIs, DecAssumption DEF ONE_POINT_ZERO, from_i32
<1>2. PICK w, p : Writes(n, w, p)
  BY NumberWritten
<1> HIDE DEF one
<1>3. v \in Nat /\ magnitude(n) = one * v /\ (n < 0 <=> value < 0) /\ (n = 0 <=> value = 0)
  <2>1. CASE value < 0
    <3> DEFINE u == -value
    <3>1. u \in Nat \ {0} /\ v = u /\ value = -u
      BY <2>1 DEF magnitude
    <3> HIDE DEF u
    <3> DEFINE y == one * u
    <3>2. y \in Nat \ {0} /\ n = -y
      BY <1>1, <3>1
    <3> HIDE DEF y
    <3>3. n < 0 /\ n # 0 /\ magnitude(n) = y
      BY <3>2 DEF magnitude
    <3> QED
      BY <2>1, <3>1, <3>3 DEF y
  <2>2. CASE value >= 0
    <3>1. value \in Nat /\ v = value
      BY <2>2 DEF magnitude
    <3> DEFINE y == one * value
    <3>2. y \in Nat /\ n = y /\ (y = 0 <=> value = 0)
      BY <1>1, <3>1
    <3> HIDE DEF y
    <3>3. ~(n < 0) /\ magnitude(n) = y
      BY <3>2 DEF magnitude
    <3> QED
      BY <2>2, <3>1, <3>2, <3>3 DEF y
  <2> QED
    BY <2>1, <2>2
<1>4. /\ w \in Seq(Numerals) /\ p \in Seq(Numerals) /\ Len(p) <= DecimalPlaces
      /\ p # <<>> => p[Len(p)] # "0"
      /\ to_str(n) = minus(n) \o (w \o pointed(p))
  BY <1>2 DEF Writes
<1>5. number(w) = v /\ number(filled(p)) = 0
  <2> DEFINE q == number(w)
             r == number(filled(p))
  <2>1. /\ q \in Nat /\ r \in Nat /\ r < one
        /\ magnitude(n) = q * one + r
    BY <1>2, DigitsInRow DEF one
  <2> HIDE DEF q, r, v
  <2>2. q * one + r = one * v
    BY <1>3, <2>1
  <2>3. q = v /\ r = 0
    BY <1>1, <1>3, <2>1, <2>2, Quotients
  <2> QED
    BY <2>3 DEF q, r
<1> HIDE DEF v
<1>6. p = <<>>
  <2> SUFFICES ASSUME p # <<>> PROVE FALSE
    OBVIOUS
  <2> DEFINE k == Len(p)
             f == filled(p)
             z == zeros(DecimalPlaces - k)
  <2>1. k \in Nat \ {0} /\ DecimalPlaces - k \in Nat /\ DecimalPlaces \in Nat
    BY <1>4, EmptySeq, DecAssumption
  <2>2. f \in Seq(Numerals) /\ Len(f) = DecimalPlaces
    BY <1>4, FilledIs
  <2>3. f = p \o z
    BY DEF filled
  <2>4. z \in Seq(Numerals)
    BY <2>1, ZerosAre
  <2> HIDE DEF f, z
  <2>5. f[k] = p[k]
    <3>1. \A i \in 1 .. Len(p) + Len(z) : (p \o z)[i] = IF i <= Len(p) THEN p[i] ELSE z[i - Len(p)]
      BY <1>4, <2>4, ConcatProperties
    <3>2. k \in 1 .. Len(p) + Len(z) /\ k <= Len(p)
      BY <2>1, <2>4, LenProperties
    <3> QED
      BY <2>3, <3>1, <3>2
  <2>6. f[k] = "0"
    <3>1. \A i \in 1 .. Len(f) : f[i] = "0"
      BY <1>5, <2>2, ZeroDigits DEF f
    <3>2. k \in 1 .. Len(f)
      BY <1>4, <2>1, <2>2
    <3> QED
      BY <3>1, <3>2
  <2> QED
    BY <1>4, <2>5, <2>6
<1>7. w \o pointed(p) = w
  BY <1>4, <1>6, NoPlaces
<1>8. w # <<>>
  <2>1. CASE value = 0
    <3>1. n = 0
      BY <1>3, <2>1
    <3>2. to_str(n) = <<"0">> /\ minus(n) = <<>>
      BY <3>1, ToStr DEF minus
    <3>3. <<>> \o w = w
      BY <1>4, ConcatEmptySeq
    <3>4. w = <<"0">>
      BY <1>4, <1>7, <3>2, <3>3
    <3> QED
      BY <3>4
  <2>2. CASE value # 0
    <3>1. v # 0
      BY <2>2 DEF v, magnitude
    <3> QED
      BY <1>5, <3>1, NumberIs
  <2> QED
    BY <2>1, <2>2
<1> DEFINE t == minus(n) \o w
<1>9. withoutSign(t) = w /\ (startsWith(t, {"-"}) <=> value < 0)
  <2>1. w \in Seq(NumeralCharacters)
    BY <1>4, SeqMonotonic DEF NumeralCharacters
  <2>2. ~startsWith(w, {"+", "-"})
    BY <1>4, <1>7, BodyParts
  <2>3. "-" \in NumeralCharacters
    BY DEF NumeralCharacters
  <2> QED
    BY <1>3, <2>1, <2>2, <2>3, MinusIs
<1>10. \A i \in DOMAIN w : isDigit(w[i])
  BY <1>4, AllDigits
<1>11. parse(t) = {IF value < 0 THEN -number(w) ELSE number(w)}
  <2> HIDE DEF t
  <2> QED
    BY <1>8, <1>9, <1>10 DEF parse
<1>12. (IF value < 0 THEN -v ELSE v) = value
  BY DEF v, magnitude
<1> QED
  BY <1>4, <1>5, <1>7, <1>11, <1>12
-----------------------------------------------------------------------------
(* The inputs.                                                             *)

Graphemes == {"a", "b", "c"}
Cells == [grapheme : Graphemes \cup {" "}, foreColor : {"black", "white", "red"},
          backColor : {"black", "white", "red"}]

(* A block lies near the grid, and the cells of a view are those that the  *)
(* run draws.                                                              *)
NearPoints == [x : -MaxShift .. GridSize, y : -MaxShift .. GridSize]
Blocks == [kind : {"block"}, block : SUBSET NearPoints]
Views  == [kind : {"view"}, view : Grids(Width, Height, Cells), drawn : Nat]
Texts  == [kind : {"text"}, text : Seq(Characters)]
Numbers == [kind : {"decimal"}, number : MIN .. MAX]

InputInv == input \in Blocks \cup Views \cup Texts \cup Numbers

LEMMA StringsAre ==
  ASSUME NEW s \in Strings
  PROVE  /\ s \in Seq(Graphemes) /\ s # <<>>
         /\ Dyes(s, "white", "black", Cells) /\ Dyes(s, "red", "red", Cells)
<1>1. s \in Seq(Graphemes) /\ s # <<>>
  <2>1. "a" \in Graphemes /\ "b" \in Graphemes /\ "c" \in Graphemes
    BY DEF Graphemes
  <2>2. CASE s = <<"a">>
    BY <2>1, <2>2
  <2>3. CASE s = <<"a", "b">>
    BY <2>1, <2>3
  <2>4. CASE s = <<"a", "b", "c">>
    BY <2>1, <2>4
  <2> QED
    BY <2>2, <2>3, <2>4 DEF Strings
<1>2. \A j \in 1 .. Len(s) : s[j] \in Graphemes
  BY <1>1, ElementOfSeq
<1>3. ASSUME NEW f \in {"white", "red"}, NEW b \in {"black", "red"} PROVE Dyes(s, f, b, Cells)
  <2>1. \A j \in 1 .. Len(s) :
          dyed(s, f, b)[j] = [grapheme |-> s[j], foreColor |-> f, backColor |-> b]
    BY <1>1, DyedIs
  <2>2. \A j \in 1 .. Len(s) : [grapheme |-> s[j], foreColor |-> f, backColor |-> b] \in Cells
    BY <1>2 DEF Cells
  <2> QED
    BY <2>1, <2>2 DEF Dyes
<1> QED
  BY <1>1, <1>3

LEMMA Recorded ==
  /\ isBlock /\ InputInv => input \in Blocks
  /\ isView /\ InputInv => input \in Views
  /\ isText /\ InputInv => input \in Texts
BY DEF InputInv, isBlock, isView, isText, Blocks, Views, Texts, Numbers

LEMMA BlankIs == Blank \in Grids(Width, Height, Cells)
BY AlgorithmsAssumption DEF Blank, init, Grids, Cells

LEMMA InputInvInit == Init => InputInv
<1> SUFFICES ASSUME Init PROVE InputInv
  OBVIOUS
<1>1. CASE input \in [kind : {"block"}, block : SUBSET Grid]
  <2>1. Grid \subseteq NearPoints
    BY AlgorithmsAssumption DEF Grid, NearPoints
  <2> QED
    BY <1>1, <2>1 DEF InputInv, Blocks
<1>2. CASE input = [kind |-> "view", view |-> Blank, drawn |-> 0]
  BY <1>2, BlankIs DEF InputInv, Views
<1>3. CASE input = [kind |-> "text", text |-> <<>>]
  BY <1>3 DEF InputInv, Texts
<1>4. CASE input \in [kind : {"decimal"}, number : MIN .. MAX]
  BY <1>4 DEF InputInv, Numbers
<1> QED
  BY <1>1, <1>2, <1>3, <1>4 DEF Init

LEMMA RectType ==
  ASSUME NEW v \in Grids(Width, Height, Cells), NEW s \in Strings, NEW r \in Rects
  PROVE  /\ r \in Drawable
         /\ rect(v, r, s, "white", "black") \in Grids(Width, Height, Cells)
         /\ rect(v, r, s, "white", "black") = rectRecursion(v, r, s)
<1>1. Width \in Nat /\ Height \in Nat /\ r \in Drawable /\ r.h \in Nat
  BY AlgorithmsAssumption DEF Rects, Drawable
<1>2. s \in Seq(Graphemes) /\ s # <<>> /\ Dyes(s, "white", "black", Cells)
  BY StringsAre
<1>3. PICK rows :
        /\ Recursive(rows, Grids(Width, Height, Cells), v,
                     nextRow(Width, Height, Cells, r, s, "white", "black"), r.h)
        /\ rect(v, r, s, "white", "black") = rows[r.h]
  BY <1>1, <1>2, RowsAre
<1>4. rows[r.h] \in Grids(Width, Height, Cells)
  BY <1>1, <1>3 DEF Recursive
<1>5. rectRecursion(v, r, s) = rect(v, r, s, "white", "black")
  BY <1>1, <1>2, RecursionIsRect
<1> QED
  BY <1>1, <1>3, <1>4, <1>5

LEMMA InputInvNext == InputInv /\ [Next]_input => InputInv'
<1> SUFFICES ASSUME InputInv, [Next]_input PROVE InputInv'
  OBVIOUS
<1>1. ASSUME isBlock, Turn \/ Move, \A p \in input'.block : Near(p) PROVE InputInv'
  <2>1. PICK turned : input' = [input EXCEPT !.block = turned]
    BY <1>1 DEF Turn, Move
  <2>2. input' = [kind |-> "block", block |-> turned]
    BY <1>1, <2>1, Recorded DEF Blocks
  <2>3. turned \subseteq NearPoints
    BY <1>1, <2>2 DEF Near, NearPoints
  <2> QED
    BY <2>2, <2>3 DEF InputInv, Blocks
<1>2. ASSUME isView, DrawRect \/ DrawString PROVE InputInv'
  <2>1. input \in Views /\ input.view \in Grids(Width, Height, Cells) /\ input.drawn + 1 \in Nat
    BY <1>2, Recorded DEF Views
  <2>2. PICK v \in Grids(Width, Height, Cells) :
          input' = [input EXCEPT !.view = v, !.drawn = @ + 1]
    <3>1. CASE DrawRect
      <4>1. PICK r \in Rects, s \in Strings :
              input' = [input EXCEPT !.view = rect(@, r, s, "white", "black"), !.drawn = @ + 1]
        BY <3>1 DEF DrawRect
      <4>2. rect(input.view, r, s, "white", "black") \in Grids(Width, Height, Cells)
        BY <2>1, RectType
      <4> QED
        BY <4>1, <4>2
    <3>2. CASE DrawString
      <4>1. PICK x \in 0 .. Width, y \in 0 .. Height, s \in Strings :
              input' = [input EXCEPT !.view = string(@, x, y, s, "white", "black"), !.drawn = @ + 1]
        BY <3>2 DEF DrawString
      <4>2. Width \in Nat /\ Height \in Nat /\ x \in Nat /\ y \in Nat
        BY AlgorithmsAssumption
      <4>3. string(input.view, x, y, s, "white", "black") \in Grids(Width, Height, Cells)
        <5>1. s \in Seq(Graphemes) /\ Dyes(s, "white", "black", Cells)
          BY StringsAre
        <5>2. Written(string(input.view, x, y, s, "white", "black"), Width, Height, Cells,
                      input.view, positionToIndex(input.view, x, y), s, "white", "black")
          BY <2>1, <4>2, <5>1, StringIs
        <5> QED
          BY <5>2 DEF Written
      <4> QED
        BY <4>1, <4>3
    <3> QED
      BY <1>2, <3>1, <3>2
  <2>3. input' = [kind |-> "view", view |-> v, drawn |-> input.drawn + 1]
    BY <2>1, <2>2 DEF Views
  <2> QED
    BY <2>1, <2>3 DEF InputInv, Views
<1>3. ASSUME isText, Type PROVE InputInv'
  <2>1. PICK c \in Characters : input' = [input EXCEPT !.text = Append(@, c)]
    BY <1>3 DEF Type
  <2>2. input \in Texts
    BY <1>3, Recorded
  <2>3. input' = [kind |-> "text", text |-> Append(input.text, c)]
    BY <2>1, <2>2 DEF Texts
  <2>4. Append(input.text, c) \in Seq(Characters)
    BY <2>2 DEF Texts
  <2> QED
    BY <2>3, <2>4 DEF InputInv, Texts
<1>4. CASE UNCHANGED input
  BY <1>4 DEF InputInv
<1> QED
  BY <1>1, <1>2, <1>3, <1>4 DEF Next

(* The input stays a block near the grid, a view whose grid is full, a     *)
(* text or a number: a turn, a rectangle or a string gives such a one.     *)
THEOREM InputTypes == Spec => []InputInv
<1>1. Init => InputInv
  BY InputInvInit
<1>2. InputInv /\ [Next]_input => InputInv'
  BY InputInvNext
<1> QED
  BY <1>1, <1>2, PTL DEF Spec

LEMMA BlockIs ==
  ASSUME InputInv, isBlock
  PROVE  LET b == input.block
         IN  /\ b \in SUBSET Vec /\ IsFiniteSet(b)
             /\ b = {} \/ HasBounds(b)
<1> DEFINE b == input.block
           hi == IF MaxShift <= GridSize THEN GridSize ELSE MaxShift
<1>1. b \in SUBSET NearPoints
  BY Recorded DEF Blocks
<1>2. MaxShift \in Nat /\ GridSize \in Nat
  BY AlgorithmsAssumption
<1>3. NearPoints \subseteq Vec
  BY <1>2 DEF NearPoints, Vec
<1>4. IsFiniteSet(NearPoints)
  <2>1. IsFiniteSet(-MaxShift .. GridSize)
    BY <1>2, FS_Interval
  <2> QED
    BY <2>1, PointsFinite DEF NearPoints
<1>5. IsFiniteSet(b)
  BY <1>1, <1>4, FS_Subset
<1>6. b # {} => \E u, v \in Vec : IsBounds(b, u, v)
  <2>1. \A p \in b : /\ 0 - MaxShift <= p.x /\ p.x <= GridSize
                     /\ 0 - MaxShift <= p.y /\ p.y <= GridSize
    BY <1>1, <1>2 DEF NearPoints
  <2>2. 0 - MaxShift \in Int /\ GridSize \in Int /\ b \in SUBSET Vec
    BY <1>1, <1>2, <1>3
  <2> HIDE DEF b
  <2> QED
    BY <2>1, <2>2, BoundsExist
<1> QED
  BY <1>1, <1>3, <1>5, <1>6 DEF HasBounds

LEMMA EmptyTurns ==
  /\ rotateClockwise({}) = {} /\ rotateCounterClockwise({}) = {}
  /\ size({}) = vec2(1, 1)
  /\ \A d : translate({}, d) = {}
BY EmptyBlock DEF rotateClockwise, rotateCounterClockwise, rotate, size, zero, add, subtract, vec2

(* Turning back and turning four times, for blocks anywhere and of every   *)
(* size (rotateClockwise, rotateCounterClockwise of Block.roc).            *)
THEOREM TurnsAlwaysReturn == Spec => []TurnsReturn
<1>1. InputInv => TurnsReturn
  <2> SUFFICES ASSUME InputInv, isBlock PROVE TurnsReturn
    BY DEF TurnsReturn
  <2>1. input.block = {} \/ HasBounds(input.block)
    BY BlockIs
  <2>2. CASE input.block = {}
    BY <2>2, EmptyTurns DEF TurnsReturn
  <2>3. CASE HasBounds(input.block)
    BY <2>3, TurnsUndo DEF TurnsReturn
  <2> QED
    BY <2>1, <2>2, <2>3
<1> QED
  BY <1>1, InputTypes, PTL

(* A turn keeps the number of the points and the rounded centre, and       *)
(* exchanges width and height.                                             *)
THEOREM AlwaysTurnKeepsPlace == Spec => []TurnKeepsPlace
<1>1. InputInv => TurnKeepsPlace
  <2> SUFFICES ASSUME InputInv, isBlock,
                      NEW turned \in {rotateClockwise(input.block), rotateCounterClockwise(input.block)}
               PROVE  /\ Cardinality(turned) = Cardinality(input.block)
                      /\ boundsCenter(turned) = boundsCenter(input.block)
                      /\ size(turned) = vec2(size(input.block).y, size(input.block).x)
    BY DEF TurnKeepsPlace
  <2> DEFINE b == input.block
  <2>1. b \in SUBSET Vec /\ IsFiniteSet(b) /\ (b = {} \/ HasBounds(b))
    BY BlockIs
  <2>2. CASE b = {}
    <3>1. turned = {} /\ size({}) = vec2(1, 1)
      BY <2>2, EmptyTurns
    <3> QED
      BY <2>2, <3>1 DEF vec2
  <2>3. CASE HasBounds(b)
    <3>1. PICK u \in Vec, v \in Vec : IsBounds(b, u, v)
      BY <2>3 DEF HasBounds
    <3> HIDE DEF b
    <3>2. turned \in {rotateClockwise(b), rotateCounterClockwise(b)}
      BY DEF b
    <3>3. Cardinality(turned) = Cardinality(b)
      BY <2>1, <3>1, <3>2, TurnedCount
    <3>4. /\ turned \in SUBSET Vec /\ boundsCenter(turned) = boundsCenter(b)
          /\ \E tu, tv \in Vec : /\ IsBounds(turned, tu, tv)
                                 /\ tv.x - tu.x = v.y - u.y
                                 /\ tv.y - tu.y = v.x - u.x
      BY <2>1, <3>1, <3>2, TurnKeepsCenter
    <3>5. PICK tu \in Vec, tv \in Vec : /\ IsBounds(turned, tu, tv)
                                        /\ tv.x - tu.x = v.y - u.y
                                        /\ tv.y - tu.y = v.x - u.x
      BY <3>4
    <3>6. /\ size(b) = vec2(v.x - u.x + 1, v.y - u.y + 1)
          /\ size(turned) = vec2(tv.x - tu.x + 1, tv.y - tu.y + 1)
      BY <2>1, <3>1, <3>4, <3>5, SizeIs
    <3>7. size(turned) = vec2(size(b).y, size(b).x)
      BY <3>5, <3>6 DEF vec2
    <3> QED
      BY <3>3, <3>4, <3>7 DEF b
  <2> QED
    BY <2>1, <2>2, <2>3
<1> QED
  BY <1>1, InputTypes, PTL

(* Where a block is does not change how it turns.                          *)
THEOREM AlwaysTurnCommutes == Spec => []TurnCommutesWithMove
<1>1. InputInv => TurnCommutesWithMove
  <2> SUFFICES ASSUME InputInv, isBlock, NEW shift \in Shifts
               PROVE  rotateClockwise(translate(input.block, shift)) =
                        translate(rotateClockwise(input.block), shift)
    BY DEF TurnCommutesWithMove
  <2>1. shift \in Vec
    BY AlgorithmsAssumption DEF Shifts, Vec
  <2>2. input.block = {} \/ HasBounds(input.block)
    BY BlockIs
  <2>3. CASE input.block = {}
    BY <2>3, EmptyTurns
  <2>4. CASE HasBounds(input.block)
    BY <2>1, <2>4, TurnCommutes
  <2> QED
    BY <2>2, <2>3, <2>4
<1> QED
  BY <1>1, InputTypes, PTL

(* A rectangle is what the recursion of the code draws, for views, strings *)
(* cut off and copies outside of the grid of every size (rectColumns,      *)
(* rectRows of View.roc).                                                  *)
THEOREM AlwaysRecursion == Spec => []RectIsRecursion
<1>1. InputInv => RectIsRecursion
  <2> SUFFICES ASSUME InputInv, isView, NEW r \in Rects, NEW s \in Strings
               PROVE  rect(input.view, r, s, "white", "black") = rectRecursion(input.view, r, s)
    BY DEF RectIsRecursion
  <2>1. input.view \in Grids(Width, Height, Cells)
    BY Recorded DEF Views
  <2> QED
    BY <2>1, RectType
<1> QED
  BY <1>1, InputTypes, PTL

(* A rectangle that fits in the grid changes all of its own cells and no   *)
(* others: no row of it runs on into the next row.                         *)
THEOREM AlwaysExact == Spec => []RectExact
<1>1. InputInv => RectExact
  <2> SUFFICES ASSUME InputInv, isView, NEW r \in Rects, NEW s \in Strings,
                      r.x + r.w <= Width, r.y + r.h <= Height,
                      NEW x \in 0 .. Width - 1, NEW y \in 0 .. Height - 1
               PROVE  IF x \in r.x .. r.x + r.w - 1 /\ y \in r.y .. r.y + r.h - 1
                      THEN cellAt(rect(input.view, r, s, "red", "red"), x, y).backColor = "red"
                      ELSE cellAt(rect(input.view, r, s, "red", "red"), x, y) =
                             cellAt(input.view, x, y)
    BY DEF RectExact
  <2>1. input.view \in Grids(Width, Height, Cells)
    BY Recorded DEF Views
  <2>2. Width \in Nat /\ Height \in Nat /\ r \in Drawable
    BY AlgorithmsAssumption DEF Rects, Drawable
  <2>3. s \in Seq(Graphemes) /\ s # <<>> /\ Dyes(s, "red", "red", Cells)
    BY StringsAre
  <2> QED
    BY <2>1, <2>2, <2>3, RectIs
<1> QED
  BY <1>1, InputTypes, PTL

(* What to_str writes of a number, from_str reads back, and what it writes *)
(* of an integer is the integer, for every number, width of a number and   *)
(* number of decimal places (RocDec::to_str, from_str, from_i32).          *)
THEOREM AlwaysRoundTrip == Spec => []DecimalRoundTrip
<1>1. InputInv => DecimalRoundTrip
  <2> SUFFICES ASSUME InputInv, isDecimal PROVE DecimalRoundTrip
    BY DEF DecimalRoundTrip
  <2>1. input.number \in MIN .. MAX
    BY DEF InputInv, isDecimal, Blocks, Views, Texts, Numbers
  <2>2. MIN \in Int /\ MAX \in Int /\ -MAX .. MAX \subseteq Int
    BY CheckedIs
  <2>3. input.number \in Int
    BY <2>1, <2>2
  <2>4. \A value \in -MAX .. MAX :
          from_i32(value) = input.number => parse(to_str(input.number)) = {value}
    BY <2>2, <2>3, IntegerRead
  <2> QED
    BY <2>1, <2>4, RoundTrip DEF DecimalRoundTrip
<1> QED
  BY <1>1, InputTypes, PTL

(* A numeral is read as all of its digits in one row, and any other text   *)
(* as none, for texts of every length (RocDec::from_str).                  *)
THEOREM AlwaysReadExactly == Spec => []DecimalExact
<1>1. InputInv => DecimalExact
  <2> SUFFICES ASSUME InputInv, isText PROVE ReadExactly(input.text)
    BY DEF DecimalExact
  <2>1. input.text \in Seq(Characters)
    BY Recorded DEF Texts
  <2> QED
    BY <2>1, Exact
<1> QED
  BY <1>1, InputTypes, PTL
=============================================================================
