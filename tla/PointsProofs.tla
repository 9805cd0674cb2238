--------------------------- MODULE PointsProofs ---------------------------
(***************************************************************************)
(* What a frame does to points, rows and score, for every value of the     *)
(* constants of the game: no point is lost or doubled, no full row is      *)
(* forgotten unless two wait, rows score once, and the game implements     *)
(* FallingBlocks.                                                          *)
(*                                                                         *)
(* Once the block has appeared and the row is dropped, a frame leaves      *)
(* everything but the place of the block as it is, or locks the block, in  *)
(* one of its moves (Same, Locked).  Without the cheat the level is then   *)
(* the one that the rows call for, over the history of MCLevels.           *)
(***************************************************************************)
EXTENDS MCLevels, RoctrisProofs

(* The block is not in the debris.                                         *)
Apart(m) == m.block \cap DOMAIN m.debris = {}

(* From the model d to the model m the block was at most moved and turned. *)
Same(d, m) ==
  /\ m.state = d.state /\ (Apart(d) => Apart(m))
  /\ m.input = d.input /\ m.debris = d.debris /\ m.rowsToDrop = d.rowsToDrop
  /\ m.rowsCleared = d.rowsCleared /\ m.level = d.level
  /\ m.block = {} <=> d.block = {}
  /\ Cardinality(m.block) = Cardinality(d.block)

(* From d to m the block was moved and turned, to b, and locked.           *)
LockedAs(b, d, m) ==
  /\ Placed(b) /\ b # {} /\ Cardinality(b) = Cardinality(d.block)
  /\ m.debris = d.debris (+) SetToBag(b)
  /\ m.rowsToDrop = {y \in rowsOf(b) : countPointsInRow(m.debris, y) = PlayWidth}
  /\ m.rowsCleared = d.rowsCleared + Cardinality(m.rowsToDrop)
  /\ m.level = levelAfter(d.level, m.rowsCleared)
  /\ Supported(b, d.debris) /\ (Apart(d) => b \cap DOMAIN d.debris = {})

Locked(d, m) ==
  /\ d.block # {} /\ m.block = {} /\ m.input = d.input /\ m.state = d.state
  /\ \E b : LockedAs(b, d, m)

(* From d to m the rows that were cleared scored, at the level of d.       *)
Scored(d, m) ==
  m.score = d.score + (IF m.rowsCleared = d.rowsCleared THEN 0
                       ELSE scoreForRowsCleared(d.level, m.rowsCleared - d.rowsCleared))

(* A well formed debris.                                                   *)
IsDebris(debris) ==
  DOMAIN debris \in SUBSET Cells /\ debris \in [DOMAIN debris -> Nat \ {0}]
-----------------------------------------------------------------------------
(* Sets of points.                                                         *)

LEMMA CellsFinite == IsFiniteSet(Cells)
<1>1. 0 \in Int /\ PlayWidth - 1 \in Int /\ PlayHeight - 1 \in Int
  BY Sizes
<1>2. IsFiniteSet(Columns) /\ IsFiniteSet(Rows)
  BY <1>1, FS_Interval DEF Columns, Rows
<1> QED
  BY <1>2, PointsFinite DEF Cells

LEMMA PlacedFinite ==
  ASSUME NEW b, Placed(b)
  PROVE  b \in SUBSET Vec /\ IsFiniteSet(b) /\ Cardinality(b) \in Nat
<1>1. b \in SUBSET Cells
  BY DEF Placed
<1>2. IsFiniteSet(b)
  BY <1>1, CellsFinite, FS_Subset
<1> QED
  BY <1>1, <1>2, CellsType, FS_CardinalityType

LEMMA TurnCount ==
  ASSUME NEW b, Placed(b),
         NEW turned \in {rotateClockwise(b), rotateCounterClockwise(b)}
  PROVE  IsFiniteSet(turned) /\ Cardinality(turned) = Cardinality(b)
<1>1. b \in SUBSET Vec /\ IsFiniteSet(b)
  BY PlacedFinite
<1>2. CASE b = {}
  BY <1>1, <1>2, EmptyBlock DEF rotateClockwise, rotateCounterClockwise, rotate
<1>3. CASE b # {}
  <2>1. PICK u \in Vec, v \in Vec : IsBounds(b, u, v)
    BY <1>3 DEF Placed
  <2> QED
    BY <1>1, <2>1, TurnedCount
<1> QED
  BY <1>2, <1>3
-----------------------------------------------------------------------------
(* What the debris holds.                                                  *)

(* The points of the debris that are in a set of cells, counted as often   *)
(* as blocks cover them.                                                   *)
heldIn(debris, cells) == UNION {{p} \X (1..debris[p]) : p \in cells}

LEMMA HeldIs ==
  ASSUME NEW debris, NEW cells, NEW z
  PROVE  z \in heldIn(debris, cells)
           <=> \E p \in cells : \E k \in 1..debris[p] : z = <<p, k>>
<1>1. ASSUME z \in heldIn(debris, cells)
      PROVE  \E p \in cells : \E k \in 1..debris[p] : z = <<p, k>>
  <2>1. PICK p \in cells : z \in {p} \X (1..debris[p])
    BY <1>1 DEF heldIn
  <2>2. PICK k \in 1..debris[p] : z = <<p, k>>
    BY <2>1
  <2> QED
    BY <2>2
<1>2. ASSUME NEW p \in cells, NEW k \in 1..debris[p], z = <<p, k>>
      PROVE  z \in heldIn(debris, cells)
  <2>1. z \in {p} \X (1..debris[p])
    BY <1>2
  <2> QED
    BY <2>1 DEF heldIn
<1> QED
  BY <1>1, <1>2

LEMMA HeldFinite ==
  ASSUME NEW debris, IsDebris(debris), NEW cells \in SUBSET DOMAIN debris
  PROVE  IsFiniteSet(heldIn(debris, cells)) /\ Cardinality(heldIn(debris, cells)) \in Nat
<1> DEFINE pairs == {{p} \X (1..debris[p]) : p \in cells}
           f == [p \in cells |-> {p} \X (1..debris[p])]
<1>1. IsFiniteSet(cells)
  BY CellsFinite, FS_Subset DEF IsDebris
<1>2. f \in Surjection(cells, pairs)
  <2>1. f \in [cells -> pairs] /\ \A c \in pairs : \E p \in cells : f[p] = c
    OBVIOUS
  <2> HIDE DEF f, pairs
  <2> QED
    BY <2>1, Fun_IsSurj
<1>3. \A c \in pairs : IsFiniteSet(c)
  <2> SUFFICES ASSUME NEW p \in cells PROVE IsFiniteSet({p} \X (1..debris[p]))
    OBVIOUS
  <2>1. debris[p] \in Int /\ 1 \in Int
    BY DEF IsDebris
  <2>2. IsFiniteSet(1..debris[p])
    BY <2>1, FS_Interval
  <2> QED
    BY <2>2, FS_Singleton, FS_Product
<1> HIDE DEF pairs, f
<1>4. IsFiniteSet(pairs)
  BY <1>1, <1>2, FS_Surjection
<1>5. IsFiniteSet(UNION pairs)
  BY <1>3, <1>4, FS_UNION
<1> QED
  BY <1>5, FS_CardinalityType DEF heldIn, pairs

LEMMA HeldParts ==
  ASSUME NEW debris, NEW y
  PROVE  /\ held(debris) = heldIn(debris, DOMAIN debris)
         /\ countPointsInRow(debris, y)
              = Cardinality(heldIn(debris, {p \in DOMAIN debris : p.y = y}))
BY DEF held, heldIn, countPointsInRow

(* Cells that no two points share and that keep their counts hold as many. *)
LEMMA HeldMoved ==
  ASSUME NEW debris, IsDebris(debris), NEW cells \in SUBSET DOMAIN debris,
         NEW moved, NEW to, NEW f \in Bijection(cells, to),
         \A p \in cells : moved[f[p]] = debris[p]
  PROVE  /\ IsFiniteSet(heldIn(moved, to))
         /\ Cardinality(heldIn(moved, to)) = Cardinality(heldIn(debris, cells))
<1> DEFINE S == heldIn(debris, cells)
           T == heldIn(moved, to)
           g == [z \in S |-> <<f[z[1]], z[2]>>]
<1>1. /\ f \in [cells -> to] /\ \A p, q \in cells : f[p] = f[q] => p = q
      /\ \A q \in to : \E p \in cells : f[p] = q
  BY Fun_BijectionProperties
<1>2. \A z \in S : \E p \in cells : \E k \in 1..debris[p] : z = <<p, k>>
  BY HeldIs
<1>3. ASSUME NEW z \in S PROVE g[z] \in T
  <2>1. PICK p \in cells : \E k \in 1..debris[p] : z = <<p, k>>
    BY <1>2
  <2> PICK k \in 1..debris[p] : z = <<p, k>>
    BY <2>1
  <2>2. g[z] = <<f[p], k>> /\ f[p] \in to /\ k \in 1..moved[f[p]]
    BY <1>1, <2>1
  <2> QED
    BY <2>2, HeldIs
<1>4. ASSUME NEW y \in S, NEW z \in S, g[y] = g[z] PROVE y = z
  <2>1. PICK p \in cells : \E k \in 1..debris[p] : y = <<p, k>>
    BY <1>2
  <2> PICK k \in 1..debris[p] : y = <<p, k>>
    BY <2>1
  <2>2. PICK q \in cells : \E l \in 1..debris[q] : z = <<q, l>>
    BY <1>2
  <2> PICK l \in 1..debris[q] : z = <<q, l>>
    BY <2>2
  <2>3. g[y] = <<f[p], k>> /\ g[z] = <<f[q], l>>
    BY <2>1, <2>2
  <2>4. f[p] = f[q] /\ k = l
    BY <1>4, <2>3
  <2> QED
    BY <1>1, <2>1, <2>2, <2>4
<1>5. ASSUME NEW z \in T PROVE \E y \in S : g[y] = z
  <2>1. PICK q \in to : \E k \in 1..moved[q] : z = <<q, k>>
    BY HeldIs
  <2> PICK k \in 1..moved[q] : z = <<q, k>>
    BY <2>1
  <2>2. PICK p \in cells : f[p] = q
    BY <1>1
  <2>3. <<p, k>> \in S
    BY <2>1, <2>2, HeldIs
  <2>4. g[<<p, k>>] = z
    BY <2>1, <2>2, <2>3
  <2> QED
    BY <2>3, <2>4
<1>6. IsFiniteSet(S)
  BY HeldFinite
<1>7. g \in [S -> T]
  BY <1>3
<1> HIDE DEF g, S, T
<1>8. ExistsBijection(S, T)
  BY <1>4, <1>5, <1>7, Fun_IsBij DEF ExistsBijection
<1> QED
  BY <1>6, <1>8, FS_Bijection DEF S, T
-----------------------------------------------------------------------------
(* A block that locks.                                                     *)

LEMMA LockedIs ==
  ASSUME NEW debris, IsDebris(debris), NEW b, Placed(b)
  PROVE  LET locked == debris (+) SetToBag(b)
         IN  /\ IsDebris(locked) /\ DOMAIN locked = DOMAIN debris \cup b
             /\ \A p \in DOMAIN debris \ b : locked[p] = debris[p]
             /\ \A p \in DOMAIN debris \cap b : locked[p] = debris[p] + 1
             /\ \A p \in b \ DOMAIN debris : locked[p] = 1
<1> DEFINE locked == debris (+) SetToBag(b)
<1>1. DOMAIN SetToBag(b) = b /\ \A p \in b : SetToBag(b)[p] = 1
  BY DEF SetToBag
<1>2. \A p \in DOMAIN debris : debris[p] \in Nat \ {0}
  BY DEF IsDebris
<1>3. locked = [p \in DOMAIN debris \cup b |->
                  (IF p \in DOMAIN debris THEN debris[p] ELSE 0)
                  + (IF p \in b THEN SetToBag(b)[p] ELSE 0)]
  BY <1>1, Zenon DEF (+)
<1>4. DOMAIN debris \in SUBSET Cells /\ b \in SUBSET Cells
  BY DEF IsDebris, Placed
<1> HIDE DEF locked
<1>5. /\ DOMAIN locked = DOMAIN debris \cup b
      /\ \A p \in DOMAIN debris \ b : locked[p] = debris[p]
      /\ \A p \in DOMAIN debris \cap b : locked[p] = debris[p] + 1
      /\ \A p \in b \ DOMAIN debris : locked[p] = 1
  BY <1>1, <1>2, <1>3
<1>6. \A p \in DOMAIN locked : locked[p] \in Nat \ {0}
  BY <1>2, <1>5
<1>7. locked \in [DOMAIN locked -> Nat \ {0}]
  BY <1>3, <1>6
<1> QED
  BY <1>4, <1>5, <1>7 DEF IsDebris, locked

(* A lock adds every point of the block once.                              *)
LEMMA LockHolds ==
  ASSUME NEW debris, IsDebris(debris), NEW b, Placed(b)
  PROVE  Cardinality(held(debris (+) SetToBag(b))) = Cardinality(held(debris)) + Cardinality(b)
<1> DEFINE locked == debris (+) SetToBag(b)
           top    == [p \in b |-> <<p, locked[p]>>]
           tops   == {top[p] : p \in b}
           old    == heldIn(debris, DOMAIN debris)
           new    == heldIn(locked, DOMAIN locked)
<1>1. /\ IsDebris(locked) /\ DOMAIN locked = DOMAIN debris \cup b
      /\ \A p \in DOMAIN debris \ b : locked[p] = debris[p]
      /\ \A p \in DOMAIN debris \cap b : locked[p] = debris[p] + 1
      /\ \A p \in b \ DOMAIN debris : locked[p] = 1
  BY LockedIs
<1> HIDE DEF locked
<1>2. \A p \in DOMAIN debris : debris[p] \in Nat \ {0}
  BY DEF IsDebris
<1>3. IsFiniteSet(tops) /\ Cardinality(tops) = Cardinality(b)
  <2>1. top \in [b -> tops] /\ \A p, q \in b : top[p] = top[q] => p = q
    OBVIOUS
  <2>2. \A t \in tops : \E p \in b : top[p] = t
    OBVIOUS
  <2> HIDE DEF top, tops
  <2>3. ExistsBijection(b, tops)
    BY <2>1, <2>2, Fun_IsBij DEF ExistsBijection
  <2> QED
    BY <2>3, PlacedFinite, FS_Bijection
<1>4. \A z : z \in old <=> \E p \in DOMAIN debris : \E k \in 1..debris[p] : z = <<p, k>>
  BY HeldIs
<1>5. \A z : z \in new <=> \E p \in DOMAIN locked : \E k \in 1..locked[p] : z = <<p, k>>
  BY HeldIs
<1>6. IsFiniteSet(old) /\ Cardinality(old) \in Nat
  BY HeldFinite
<1> HIDE DEF old, new
<1>7. ASSUME NEW z \in new PROVE z \in old \cup tops
  <2>1. PICK p \in DOMAIN locked : \E k \in 1..locked[p] : z = <<p, k>>
    BY <1>5
  <2>2. PICK k \in 1..locked[p] : z = <<p, k>>
    BY <2>1
  <2>3. CASE p \in b /\ k = locked[p]
    BY <2>2, <2>3
  <2>4. CASE ~(p \in b /\ k = locked[p])
    <3>1. p \in DOMAIN debris /\ k \in 1..debris[p]
      BY <1>1, <1>2, <2>2, <2>4
    <3> QED
      BY <1>4, <2>2, <3>1
  <2> QED
    BY <2>3, <2>4
<1>8. ASSUME NEW z \in old \cup tops PROVE z \in new
  <2>1. CASE z \in old
    <3>1. PICK p \in DOMAIN debris : \E k \in 1..debris[p] : z = <<p, k>>
      BY <1>4, <2>1
    <3>2. PICK k \in 1..debris[p] : z = <<p, k>>
      BY <3>1
    <3>3. p \in DOMAIN locked /\ k \in 1..locked[p]
      BY <1>1, <1>2, <3>2
    <3> QED
      BY <1>5, <3>2, <3>3
  <2>2. CASE z \in tops
    <3>1. PICK p \in b : z = <<p, locked[p]>>
      BY <2>2
    <3>2. p \in DOMAIN locked /\ locked[p] \in 1..locked[p]
      BY <1>1, <1>2
    <3> QED
      BY <1>5, <3>1, <3>2
  <2> QED
    BY <2>1, <2>2
<1>9. ASSUME NEW z \in old, z \in tops PROVE FALSE
  <2>1. PICK p \in DOMAIN debris : \E k \in 1..debris[p] : z = <<p, k>>
    BY <1>4
  <2>2. PICK k \in 1..debris[p] : z = <<p, k>>
    BY <2>1
  <2>3. p \in b /\ k = locked[p]
    BY <1>9, <2>2
  <2> QED
    BY <1>1, <1>2, <2>2, <2>3
<1> HIDE DEF tops
<1>10. new = old \cup tops /\ old \cap tops = {}
  BY <1>7, <1>8, <1>9
<1>11. Cardinality(new) = Cardinality(old) + Cardinality(b)
  <2>1. Cardinality(new) = Cardinality(old) + Cardinality(b) - Cardinality({})
    BY <1>3, <1>6, <1>10, FS_Union
  <2>2. Cardinality(b) \in Nat
    BY PlacedFinite
  <2> QED
    BY <1>6, <2>1, <2>2, FS_EmptySet
<1> QED
  BY <1>11, HeldParts DEF old, new, locked

(* The rows that a block does not reach keep their points when it locks.   *)
LEMMA OtherRowsKept ==
  ASSUME NEW debris, IsDebris(debris), NEW b, Placed(b), b # {}, NEW y \in Rows, y \notin rowsOf(b)
  PROVE  countPointsInRow(debris (+) SetToBag(b), y) = countPointsInRow(debris, y)
<1> DEFINE locked == debris (+) SetToBag(b)
           row(d) == {p \in DOMAIN d : p.y = y}
<1>1. /\ DOMAIN locked = DOMAIN debris \cup b
      /\ \A p \in DOMAIN debris \ b : locked[p] = debris[p]
  BY LockedIs
<1> HIDE DEF locked
<1>2. \A p \in b : p.y \in rowsOf(b)
  <2> SUFFICES ASSUME NEW p \in b PROVE p.y \in rowsOf(b)
    OBVIOUS
  <2>1. /\ min(b) \in Vec /\ max(b) \in Vec /\ IsBounds(b, min(b), max(b)) /\ p \in Vec
    BY PlacedBounds
  <2>2. /\ min(b).y <= p.y /\ p.y <= max(b).y
        /\ min(b).y \in Int /\ max(b).y \in Int /\ p.y \in Int
    BY <2>1, VecType DEF IsBounds
  <2> QED
    BY <2>2, RangeEnd DEF rowsOf
<1>3. row(locked) = row(debris)
  BY <1>1, <1>2
<1>4. \A p \in row(debris) : locked[p] = debris[p]
  BY <1>1, <1>2
<1> HIDE DEF row
<1>5. heldIn(locked, row(locked)) = heldIn(debris, row(debris))
  BY <1>3, <1>4 DEF heldIn
<1> QED
  BY <1>5, HeldParts DEF locked, row
-----------------------------------------------------------------------------
(* A row that is dropped.                                                  *)

(* Where a point goes when row r is dropped.                               *)
fallen(p, r) == IF p.y < r THEN add(p, down) ELSE p

LEMMA DropIs ==
  ASSUME NEW debris, IsDebris(debris), NEW r \in Rows
  PROVE  LET kept == {p \in DOMAIN debris : p.y # r}
             dropped == dropRow(debris, r)
         IN  /\ DOMAIN dropped = {fallen(p, r) : p \in kept}
             /\ \A p \in kept : dropped[fallen(p, r)] = debris[p]
             /\ \A p \in kept : fallen(p, r).y = IF p.y < r THEN p.y + 1 ELSE p.y
             /\ \A p, q \in kept : fallen(p, r) = fallen(q, r) => p = q
<1> DEFINE kept    == {p \in DOMAIN debris : p.y # r}
           dropped == dropRow(debris, r)
           origin(q) == IF q.y <= r THEN subtract(q, down) ELSE q
<1>1. dropped = [q \in {fallen(p, r) : p \in kept} |-> debris[origin(q)]]
  BY DEF dropRow, fallen
<1>2. r \in Int /\ \A p \in kept : p \in Vec /\ p.x \in Int /\ p.y \in Int /\ p.y # r
  BY CellsType, Sizes DEF Rows, IsDebris
<1>3. ASSUME NEW p \in kept
      PROVE  /\ fallen(p, r).y = IF p.y < r THEN p.y + 1 ELSE p.y
             /\ origin(fallen(p, r)) = p
  <2>1. CASE p.y < r
    <3>1. /\ fallen(p, r) \in Vec /\ fallen(p, r).x = p.x /\ fallen(p, r).y = p.y + 1
          /\ fallen(p, r).x \in Int /\ fallen(p, r).y \in Int
      BY <1>2, <2>1, VecType, MovesType DEF fallen
    <3>2. fallen(p, r).y <= r
      BY <1>2, <2>1, <3>1
    <3>3. /\ subtract(fallen(p, r), down) \in Vec
          /\ subtract(fallen(p, r), down).x = fallen(p, r).x - down.x
          /\ subtract(fallen(p, r), down).y = fallen(p, r).y - down.y
      BY <3>1, VecType, MovesType
    <3>4. subtract(fallen(p, r), down).x = p.x /\ subtract(fallen(p, r), down).y = p.y
      BY <1>2, <3>1, <3>3, MovesType
    <3> QED
      BY <1>2, <2>1, <3>1, <3>2, <3>3, <3>4, VecEqual
  <2>2. CASE ~(p.y < r)
    <3>1. fallen(p, r) = p /\ ~(p.y <= r)
      BY <1>2, <2>2 DEF fallen
    <3> QED
      BY <2>2, <3>1
  <2> QED
    BY <2>1, <2>2
<1> HIDE DEF kept, dropped, origin
<1>4. ASSUME NEW p \in kept, NEW q \in kept, fallen(p, r) = fallen(q, r) PROVE p = q
  <2>1. origin(fallen(p, r)) = p /\ origin(fallen(q, r)) = q
    BY <1>3
  <2> QED
    BY <1>4, <2>1
<1>5. DOMAIN dropped = {fallen(p, r) : p \in kept}
  BY <1>1
<1>6. \A p \in kept : dropped[fallen(p, r)] = debris[p]
  BY <1>1, <1>3
<1> QED
  BY <1>3, <1>4, <1>5, <1>6 DEF kept, dropped

(* A drop takes away the points of its row, and no others.                 *)
LEMMA DropHolds ==
  ASSUME NEW debris, IsDebris(debris), NEW r \in Rows
  PROVE  /\ Cardinality(held(debris))
              = Cardinality(held(dropRow(debris, r))) + countPointsInRow(debris, r)
         /\ Cardinality(held(dropRow(debris, r))) \in Nat
         /\ countPointsInRow(debris, r) \in Nat
<1> DEFINE kept    == {p \in DOMAIN debris : p.y # r}
           row     == {p \in DOMAIN debris : p.y = r}
           dropped == dropRow(debris, r)
           f       == [p \in kept |-> fallen(p, r)]
<1>1. /\ DOMAIN dropped = {fallen(p, r) : p \in kept}
      /\ \A p \in kept : dropped[fallen(p, r)] = debris[p]
      /\ \A p, q \in kept : fallen(p, r) = fallen(q, r) => p = q
  BY DropIs
<1> HIDE DEF dropped
<1>2. f \in Bijection(kept, DOMAIN dropped) /\ \A p \in kept : dropped[f[p]] = debris[p]
  <2>1. f \in [kept -> DOMAIN dropped] /\ \A p \in kept : dropped[f[p]] = debris[p]
    BY <1>1
  <2>2. \A p, q \in kept : f[p] = f[q] => p = q
    BY <1>1
  <2>3. \A q \in DOMAIN dropped : \E p \in kept : f[p] = q
    BY <1>1
  <2> HIDE DEF f, kept
  <2> QED
    BY <2>1, <2>2, <2>3, Fun_IsBij
<1>3. kept \in SUBSET DOMAIN debris /\ row \in SUBSET DOMAIN debris
  OBVIOUS
<1>4. heldIn(debris, DOMAIN debris) = heldIn(debris, kept) \cup heldIn(debris, row)
  BY DEF heldIn
<1>5. heldIn(debris, kept) \cap heldIn(debris, row) = {}
  <2> SUFFICES ASSUME NEW z \in heldIn(debris, kept), z \in heldIn(debris, row) PROVE FALSE
    OBVIOUS
  <2>1. PICK p \in kept : \E k \in 1..debris[p] : z = <<p, k>>
    BY HeldIs
  <2>2. PICK q \in row : \E k \in 1..debris[q] : z = <<q, k>>
    BY HeldIs
  <2>3. p = q
    BY <2>1, <2>2
  <2> QED
    BY <2>3
<1> HIDE DEF kept, row, f
<1>6. /\ IsFiniteSet(heldIn(debris, kept)) /\ Cardinality(heldIn(debris, kept)) \in Nat
      /\ IsFiniteSet(heldIn(debris, row)) /\ Cardinality(heldIn(debris, row)) \in Nat
  BY <1>3, HeldFinite
<1>7. Cardinality(heldIn(debris, DOMAIN debris))
        = Cardinality(heldIn(debris, kept)) + Cardinality(heldIn(debris, row)) - Cardinality({})
  BY <1>4, <1>5, <1>6, FS_Union
<1>8. Cardinality(heldIn(dropped, DOMAIN dropped)) = Cardinality(heldIn(debris, kept))
  BY <1>2, <1>3, HeldMoved
<1>9. /\ held(debris) = heldIn(debris, DOMAIN debris)
      /\ held(dropped) = heldIn(dropped, DOMAIN dropped)
      /\ countPointsInRow(debris, r) = Cardinality(heldIn(debris, row))
  BY HeldParts DEF row
<1>10. /\ Cardinality(held(debris)) = Cardinality(held(dropped)) + countPointsInRow(debris, r)
       /\ Cardinality(held(dropped)) \in Nat /\ countPointsInRow(debris, r) \in Nat
  BY <1>6, <1>7, <1>8, <1>9, FS_EmptySet
<1> QED
  BY <1>10 DEF dropped

(* A row above the one that is dropped has the points of the row above it. *)
LEMMA RowsAboveFall ==
  ASSUME NEW debris, IsDebris(debris), NEW r \in Rows, NEW y \in Rows, y <= r
  PROVE  countPointsInRow(dropRow(debris, r), y) = countPointsInRow(debris, y - 1)
<1> DEFINE kept    == {p \in DOMAIN debris : p.y # r}
           dropped == dropRow(debris, r)
           from    == {p \in DOMAIN debris : p.y = y - 1}
           to      == {q \in DOMAIN dropped : q.y = y}
           f       == [p \in from |-> fallen(p, r)]
<1>1. /\ DOMAIN dropped = {fallen(p, r) : p \in kept}
      /\ \A p \in kept : dropped[fallen(p, r)] = debris[p]
      /\ \A p \in kept : fallen(p, r).y = IF p.y < r THEN p.y + 1 ELSE p.y
      /\ \A p, q \in kept : fallen(p, r) = fallen(q, r) => p = q
  BY DropIs
<1> HIDE DEF dropped
<1>2. y \in Int /\ r \in Int /\ \A p \in DOMAIN debris : p.y \in Int
  BY CellsType, Sizes DEF Rows, IsDebris
<1>3. from \in SUBSET kept /\ \A p \in from : p.y < r /\ fallen(p, r).y = y
  BY <1>1, <1>2
<1>4. f \in [from -> to] /\ \A p \in from : dropped[f[p]] = debris[p]
  BY <1>1, <1>3
<1>5. \A p, q \in from : f[p] = f[q] => p = q
  BY <1>1, <1>3
<1>6. ASSUME NEW q \in to PROVE \E p \in from : f[p] = q
  <2>1. PICK p \in kept : q = fallen(p, r) /\ q.y = y
    BY <1>1
  <2>2. p.y = y - 1
    <3>1. y = IF p.y < r THEN p.y + 1 ELSE p.y
      BY <1>1, <2>1
    <3> QED
      BY <1>2, <3>1
  <2> QED
    BY <2>1, <2>2
<1>7. from \in SUBSET DOMAIN debris
  OBVIOUS
<1> HIDE DEF from, to, f
<1>8. f \in Bijection(from, to)
  BY <1>4, <1>5, <1>6, Fun_IsBij
<1>9. Cardinality(heldIn(dropped, to)) = Cardinality(heldIn(debris, from))
  BY <1>4, <1>7, <1>8, HeldMoved
<1> QED
  BY <1>9, HeldParts DEF from, to, dropped

(* What is full after a drop was full before, and waits.                   *)
LEMMA FullAfterDrop ==
  ASSUME NEW m, Sound(m), FullRows(m) \subseteq m.rowsToDrop
  PROVE  LET r == updateRowsToDrop(m)
         IN  /\ FullRows(r) \subseteq r.rowsToDrop
             /\ Cardinality(m.rowsToDrop) <= 1 => r.rowsToDrop = {}
<1>1. CASE m.rowsToDrop = {}
  BY <1>1 DEF updateRowsToDrop
<1>2. CASE m.rowsToDrop # {}
  <2> DEFINE y == Min(m.rowsToDrop)
             debris == dropRow(m.debris, y)
             r == [m EXCEPT !.debris = debris, !.rowsToDrop = m.rowsToDrop \ {y}]
  <2>1. /\ IsModel(m) /\ DOMAIN m = DOMAIN newGame /\ IsDebris(m.debris)
        /\ m.rowsToDrop \in SUBSET Rows
    BY DEF Sound, IsModel, IsDebris
  <2>2. y \in m.rowsToDrop /\ y \in Rows /\ \A row \in m.rowsToDrop : y <= row
    BY <1>2, <2>1, FirstRow
  <2>3. updateRowsToDrop(m) = r
    BY <1>2 DEF updateRowsToDrop
  <2> HIDE DEF y
  <2>4. ASSUME NEW row \in Rows, countPointsInRow(debris, row) = PlayWidth
        PROVE  row \in m.rowsToDrop \ {y}
    <3>1. row \in Int /\ y \in Int
      BY <2>2, Sizes DEF Rows
    <3>2. CASE row > y
      <4>1. countPointsInRow(m.debris, row) = PlayWidth
        BY <2>1, <2>2, <2>4, <3>2, RowsBelowKept DEF IsDebris
      <4>2. row \in m.rowsToDrop
        BY <4>1 DEF FullRows
      <4> QED
        BY <3>1, <3>2, <4>2
    <3>3. CASE row <= y
      <4>1. countPointsInRow(m.debris, row - 1) = PlayWidth
        BY <2>1, <2>2, <2>4, <3>3, RowsAboveFall
      <4>2. row - 1 \in Rows
        BY <2>1, <4>1, EmptyRow, Sizes DEF IsDebris
      <4>3. row - 1 \in m.rowsToDrop
        BY <4>1, <4>2 DEF FullRows
      <4>4. y <= row - 1
        BY <2>2, <4>3
      <4> QED
        BY <3>1, <3>3, <4>4
    <3> QED
      BY <3>1, <3>2, <3>3
  <2>5. Cardinality(m.rowsToDrop) <= 1 => m.rowsToDrop \ {y} = {}
    <3>1. IsFiniteSet(Rows)
      <4>1. 0 \in Int /\ PlayHeight - 1 \in Int
        BY Sizes
      <4> QED
        BY <4>1, FS_Interval DEF Rows
    <3>2. IsFiniteSet(m.rowsToDrop) /\ Cardinality(m.rowsToDrop) \in Nat
      BY <2>1, <3>1, FS_Subset, FS_CardinalityType
    <3>3. IsFiniteSet({y}) /\ Cardinality({y}) = 1
      BY FS_Singleton
    <3>4. Cardinality({y}) <= Cardinality(m.rowsToDrop)
      BY <2>2, <3>2, FS_Subset
    <3>5. Cardinality(m.rowsToDrop) <= 1 => Cardinality(m.rowsToDrop) = Cardinality({y})
      BY <3>2, <3>3, <3>4
    <3>6. Cardinality(m.rowsToDrop) <= 1 => m.rowsToDrop = {y}
      BY <2>2, <3>2, <3>5, FS_Subset
    <3> QED
      BY <3>6
  <2> HIDE DEF debris
  <2>6. r.debris = debris /\ r.rowsToDrop = m.rowsToDrop \ {y}
    BY <2>1, Fields
  <2> HIDE DEF r
  <2> QED
    BY <2>3, <2>4, <2>5, <2>6 DEF FullRows
<1> QED
  BY <1>1, <1>2
-----------------------------------------------------------------------------
(* The systems that move the block.                                        *)

Effect(d, m) == Same(d, m) \/ Locked(d, m)

LEMMA NoEffect ==
  ASSUME NEW m, Sound(m)
  PROVE  Effect(m, m) /\ Scored(m, m)
BY DEF Effect, Same, Scored, Sound, IsModel

(* A block that is locked cannot be locked again.                          *)
LEMMA EffectOn ==
  ASSUME NEW d, NEW m, NEW n, Effect(d, m), Effect(m, n)
  PROVE  Effect(d, n)
<1>1. CASE Same(d, m) /\ Same(m, n)
  BY <1>1 DEF Same, Effect
<1>2. CASE Same(d, m) /\ Locked(m, n)
  <2>1. PICK b : LockedAs(b, m, n)
    BY <1>2 DEF Locked
  <2>2. LockedAs(b, d, n)
    BY <1>2, <2>1 DEF LockedAs, Same
  <2> QED
    BY <1>2, <2>2 DEF Same, Locked, Effect
<1>3. CASE Locked(d, m) /\ Same(m, n)
  <2>1. PICK b : LockedAs(b, d, m)
    BY <1>3 DEF Locked
  <2>2. LockedAs(b, d, n)
    BY <1>3, <2>1 DEF LockedAs, Same
  <2> QED
    BY <1>3, <2>2 DEF Same, Locked, Effect
<1>4. CASE Locked(d, m) /\ Locked(m, n)
  BY <1>4 DEF Locked
<1> QED
  BY <1>1, <1>2, <1>3, <1>4 DEF Effect

LEMMA ScoredOn ==
  ASSUME NEW d, NEW m, NEW n, Sound(d), Sound(m), Effect(d, m), Effect(m, n),
         Scored(d, m), Scored(m, n)
  PROVE  Scored(d, n)
<1>1. d.score \in Nat /\ m.score \in Nat
  BY DEF Sound, IsModel
<1>2. CASE Same(d, m)
  <2>1. m.score = d.score /\ m.rowsCleared = d.rowsCleared /\ m.level = d.level
    BY <1>1, <1>2 DEF Same, Scored
  <2> QED
    BY <2>1 DEF Scored
<1>3. CASE Locked(d, m)
  <2>1. Same(m, n)
    BY <1>3 DEF Effect, Locked
  <2>2. n.score = m.score /\ n.rowsCleared = m.rowsCleared
    BY <1>1, <2>1 DEF Same, Scored
  <2> QED
    BY <2>2 DEF Scored
<1> QED
  BY <1>2, <1>3 DEF Effect

LEMMA EffectNewBlock ==
  ASSUME NEW m, Sound(m), NEW b, m.block = {} <=> b = {}, Cardinality(b) = Cardinality(m.block),
         Apart(m) => b \cap DOMAIN m.debris = {}
  PROVE  /\ Effect(m, [m EXCEPT !.block = b]) /\ Scored(m, [m EXCEPT !.block = b])
         /\ [m EXCEPT !.block = b].teleportDown = m.teleportDown
<1> DEFINE r == [m EXCEPT !.block = b]
<1>1. /\ r.block = b /\ r.input = m.input /\ r.debris = m.debris /\ r.rowsToDrop = m.rowsToDrop
      /\ r.rowsCleared = m.rowsCleared /\ r.level = m.level /\ r.score = m.score
      /\ r.teleportDown = m.teleportDown /\ r.state = m.state
  BY Fields DEF Sound, IsModel
<1>2. m.score \in Nat
  BY DEF Sound, IsModel
<1> HIDE DEF r
<1>3. Same(m, r) /\ Scored(m, r)
  BY <1>1, <1>2 DEF Same, Scored, Apart
<1> QED
  BY <1>1, <1>3 DEF Effect, r

LEMMA EffectLock ==
  ASSUME NEW m, Sound(m), m.block # {}, Supported(m.block, m.debris)
  PROVE  Effect(m, addBlockToDebris(m)) /\ Scored(m, addBlockToDebris(m))
<1> DEFINE r     == addBlockToDebris(m)
           rows  == {y \in rowsOf(m.block) :
                       countPointsInRow(m.debris (+) SetToBag(m.block), y) = PlayWidth}
           count == Cardinality(rows)
<1>1. /\ DOMAIN m = DOMAIN newGame /\ Placed(m.block)
      /\ m.score \in Nat /\ m.rowsCleared \in Nat
  BY DEF Sound, IsModel
<1>2. /\ r.block = {} /\ r.input = m.input /\ r.debris = m.debris (+) SetToBag(m.block)
      /\ r.rowsToDrop = rows /\ r.rowsCleared = m.rowsCleared + count
      /\ r.score = scoreAfter(m, count) /\ r.level = levelAfter(m.level, r.rowsCleared)
      /\ r.state = m.state
  BY <1>1, LockShape
<1>3. count \in Nat
  <2>1. IsFiniteSet(rowsOf(m.block))
    BY <1>1, RowsOfPlaced
  <2>2. IsFiniteSet(rows)
    BY <2>1, FS_Subset
  <2> QED
    BY <2>2, FS_CardinalityType
<1> HIDE DEF r
<1>4. LockedAs(m.block, m, r)
  BY <1>1, <1>2 DEF LockedAs, Apart
<1> HIDE DEF count
<1>5. Scored(m, r)
  <2>1. CASE count = 0
    <3>1. r.score = m.score /\ r.rowsCleared = m.rowsCleared
      BY <1>1, <1>2, <2>1 DEF scoreAfter
    <3> QED
      BY <1>1, <3>1 DEF Scored
  <2>2. CASE count # 0
    <3>1. r.rowsCleared # m.rowsCleared /\ r.rowsCleared - m.rowsCleared = count /\ count > 0
      BY <1>1, <1>2, <1>3, <2>2
    <3> QED
      BY <1>2, <3>1 DEF Scored, scoreAfter
  <2> QED
    BY <2>1, <2>2
<1> QED
  BY <1>2, <1>4, <1>5 DEF Effect, Locked, r

LEMMA EffectMove ==
  ASSUME NEW m, Sound(m), NEW move \in Moves
  PROVE  Effect(m, moveBlock(m, move)) /\ Scored(m, moveBlock(m, move))
<1>1. CASE /\ moveBlock(m, move) = addBlockToDebris(m)
           /\ m.block # {} /\ Supported(m.block, m.debris)
  BY <1>1, EffectLock
<1>2. CASE moveBlock(m, move) = m
  BY <1>2, NoEffect
<1>3. ASSUME NEW d \in Vec, translate(m.block, d) \cap DOMAIN m.debris = {},
             moveBlock(m, move) = [m EXCEPT !.block = translate(m.block, d)]
      PROVE  Effect(m, moveBlock(m, move)) /\ Scored(m, moveBlock(m, move))
  <2>1. m.block \in SUBSET Vec /\ IsFiniteSet(m.block)
    BY PlacedFinite DEF Sound
  <2>2. Cardinality(translate(m.block, d)) = Cardinality(m.block)
    BY <2>1, TranslateCount
  <2>3. m.block = {} <=> translate(m.block, d) = {}
    BY DEF translate
  <2> QED
    BY <1>3, <2>2, <2>3, EffectNewBlock
<1> QED
  BY <1>1, <1>2, <1>3, MoveShape

LEMMA EffectTeleport ==
  ASSUME NEW m, Sound(m)
  PROVE  /\ Effect(m, updateTeleportDown(m))
         /\ ~m.teleportDown /\ ~m.input.teleportDown => Scored(m, updateTeleportDown(m))
<1> DEFINE n     == [m EXCEPT !.teleportDown = m.teleportDown \/ m.input.teleportDown]
           score == n.score + scoreForEachRowTeleported
           moved == moveBlock(n, down)
           r     == [moved EXCEPT !.score = score]
<1>1. IsModel(m) /\ DOMAIN m = DOMAIN newGame
  BY DEF Sound, IsModel
<1>2. /\ DOMAIN n = DOMAIN newGame /\ n.block = m.block /\ n.state = m.state
      /\ n.input = m.input /\ n.teleportDown = (m.teleportDown \/ m.input.teleportDown)
      /\ n.moveTimer = m.moveTimer /\ n.debris = m.debris
      /\ n.rowsToDrop = m.rowsToDrop /\ n.rowsCleared = m.rowsCleared
      /\ n.level = m.level /\ n.score = m.score
  BY <1>1, Fields
<1>3. /\ updateTeleportDown(m) \in {r, n}
      /\ ~n.teleportDown => updateTeleportDown(m) = n
  BY DEF updateTeleportDown
<1> HIDE DEF n
<1>4. Sound(n)
  <2>1. (m.teleportDown \/ m.input.teleportDown) \in BOOLEAN
    OBVIOUS
  <2>2. IsModel(n)
    BY <1>1, <1>2, <2>1 DEF IsModel
  <2> QED
    BY <1>2, <2>2 DEF Sound
<1>5. Effect(m, n) /\ Scored(m, n)
  <2>1. m.score \in Nat
    BY <1>1 DEF IsModel
  <2>2. Same(m, n)
    BY <1>2 DEF Same, Apart
  <2> QED
    BY <1>2, <2>1, <2>2 DEF Effect, Scored
<1>6. Effect(n, moved) /\ Sound(moved)
  BY <1>4, EffectMove, SoundMove DEF Moves
<1> HIDE DEF score, moved
<1>7. /\ r.block = moved.block /\ r.input = moved.input /\ r.debris = moved.debris
      /\ r.rowsToDrop = moved.rowsToDrop /\ r.rowsCleared = moved.rowsCleared
      /\ r.level = moved.level /\ r.state = moved.state
  BY <1>6, Fields DEF Sound, IsModel
<1> HIDE DEF r
<1>8. Effect(moved, r)
  BY <1>7 DEF Effect, Same, Apart
<1>9. Effect(m, r)
  BY <1>5, <1>6, <1>8, EffectOn
<1> QED
  BY <1>2, <1>3, <1>5, <1>9

LEMMA EffectRotate ==
  ASSUME NEW m, Sound(m)
  PROVE  /\ Effect(m, updateRotateBlock(m)) /\ Scored(m, updateRotateBlock(m))
         /\ updateRotateBlock(m).teleportDown = m.teleportDown
<1>1. DOMAIN m = DOMAIN newGame /\ Placed(m.block)
  BY DEF Sound, IsModel
<1> DEFINE Kept(b) == /\ m.block = {} <=> b = {}
                      /\ Cardinality(b) = Cardinality(m.block)
                      /\ Apart(m) => b \cap DOMAIN m.debris = {}
<1>2. ASSUME NEW turned \in {rotateClockwise(m.block), rotateCounterClockwise(m.block)}
      PROVE  Kept(safeRotateBlock(m, turned))
  <2> DEFINE clamped == clampBlockToPlayBounds(turned)
  <2>1. IsFiniteSet(turned) /\ Cardinality(turned) = Cardinality(m.block)
    BY <1>1, TurnCount
  <2>2. CASE m.block = {}
    <3>1. turned = {}
      BY <2>2, EmptyBlock DEF rotateClockwise, rotateCounterClockwise, rotate
    <3>2. clampBlockToPlayBounds({}) = {}
      BY EmptyBlock DEF clampBlockToPlayBounds
    <3> QED
      BY <2>2, <3>1, <3>2 DEF safeRotateBlock
  <2>3. CASE m.block # {}
    <3>1. m.block \in SUBSET Vec /\ \E u, v \in Vec : IsBounds(m.block, u, v)
      BY <1>1, <2>3, PlacedFinite DEF Placed
    <3>2. turned \in SUBSET Vec /\ \E u, v \in Vec : IsBounds(turned, u, v)
      BY <3>1, TurnKeepsCenter
    <3> turned # {}
      BY <3>2 DEF IsBounds
    <3>3. PICK d \in Vec : clamped = translate(turned, d)
      BY <3>2, ClampTranslates
    <3>4. Cardinality(clamped) = Cardinality(turned) /\ clamped # {}
      BY <2>1, <3>2, <3>3, TranslateCount DEF translate
    <3>5. \/ safeRotateBlock(m, turned) = m.block
          \/ safeRotateBlock(m, turned) = clamped /\ clamped \cap DOMAIN m.debris = {}
      BY DEF safeRotateBlock, blockIntersectsWorld, blockIntersectsDebris
    <3> HIDE DEF clamped
    <3> QED
      BY <2>1, <2>3, <3>4, <3>5 DEF Apart
  <2> QED
    BY <2>2, <2>3
<1> DEFINE b == CASE m.input.rotate = 1  -> safeRotateBlock(m, rotateClockwise(m.block))
                  [] m.input.rotate = -1 -> safeRotateBlock(m, rotateCounterClockwise(m.block))
                  [] OTHER               -> m.block
<1>3. updateRotateBlock(m) = [m EXCEPT !.block = b]
  BY <1>1, Fields DEF updateRotateBlock
<1>4. \/ b = safeRotateBlock(m, rotateClockwise(m.block))
      \/ b = safeRotateBlock(m, rotateCounterClockwise(m.block))
      \/ b = m.block
  OBVIOUS
<1> HIDE DEF b
<1>5. Kept(b)
  BY <1>2, <1>4 DEF Apart
<1> QED
  BY <1>3, <1>5, EffectNewBlock

LEMMA EffectPlayerMove ==
  ASSUME NEW m, Sound(m)
  PROVE  Effect(m, updatePlayerMove(m)) /\ Scored(m, updatePlayerMove(m))
<1>1. m.input.move \in Moves
  BY DEF Sound, IsModel, Moves
<1> QED
  BY <1>1, EffectMove DEF updatePlayerMove

LEMMA EffectTimer ==
  ASSUME NEW m, Sound(m)
  PROVE  Effect(m, updateMoveTimer(m)) /\ Scored(m, updateMoveTimer(m))
<1> DEFINE delta == TickDuration * moveTimerRateForLevel(m.level)
           timer == IF m.input.move.y > 0 THEN Timer!reset(m.moveTimer)
                    ELSE Timer!update(m.moveTimer, delta)
           n     == [m EXCEPT !.moveTimer = timer]
<1>1. IsModel(m) /\ DOMAIN m = DOMAIN newGame /\ m.moveTimer \in Timers
  BY DEF Sound, IsModel, Timers
<1>2. delta \in Nat /\ delta <= TimerDuration
  BY <1>1, FrameTime DEF IsModel
<1>3. timer \in Timers
  <2> HIDE DEF delta
  <2> QED
    BY <1>1, <1>2, TimerType DEF timer
<1>4. updateMoveTimer(m) \in {moveBlock(n, down), n}
  BY DEF updateMoveTimer
<1> HIDE DEF timer
<1>5. /\ DOMAIN n = DOMAIN newGame /\ n.block = m.block /\ n.state = m.state
      /\ n.input = m.input /\ n.teleportDown = m.teleportDown
      /\ n.moveTimer = timer /\ n.debris = m.debris
      /\ n.rowsToDrop = m.rowsToDrop /\ n.rowsCleared = m.rowsCleared
      /\ n.level = m.level /\ n.score = m.score
  BY <1>1, Fields
<1> HIDE DEF n
<1>6. Sound(n)
  <2>1. IsModel(n)
    BY <1>1, <1>3, <1>5 DEF IsModel, Timers
  <2> QED
    BY <1>5, <2>1 DEF Sound
<1>7. Effect(m, n) /\ Scored(m, n)
  <2>1. m.score \in Nat
    BY <1>1 DEF IsModel
  <2>2. Same(m, n)
    BY <1>5 DEF Same, Apart
  <2> QED
    BY <1>5, <2>1, <2>2 DEF Effect, Scored
<1>8. Effect(n, moveBlock(n, down)) /\ Scored(n, moveBlock(n, down))
  BY <1>6, EffectMove DEF Moves
<1>9. Effect(m, moveBlock(n, down)) /\ Scored(m, moveBlock(n, down))
  BY <1>6, <1>7, <1>8, EffectOn, ScoredOn
<1> QED
  BY <1>4, <1>7, <1>9
-----------------------------------------------------------------------------
(* A frame.                                                                *)

(* A new block changes nothing but itself.                                 *)
LEMMA SpawnAdds ==
  ASSUME NEW m, Sound(m), NEW t \in BlockPool
  PROVE  LET r == updateSpawnBlock(m, t)
         IN  /\ r.block # {} /\ r.debris = m.debris /\ r.rowsToDrop = m.rowsToDrop
             /\ r.rowsCleared = m.rowsCleared /\ r.level = m.level /\ r.score = m.score
             /\ r.input = m.input /\ r.teleportDown = m.teleportDown
             /\ Cardinality(r.block) = IF m.block = {} THEN Cardinality(t)
                                       ELSE Cardinality(m.block)
<1> DEFINE d     == vec2(playMin.x + PlayWidth \div 2 - (size(t).x + 1) \div 2, playMin.y)
           block == translate(t, d)
           state == IF blockIntersectsDebris(block, m.debris) THEN "GameOver" ELSE m.state
           r     == [m EXCEPT !.block = block, !.state = state]
<1>1. CASE m.block # {}
  BY <1>1, EmptyBlock DEF updateSpawnBlock
<1>2. CASE m.block = {}
  <2>1. updateSpawnBlock(m, t) = r
    BY <1>2, EmptyBlock DEF updateSpawnBlock
  <2>2. Placed(block) /\ block # {}
    BY Spawned
  <2>3. IsFiniteSet(t) /\ t \in SUBSET Vec
    <3>1. t \in SUBSET Vec /\ t \in SUBSET [x : 0 .. PlayWidth - 2, y : 0 .. PlayWidth - 2]
      BY LowTemplate, BlockPoolAssumption
    <3>2. 0 \in Int /\ PlayWidth - 2 \in Int
      BY Sizes
    <3>3. IsFiniteSet(0 .. PlayWidth - 2)
      BY <3>2, FS_Interval
    <3>4. IsFiniteSet([x : 0 .. PlayWidth - 2, y : 0 .. PlayWidth - 2])
      BY <3>3, PointsFinite
    <3> QED
      BY <3>1, <3>4, FS_Subset
  <2>4. Cardinality(block) = Cardinality(t)
    <3>1. d \in Vec
      <4>1. size(t) \in Vec
        <5>1. t \in SUBSET Vec /\ t # {} /\ Low(t)
          BY LowTemplate
        <5>2. PICK u \in Vec, v \in Vec : IsBounds(t, u, v)
          BY <5>1 DEF Low
        <5>3. subtract(max(t), min(t)) \in Vec /\ vec2(1, 1) \in Vec
          BY <5>1, <5>2, BoundsUnique, VecType
        <5> QED
          BY <5>3, VecType DEF size
      <4>2. size(t).x \in Int /\ PlayWidth \in Int /\ playMin.x = 0 /\ playMin.y = 0
        BY <4>1, VecType, Sizes
      <4>3. (size(t).x + 1) \div 2 \in Int /\ PlayWidth \div 2 \in Int
        BY <4>2
      <4>4. playMin.x + PlayWidth \div 2 - (size(t).x + 1) \div 2 \in Int
        BY <4>2, <4>3
      <4> QED
        BY <4>2, <4>4, VecType
    <3> HIDE DEF d
    <3> QED
      BY <2>3, <3>1, TranslateCount
  <2> HIDE DEF block, state
  <2>5. /\ r.block = block /\ r.debris = m.debris /\ r.rowsToDrop = m.rowsToDrop
        /\ r.rowsCleared = m.rowsCleared /\ r.level = m.level /\ r.score = m.score
        /\ r.input = m.input /\ r.teleportDown = m.teleportDown
    BY Fields DEF Sound, IsModel
  <2> HIDE DEF r
  <2> QED
    BY <1>2, <2>1, <2>2, <2>4, <2>5
<1> QED
  BY <1>1, <1>2

(* A drop takes one full row away.                                         *)
LEMMA DropTakes ==
  ASSUME NEW m, Sound(m), Upheld(m)
  PROVE  LET r == updateRowsToDrop(m)
         IN  /\ r.block = m.block /\ r.input = m.input /\ r.teleportDown = m.teleportDown
             /\ r.rowsCleared = m.rowsCleared /\ r.level = m.level /\ r.score = m.score
             /\ Cardinality(held(r.debris)) = Cardinality(held(m.debris))
                  - (IF m.rowsToDrop = {} THEN 0 ELSE PlayWidth)
             /\ Cardinality(held(r.debris)) \in Nat
<1>1. /\ IsModel(m) /\ DOMAIN m = DOMAIN newGame /\ IsDebris(m.debris)
      /\ m.rowsToDrop \in SUBSET Rows
  BY DEF Sound, IsModel, IsDebris
<1>2. CASE m.rowsToDrop = {}
  <2>1. Cardinality(held(m.debris)) \in Nat
    BY <1>1, HeldParts, HeldFinite
  <2> QED
    BY <1>2, <2>1 DEF updateRowsToDrop
<1>3. CASE m.rowsToDrop # {}
  <2> DEFINE y == Min(m.rowsToDrop)
             debris == dropRow(m.debris, y)
             r == [m EXCEPT !.debris = debris, !.rowsToDrop = m.rowsToDrop \ {y}]
  <2>1. y \in m.rowsToDrop /\ y \in Rows
    BY <1>1, <1>3, FirstRow
  <2>2. updateRowsToDrop(m) = r
    BY <1>3 DEF updateRowsToDrop
  <2> HIDE DEF y
  <2>3. countPointsInRow(m.debris, y) = PlayWidth
    BY <2>1 DEF Upheld, Pending
  <2>4. /\ Cardinality(held(m.debris)) = Cardinality(held(debris)) + PlayWidth
        /\ Cardinality(held(debris)) \in Nat
    BY <1>1, <2>1, <2>3, DropHolds
  <2> HIDE DEF debris
  <2>5. /\ r.debris = debris /\ r.block = m.block /\ r.input = m.input
        /\ r.teleportDown = m.teleportDown /\ r.rowsCleared = m.rowsCleared
        /\ r.level = m.level /\ r.score = m.score
    BY <1>1, Fields
  <2> HIDE DEF r
  <2>6. Cardinality(held(debris)) = Cardinality(held(m.debris)) - PlayWidth
    BY <2>4, Sizes
  <2> QED
    BY <1>3, <2>2, <2>4, <2>5, <2>6
<1> QED
  BY <1>2, <1>3

LEMMA EffectTick ==
  ASSUME NEW m, Sound(m), NEW t \in BlockPool, m.state = "Playing", tick(m, t)
  PROVE  LET dropped == updateRowsToDrop(updateSpawnBlock(m, t))
         IN  /\ Sound(dropped) /\ Effect(dropped, model')
             /\ ~dropped.teleportDown /\ ~dropped.input.teleportDown => Scored(dropped, model')
<1> DEFINE dropped == updateRowsToDrop(updateSpawnBlock(m, t))
           teleported == updateTeleportDown(dropped)
           rotated == updateRotateBlock(teleported)
           moved   == updatePlayerMove(rotated)
<1>1. Sound(dropped) /\ model' = updateMoveTimer(moved)
  BY SoundSpawn, SoundDrop DEF tick
<1> HIDE DEF dropped
<1>2. /\ Sound(teleported) /\ Effect(dropped, teleported)
      /\ ~dropped.teleportDown /\ ~dropped.input.teleportDown => Scored(dropped, teleported)
  BY <1>1, SoundTeleport, EffectTeleport
<1> HIDE DEF teleported
<1>3. Sound(rotated) /\ Effect(teleported, rotated) /\ Scored(teleported, rotated)
  BY <1>2, SoundRotate, EffectRotate
<1> HIDE DEF rotated
<1>4. Sound(moved) /\ Effect(rotated, moved) /\ Scored(rotated, moved)
  BY <1>3, SoundPlayerMove, EffectPlayerMove
<1> HIDE DEF moved
<1>5. Sound(model') /\ Effect(moved, model') /\ Scored(moved, model')
  BY <1>1, <1>4, SoundTimer, EffectTimer
<1>6. Effect(rotated, model') /\ Scored(rotated, model')
  BY <1>3, <1>4, <1>5, EffectOn, ScoredOn
<1>7. Effect(teleported, model') /\ Scored(teleported, model')
  BY <1>2, <1>3, <1>6, EffectOn, ScoredOn
<1>8. Effect(dropped, model')
  BY <1>2, <1>7, EffectOn
<1>9. ~dropped.teleportDown /\ ~dropped.input.teleportDown => Scored(dropped, model')
  BY <1>1, <1>2, <1>7, ScoredOn
<1> QED
  BY <1>1, <1>8, <1>9 DEF dropped

(* A key may raise the level, or start a new game when one is over.        *)
LEMMA KeyKeeps ==
  ASSUME NEW m, Sound(m), NEW key
  PROVE  LET r == processInput(m, key)
         IN  \/ r = newGame /\ m.state = "GameOver"
             \/ /\ r.block = m.block /\ r.debris = m.debris /\ r.rowsToDrop = m.rowsToDrop
                /\ r.teleportDown = m.teleportDown /\ r.score = m.score
                /\ r.rowsCleared = m.rowsCleared /\ r.level \in {m.level, m.level + 1}
                /\ m.state = "Playing" => r.state = "Playing"
<1>1. DOMAIN m = DOMAIN newGame /\ m.state \in {"Intro", "Playing", "GameOver"}
  BY DEF Sound, IsModel
<1>2. CASE m.state = "Intro"
  <2> DEFINE r == [m EXCEPT !.state = "Playing"]
  <2>1. /\ r.block = m.block /\ r.debris = m.debris /\ r.rowsToDrop = m.rowsToDrop
        /\ r.teleportDown = m.teleportDown /\ r.score = m.score
        /\ r.rowsCleared = m.rowsCleared /\ r.level = m.level
    BY <1>1, Fields
  <2>2. processInput(m, key) \in {m, r}
    BY <1>2 DEF processInput, updateStartGame
  <2> HIDE DEF r
  <2> QED
    BY <1>2, <2>1, <2>2
<1>3. CASE m.state = "Playing"
  <2> DEFINE n     == updateCheatLevel(m, key)
             input == [move |-> moveInput(key), rotate |-> IF key = "up" THEN 1 ELSE 0,
                       teleportDown |-> key = "spacebar"]
             r     == [n EXCEPT !.input = input]
  <2>1. /\ DOMAIN n = DOMAIN newGame /\ n.block = m.block /\ n.state = m.state
        /\ n.teleportDown = m.teleportDown /\ n.debris = m.debris
        /\ n.rowsToDrop = m.rowsToDrop /\ n.rowsCleared = m.rowsCleared
        /\ n.score = m.score /\ n.level \in {m.level, m.level + 1}
    BY <1>1, Fields DEF updateCheatLevel
  <2>2. processInput(m, key) = r
    BY <1>3 DEF processInput, updatePlayerInput
  <2> HIDE DEF n, input
  <2>3. /\ r.block = m.block /\ r.state = m.state /\ r.teleportDown = m.teleportDown
        /\ r.debris = m.debris /\ r.rowsToDrop = m.rowsToDrop
        /\ r.rowsCleared = m.rowsCleared /\ r.level = n.level /\ r.score = m.score
    BY <2>1, Fields
  <2> HIDE DEF r
  <2> QED
    BY <1>3, <2>1, <2>2, <2>3
<1>4. CASE m.state = "GameOver"
  BY <1>4 DEF processInput, updateNewGame
<1> QED
  BY <1>1, <1>2, <1>3, <1>4

LEMMA PointsFrame ==
  ASSUME Sound(model), Upheld(model), NEW key, NEW template \in BlockPool,
         Frame(key, template), model.state = "Playing"
  PROVE  pointsInPlay(model') = pointsInPlay(model)
           + (IF model.block = empty THEN Cardinality(template) ELSE 0)
           - (IF model.rowsToDrop = {} THEN 0 ELSE PlayWidth)
<1> DEFINE m       == processInput(model, key)
           spawned == updateSpawnBlock(m, template)
           dropped == updateRowsToDrop(spawned)
           blocks(n) == Cardinality(n.block)
           debris(n) == Cardinality(held(n.debris))
<1>1. /\ Sound(m) /\ Upheld(m) /\ tick(m, template) /\ m.state = "Playing"
      /\ m.block = model.block /\ m.debris = model.debris /\ m.rowsToDrop = model.rowsToDrop
  BY SoundKey, UpheldKey, KeyKeeps DEF Frame
<1> HIDE DEF m
<1>2. /\ Sound(spawned) /\ Upheld(spawned) /\ debris(spawned) = debris(model)
      /\ spawned.rowsToDrop = model.rowsToDrop
      /\ blocks(spawned) = IF model.block = {} THEN Cardinality(template) ELSE blocks(model)
  BY <1>1, SoundSpawn, UpheldSpawn, SpawnAdds
<1> HIDE DEF spawned
<1>3. /\ blocks(dropped) = blocks(spawned)
      /\ debris(dropped) = debris(spawned) - (IF model.rowsToDrop = {} THEN 0 ELSE PlayWidth)
      /\ debris(dropped) \in Nat
  BY <1>2, DropTakes
<1>4. Sound(dropped) /\ Effect(dropped, model')
  BY <1>1, EffectTick DEF spawned
<1> HIDE DEF dropped
<1>5. /\ blocks(dropped) \in Nat /\ blocks(model) \in Nat /\ debris(model) \in Nat
      /\ IsDebris(dropped.debris)
  <2>1. IsDebris(model.debris) /\ IsDebris(dropped.debris)
    BY <1>4 DEF Sound, IsModel, IsDebris
  <2> QED
    BY <1>4, <2>1, PlacedFinite, HeldParts, HeldFinite DEF Sound
<1>6. blocks(model') + debris(model') = blocks(dropped) + debris(dropped)
  <2>1. CASE Same(dropped, model')
    BY <2>1 DEF Same
  <2>2. CASE Locked(dropped, model')
    <3>1. PICK b : LockedAs(b, dropped, model')
      BY <2>2 DEF Locked
    <3>2. debris(model') = debris(dropped) + blocks(dropped)
      BY <1>5, <3>1, LockHolds DEF LockedAs
    <3>3. blocks(model') = 0
      BY <2>2, FS_EmptySet DEF Locked
    <3> HIDE DEF blocks, debris
    <3> QED
      BY <1>3, <1>5, <3>2, <3>3
  <2> QED
    BY <1>4, <2>1, <2>2 DEF Effect
<1>7. pointsInPlay(model') = blocks(model') + debris(model') /\ pointsInPlay(model) = blocks(model) + debris(model)
  BY DEF pointsInPlay
<1> HIDE DEF blocks, debris
<1>8. CASE model.block = {}
  <2>1. blocks(model) = 0
    BY <1>8, FS_EmptySet DEF blocks
  <2> QED
    BY <1>2, <1>3, <1>5, <1>6, <1>7, <1>8, <2>1, EmptyBlock, Sizes
<1>9. CASE model.block # {}
  BY <1>2, <1>3, <1>5, <1>6, <1>7, <1>9, EmptyBlock, Sizes
<1> QED
  BY <1>8, <1>9

LEMMA RowsFrame ==
  ASSUME Sound(model), Upheld(model), NEW key, NEW template \in BlockPool,
         Frame(key, template), FullRows(model) \subseteq model.rowsToDrop,
         Cardinality(model.rowsToDrop) <= 1 \/ model'.block # empty
  PROVE  FullRows(model') \subseteq model'.rowsToDrop
<1> DEFINE m       == processInput(model, key)
           spawned == updateSpawnBlock(m, template)
           dropped == updateRowsToDrop(spawned)
<1>1. /\ Sound(m) /\ Upheld(m) /\ tick(m, template)
      /\ m = newGame \/ (m.debris = model.debris /\ m.rowsToDrop = model.rowsToDrop)
  BY SoundKey, UpheldKey, KeyKeeps DEF Frame
<1> HIDE DEF m
<1>2. FullRows(m) \subseteq m.rowsToDrop
  <2>1. CASE m = newGame
    <3>1. m.debris = EmptyBag /\ DOMAIN EmptyBag = {}
      BY <2>1 DEF newGame, EmptyBag, SetToBag
    <3>2. \A y : countPointsInRow(m.debris, y) = 0
      <4> SUFFICES ASSUME NEW y PROVE countPointsInRow(m.debris, y) = 0
        OBVIOUS
      <4> DEFINE row == {p \in DOMAIN m.debris : p.y = y}
      <4>1. countPointsInRow(m.debris, y) = Cardinality(heldIn(m.debris, row))
        BY HeldParts
      <4>2. row = {}
        BY <3>1
      <4>3. heldIn(m.debris, {}) = {}
        BY DEF heldIn
      <4> HIDE DEF row
      <4> QED
        BY <4>1, <4>2, <4>3, FS_EmptySet
    <3> QED
      BY <3>2, Sizes DEF FullRows
  <2>2. CASE m.debris = model.debris /\ m.rowsToDrop = model.rowsToDrop
    BY <2>2 DEF FullRows
  <2> QED
    BY <1>1, <2>1, <2>2
<1>3. CASE m.state # "Playing"
  BY <1>1, <1>2, <1>3 DEF tick
<1>4. CASE m.state = "Playing"
  <2>1. m.rowsToDrop = model.rowsToDrop
    BY <1>1, <1>4 DEF newGame
  <2>2. /\ Sound(spawned) /\ spawned.debris = m.debris /\ spawned.rowsToDrop = m.rowsToDrop
    BY <1>1, SoundSpawn, SpawnAdds
  <2>3. FullRows(spawned) \subseteq spawned.rowsToDrop
    BY <1>2, <2>2 DEF FullRows
  <2>4. Sound(dropped) /\ Effect(dropped, model')
    BY <1>1, <1>4, EffectTick
  <2> HIDE DEF spawned
  <2>5. /\ FullRows(dropped) \subseteq dropped.rowsToDrop
        /\ Cardinality(model.rowsToDrop) <= 1 => dropped.rowsToDrop = {}
    BY <2>1, <2>2, <2>3, FullAfterDrop
  <2> HIDE DEF dropped
  <2>6. CASE Same(dropped, model')
    BY <2>5, <2>6 DEF Same, FullRows
  <2>7. CASE Locked(dropped, model')
    <3>1. FullRows(dropped) = {}
      BY <2>5, <2>7, EmptyBlock DEF Locked
    <3>2. PICK b : LockedAs(b, dropped, model')
      BY <2>7 DEF Locked
    <3>3. IsDebris(dropped.debris)
      BY <2>4 DEF Sound, IsModel, IsDebris
    <3>4. ASSUME NEW y \in FullRows(model') PROVE y \in model'.rowsToDrop
      <4>1. y \in Rows /\ countPointsInRow(model'.debris, y) = PlayWidth
        BY <3>4 DEF FullRows
      <4>2. CASE y \in rowsOf(b)
        BY <3>2, <4>1, <4>2 DEF LockedAs
      <4>3. CASE y \notin rowsOf(b)
        <5>1. countPointsInRow(dropped.debris, y) = PlayWidth
          BY <3>2, <3>3, <4>1, <4>3, OtherRowsKept DEF LockedAs
        <5> QED
          BY <3>1, <4>1, <5>1 DEF FullRows
      <4> QED
        BY <4>2, <4>3
    <3> QED
      BY <3>4
  <2> QED
    BY <2>4, <2>6, <2>7 DEF Effect
<1> QED
  BY <1>3, <1>4

(* In a game that is played, only the cheat changes the level at the key.  *)
LEMMA KeyLevel ==
  ASSUME NEW m, Sound(m), NEW key, processInput(m, key).state = "Playing"
  PROVE  processInput(m, key).level = IF key = "ctrlUp" THEN m.level + 1 ELSE m.level
<1>1. DOMAIN m = DOMAIN newGame /\ m.state \in {"Intro", "Playing", "GameOver"}
  BY DEF Sound, IsModel
<1>2. CASE m.state = "Intro"
  <2> DEFINE r == [m EXCEPT !.state = "Playing"]
  <2>1. r.level = m.level
    BY <1>1, Fields
  <2>2. key = "spacebar" /\ processInput(m, key) = r
    BY <1>2 DEF processInput, updateStartGame
  <2> HIDE DEF r
  <2> QED
    BY <2>1, <2>2
<1>3. CASE m.state = "Playing"
  <2> DEFINE n     == updateCheatLevel(m, key)
             input == [move |-> moveInput(key), rotate |-> IF key = "up" THEN 1 ELSE 0,
                       teleportDown |-> key = "spacebar"]
             r     == [n EXCEPT !.input = input]
  <2>1. /\ DOMAIN n = DOMAIN newGame
        /\ n.level = IF key = "ctrlUp" THEN m.level + 1 ELSE m.level
    BY <1>1, Fields DEF updateCheatLevel
  <2>2. processInput(m, key) = r
    BY <1>3 DEF processInput, updatePlayerInput
  <2> HIDE DEF n, input
  <2>3. r.level = n.level
    BY <2>1, Fields
  <2> HIDE DEF r
  <2> QED
    BY <2>1, <2>2, <2>3
<1>4. CASE m.state = "GameOver"
  <2>1. processInput(m, key) \in {m, newGame}
    BY <1>4 DEF processInput, updateNewGame
  <2>2. newGame.state = "Intro"
    BY DEF newGame
  <2> QED
    BY <1>4, <2>1, <2>2
<1> QED
  BY <1>1, <1>2, <1>3, <1>4

LEMMA ScoreFrame ==
  ASSUME Sound(model), Upheld(model), Sound(model'), NEW key, NEW template \in BlockPool,
         Frame(key, template), model'.state # "Intro", ~teleporting
  PROVE  model'.score - model.score = rowScore(key)
<1> DEFINE m       == processInput(model, key)
           spawned == updateSpawnBlock(m, template)
           dropped == updateRowsToDrop(spawned)
           level   == IF key = "ctrlUp" THEN model.level + 1 ELSE model.level
<1>1. Sound(m) /\ Upheld(m) /\ tick(m, template)
  BY SoundKey, UpheldKey DEF Frame
<1>2. \/ m = newGame
      \/ /\ m.teleportDown = model.teleportDown /\ m.score = model.score
         /\ m.rowsCleared = model.rowsCleared
  BY KeyKeeps
<1>3. m.state = "Playing" => m.level = level
  BY KeyLevel
<1> HIDE DEF m
<1>4. /\ model.score \in Nat /\ model.rowsCleared \in Nat
      /\ model'.score \in Nat /\ model'.rowsCleared \in Nat
  BY DEF Sound, IsModel
<1>5. CASE m.state # "Playing"
  <2>1. model' = m
    BY <1>1, <1>5 DEF tick
  <2>2. model'.score = model.score /\ model'.rowsCleared = model.rowsCleared
    BY <1>2, <2>1 DEF newGame
  <2> QED
    BY <1>4, <2>2 DEF rowScore
<1>6. CASE m.state = "Playing"
  <2>1. /\ m.teleportDown = model.teleportDown /\ m.score = model.score
        /\ m.rowsCleared = model.rowsCleared /\ m.level = level
    BY <1>2, <1>6, <1>3 DEF newGame
  <2> HIDE DEF level
  <2>2. /\ Sound(spawned) /\ Upheld(spawned)
        /\ spawned.teleportDown = m.teleportDown /\ spawned.score = m.score
        /\ spawned.rowsCleared = m.rowsCleared /\ spawned.level = m.level
    BY <1>1, <1>6, SoundSpawn, UpheldSpawn, SpawnAdds
  <2>3. /\ Sound(dropped) /\ Effect(dropped, model')
        /\ ~dropped.teleportDown /\ ~dropped.input.teleportDown => Scored(dropped, model')
    BY <1>1, <1>6, EffectTick
  <2> HIDE DEF spawned
  <2>4. /\ dropped.teleportDown = model.teleportDown /\ dropped.score = model.score
        /\ dropped.rowsCleared = model.rowsCleared
        /\ dropped.level = level
    BY <2>1, <2>2, DropTakes
  <2> HIDE DEF dropped
  <2>5. dropped.input = model'.input
    BY <2>3 DEF Effect, Same, Locked
  <2>6. Scored(dropped, model')
    BY <2>3, <2>4, <2>5 DEF teleporting
  <2> DEFINE count == model'.rowsCleared - model.rowsCleared
             won   == scoreForRowsCleared(dropped.level, count)
  <2>7. model'.score = model.score
          + (IF model'.rowsCleared = model.rowsCleared THEN 0 ELSE won)
    BY <2>4, <2>6 DEF Scored
  <2>8. CASE model'.rowsCleared = model.rowsCleared
    <3>1. count = 0 /\ model'.score - model.score = 0
      BY <1>4, <2>7, <2>8
    <3> QED
      BY <3>1 DEF rowScore
  <2>9. CASE model'.rowsCleared # model.rowsCleared
    <3>1. count # 0
      BY <1>4, <2>9
    <3>2. won \in Int
      <4>1. dropped.level \in Nat
        BY <2>3 DEF Sound, IsModel
      <4>2. (CASE count = 4 -> 1200 [] count = 3 -> 300 [] count = 2 -> 100 [] OTHER -> 40) \in Nat
        OBVIOUS
      <4> HIDE DEF count
      <4> QED
        BY <4>1, <4>2 DEF scoreForRowsCleared
    <3>3. won = scoreForRowsCleared(level, count)
      BY <2>4
    <3> HIDE DEF won
    <3>4. model'.score - model.score = won
      BY <1>4, <2>7, <2>9, <3>2
    <3> QED
      BY <3>1, <3>3, <3>4 DEF rowScore, level
  <2> QED
    BY <2>8, <2>9
<1> QED
  BY <1>5, <1>6
-----------------------------------------------------------------------------
(* What FallingBlocks says, about the model.                               *)

LEMMA RulesArea ==
  /\ Rules!Cells = Cells /\ 0 .. PlayHeight - 1 = Rows
  /\ \A S : Rules!Cardinality(S) = Cardinality(S)
<1>1. Rules!Cells = Cells /\ 0 .. PlayHeight - 1 = Rows
  BY DEF Rules!Cells, Cells, Columns, Rows
<1>2. \A S : Rules!Cardinality(S) = Cardinality(S)
  BY Zenon DEF Rules!Cardinality, Cardinality
<1> QED
  BY <1>1, <1>2

LEMMA CopiesAre ==
  ASSUME NEW debris, IsDebris(debris)
  PROVE  /\ copies(debris) \in [Cells -> Nat]
         /\ Rules!Occupied(copies(debris)) = DOMAIN debris
         /\ Rules!Full(copies(debris)) = {y \in Rows : countPointsInRow(debris, y) = PlayWidth}
<1> DEFINE heap == copies(debris)
<1>1. /\ DOMAIN heap = Cells /\ heap \in [Cells -> Nat]
      /\ \A p \in Cells : heap[p] = IF p \in DOMAIN debris THEN debris[p] ELSE 0
  BY DEF copies, IsDebris
<1>2. \A p \in DOMAIN debris : p \in Cells /\ debris[p] \in Nat \ {0}
  BY DEF IsDebris
<1> HIDE DEF heap
<1>3. Rules!Occupied(heap) = DOMAIN debris
  <2>1. Rules!Occupied(heap) = {p \in Cells : heap[p] > 0}
    BY RulesArea DEF Rules!Occupied
  <2>2. \A p \in Cells : heap[p] > 0 <=> p \in DOMAIN debris
    BY <1>1, <1>2
  <2> QED
    BY <1>2, <2>1, <2>2
<1>4. ASSUME NEW y
      PROVE  heldIn(heap, {p \in Cells : p.y = y}) = heldIn(debris, {p \in DOMAIN debris : p.y = y})
  <2> DEFINE all == {p \in Cells : p.y = y}
             row == {p \in DOMAIN debris : p.y = y}
  <2>1. \A p \in row : p \in all /\ heap[p] = debris[p]
    BY <1>1, <1>2
  <2>2. \A p \in all : p \in row \/ 1..heap[p] = {}
    BY <1>1
  <2> HIDE DEF all, row
  <2>3. ASSUME NEW z PROVE z \in heldIn(heap, all) <=> z \in heldIn(debris, row)
    BY <2>1, <2>2, HeldIs
  <2>4. heldIn(heap, all) = heldIn(debris, row)
    <3>1. \A z : z \in heldIn(heap, all) <=> z \in heldIn(debris, row)
      BY <2>3
    <3> QED
      BY <3>1, Zenon
  <2> QED
    BY <2>4 DEF all, row
<1>5. \A y : Cardinality(heldIn(heap, {p \in Cells : p.y = y})) = countPointsInRow(debris, y)
  <2> SUFFICES ASSUME NEW y
               PROVE  Cardinality(heldIn(heap, {p \in Cells : p.y = y}))
                        = countPointsInRow(debris, y)
    OBVIOUS
  <2>1. countPointsInRow(debris, y) = Cardinality(heldIn(debris, {p \in DOMAIN debris : p.y = y}))
    BY HeldParts
  <2> QED
    BY <1>4, <2>1
<1>6. Rules!Full(heap) = {y \in Rows : countPointsInRow(debris, y) = PlayWidth}
  BY <1>5, RulesArea DEF Rules!Full, heldIn
<1> QED
  BY <1>1, <1>3, <1>6 DEF heap

(* Nothing lies above the highest row, and what lies above the row that is *)
(* dropped comes down.                                                     *)
LEMMA CopiesDropped ==
  ASSUME NEW debris, IsDebris(debris), NEW r \in Rows
  PROVE  copies(dropRow(debris, r)) = Rules!Without(copies(debris), r)
<1> DEFINE dropped == dropRow(debris, r)
           kept    == {p \in DOMAIN debris : p.y # r}
           above(q) == [q EXCEPT !.y = q.y - 1]
<1>1. /\ DOMAIN dropped = {fallen(p, r) : p \in kept}
      /\ \A p \in kept : dropped[fallen(p, r)] = debris[p]
      /\ \A p \in kept : fallen(p, r).y = IF p.y < r THEN p.y + 1 ELSE p.y
  BY DropIs
<1> HIDE DEF dropped
<1>2. /\ r \in Int /\ \A p \in Cells : p \in Vec /\ p.x \in Int /\ p.y \in Int /\ 0 <= p.y
      /\ DOMAIN debris \in SUBSET Cells
  BY CellsType, Sizes DEF Rows, IsDebris
<1>3. ASSUME NEW q \in Cells
      PROVE  copies(dropped)[q] = IF q.y > r THEN copies(debris)[q]
                                  ELSE IF q.y = 0 THEN 0 ELSE copies(debris)[above(q)]
  <2>1. /\ copies(dropped)[q] = IF q \in DOMAIN dropped THEN dropped[q] ELSE 0
        /\ copies(debris)[q] = IF q \in DOMAIN debris THEN debris[q] ELSE 0
    BY DEF copies
  <2>2. CASE q.y > r
    <3>1. q \in DOMAIN debris => q \in kept /\ fallen(q, r) = q
      BY <1>2, <2>2 DEF fallen
    <3>2. ASSUME NEW p \in kept, fallen(p, r) = q PROVE p = q
      <4>1. p.y \in Int /\ ~(p.y < r)
        BY <1>1, <1>2, <2>2, <3>2
      <4> QED
        BY <3>2, <4>1 DEF fallen
    <3> QED
      BY <1>1, <2>1, <2>2, <3>1, <3>2
  <2>3. CASE ~(q.y > r) /\ q.y = 0
    <3>1. ASSUME NEW p \in kept PROVE fallen(p, r) # q
      <4>1. p.y \in Int /\ 0 <= p.y /\ p.y # r
        BY <1>2
      <4> QED
        BY <1>1, <1>2, <2>3, <4>1
    <3> QED
      BY <1>1, <2>1, <2>3, <3>1
  <2>4. CASE ~(q.y > r) /\ q.y # 0
    <3>1. above(q) \in Cells /\ above(q).y = q.y - 1 /\ above(q).x = q.x /\ above(q).y < r
      <4>1. above(q).x = q.x /\ above(q).y = q.y - 1 /\ above(q) \in Vec
        BY <1>2 DEF Vec
      <4>2. q.y \in Int /\ q.x \in Int /\ 0 <= q.y /\ 0 <= q.x /\ q.x <= PlayWidth - 1
            /\ q.y <= PlayHeight - 1
        BY CellsType
      <4> HIDE DEF above
      <4> QED
        BY <1>2, <2>4, <4>1, <4>2, Sizes, CellsType
    <3>2. fallen(above(q), r) = q
      <4>1. /\ fallen(above(q), r) = add(above(q), down)
            /\ above(q) \in Vec
        BY <1>2, <3>1 DEF fallen
      <4>2. /\ add(above(q), down) \in Vec /\ add(above(q), down).x = q.x
            /\ add(above(q), down).y = q.y
        <5> HIDE DEF above
        <5>1. /\ add(above(q), down) \in Vec
              /\ add(above(q), down).x = above(q).x + down.x
              /\ add(above(q), down).y = above(q).y + down.y
          BY <4>1, VecType, MovesType
        <5> QED
          BY <1>2, <3>1, <5>1, MovesType
      <4> HIDE DEF above
      <4> QED
        BY <1>2, <4>1, <4>2, VecEqual
    <3>3. ASSUME NEW p \in kept, fallen(p, r) = q PROVE p = above(q)
      <4>1. p \in Vec /\ p.x \in Int /\ p.y \in Int /\ p.y # r
        BY <1>2
      <4>2. p.y < r
        BY <1>1, <1>2, <2>4, <3>3, <4>1
      <4>3. q = add(p, down)
        BY <3>3, <4>2 DEF fallen
      <4>4. q.x = p.x + down.x /\ q.y = p.y + down.y
        BY <4>1, <4>3, VecType, MovesType
      <4>5. p.x = above(q).x /\ p.y = above(q).y /\ above(q) \in Vec
        BY <1>2, <3>1, <4>1, <4>4, MovesType
      <4> HIDE DEF above
      <4> QED
        BY <4>1, <4>5, VecEqual
    <3> HIDE DEF above
    <3>4. copies(debris)[above(q)] = IF above(q) \in DOMAIN debris THEN debris[above(q)] ELSE 0
      BY <3>1 DEF copies
    <3>5. above(q) \in DOMAIN debris => above(q) \in kept
      BY <1>2, <3>1
    <3> HIDE DEF kept
    <3>6. q \in DOMAIN dropped <=> above(q) \in kept
      BY <1>1, <3>2, <3>3
    <3>7. kept \subseteq DOMAIN debris
      BY DEF kept
    <3> QED
      BY <1>1, <2>1, <2>4, <3>2, <3>4, <3>5, <3>6, <3>7
  <2> QED
    BY <2>2, <2>3, <2>4
<1>4. copies(dropped) = [q \in Cells |-> IF q.y > r THEN copies(debris)[q]
                                        ELSE IF q.y = 0 THEN 0 ELSE copies(debris)[above(q)]]
  <2>1. copies(dropped) = [q \in Cells |-> copies(dropped)[q]]
    BY DEF copies
  <2> HIDE DEF above
  <2> QED
    BY <1>3, <2>1
<1> QED
  BY <1>4, RulesArea DEF Rules!Without, dropped

(* A lock adds one to each cell of its block.                              *)
LEMMA CopiesLocked ==
  ASSUME NEW debris, IsDebris(debris), NEW b, Placed(b)
  PROVE  LET heap == copies(debris (+) SetToBag(b))
         IN  \A p \in Cells : heap[p] = copies(debris)[p] + (IF p \in b THEN 1 ELSE 0)
<1> DEFINE locked == debris (+) SetToBag(b)
<1>1. /\ IsDebris(locked) /\ DOMAIN locked = DOMAIN debris \cup b
      /\ \A p \in DOMAIN debris \ b : locked[p] = debris[p]
      /\ \A p \in DOMAIN debris \cap b : locked[p] = debris[p] + 1
      /\ \A p \in b \ DOMAIN debris : locked[p] = 1
  BY LockedIs
<1> HIDE DEF locked
<1>2. ASSUME NEW p \in Cells
      PROVE  copies(locked)[p] = copies(debris)[p] + (IF p \in b THEN 1 ELSE 0)
  <2>1. /\ copies(locked)[p] = IF p \in DOMAIN locked THEN locked[p] ELSE 0
        /\ copies(debris)[p] = IF p \in DOMAIN debris THEN debris[p] ELSE 0
    BY DEF copies
  <2>2. p \in DOMAIN debris => debris[p] \in Nat
    BY DEF IsDebris
  <2> QED
    BY <1>1, <2>1, <2>2
<1> QED
  BY <1>2 DEF locked

LEMMA RestsIs ==
  ASSUME NEW debris, IsDebris(debris), NEW b \in SUBSET Cells
  PROVE  Rules!Rests(b, copies(debris)) <=> Supported(b, debris)
<1>1. ASSUME NEW p \in b PROVE [p EXCEPT !.y = p.y + 1] = add(p, down)
  <2>1. p \in Vec /\ p.x \in Int /\ p.y \in Int
    BY CellsType
  <2>2. [p EXCEPT !.y = p.y + 1] \in Vec /\ [p EXCEPT !.y = p.y + 1].x = p.x
        /\ [p EXCEPT !.y = p.y + 1].y = p.y + 1
    BY <2>1 DEF Vec
  <2>3. add(p, down) \in Vec /\ add(p, down).x = p.x /\ add(p, down).y = p.y + 1
    BY <2>1, VecType, MovesType
  <2> QED
    BY <2>2, <2>3, VecEqual
<1>2. Rules!Occupied(copies(debris)) = DOMAIN debris
  BY CopiesAre
<1> QED
  BY <1>1, <1>2 DEF Rules!Rests, Supported

(* A key starts the game, or starts it again when it is over.              *)
LEMMA KeyPhase ==
  ASSUME NEW m, Sound(m), NEW key
  PROVE  LET r == processInput(m, key)
         IN  \/ r = newGame /\ m.state = "GameOver"
             \/ r.state = m.state
             \/ m.state = "Intro" /\ r.state = "Playing"
<1>1. DOMAIN m = DOMAIN newGame /\ m.state \in {"Intro", "Playing", "GameOver"}
  BY DEF Sound, IsModel
<1>2. CASE m.state = "Intro"
  <2>1. [m EXCEPT !.state = "Playing"].state = "Playing"
    BY <1>1, Fields
  <2> QED
    BY <1>2, <2>1 DEF processInput, updateStartGame
<1>3. CASE m.state = "Playing"
  <2> DEFINE n     == updateCheatLevel(m, key)
             input == [move |-> moveInput(key), rotate |-> IF key = "up" THEN 1 ELSE 0,
                       teleportDown |-> key = "spacebar"]
             r     == [n EXCEPT !.input = input]
  <2>1. DOMAIN n = DOMAIN newGame /\ n.state = m.state
    BY <1>1, Fields DEF updateCheatLevel
  <2>2. processInput(m, key) = r
    BY <1>3 DEF processInput, updatePlayerInput
  <2> HIDE DEF n, input
  <2> QED
    BY <2>1, <2>2, Fields
<1>4. CASE m.state = "GameOver"
  BY <1>4 DEF processInput, updateNewGame
<1> QED
  BY <1>1, <1>2, <1>3, <1>4

(* A block appears where it would in a new game.                           *)
LEMMA SpawnAppears ==
  ASSUME NEW m, Sound(m), NEW t \in BlockPool
  PROVE  LET r == updateSpawnBlock(m, t)
         IN  IF m.block # {} THEN r = m
             ELSE /\ r.block = appears(t)
                  /\ r.state = IF appears(t) \cap DOMAIN m.debris # {}
                               THEN "GameOver" ELSE m.state
<1> DEFINE d     == vec2(playMin.x + PlayWidth \div 2 - (size(t).x + 1) \div 2, playMin.y)
           block == translate(t, d)
           state(n) == IF blockIntersectsDebris(block, n.debris) THEN "GameOver" ELSE n.state
           r(n)  == [n EXCEPT !.block = block, !.state = state(n)]
<1>1. CASE m.block # {}
  BY <1>1, EmptyBlock DEF updateSpawnBlock
<1>2. CASE m.block = {}
  <2>1. updateSpawnBlock(m, t) = r(m)
    BY <1>2, EmptyBlock DEF updateSpawnBlock
  <2>2. newGame.block = {}
    BY EmptyBlock DEF newGame
  <2>3. updateSpawnBlock(newGame, t) = r(newGame)
    BY <2>2, EmptyBlock DEF updateSpawnBlock
  <2>4. DOMAIN m = DOMAIN newGame
    BY DEF Sound, IsModel
  <2>5. state(m) = IF block \cap DOMAIN m.debris # {} THEN "GameOver" ELSE m.state
    BY DEF blockIntersectsDebris
  <2> HIDE DEF block, state
  <2>6. /\ r(m).block = block /\ r(newGame).block = block /\ r(m).state = state(m)
    BY <2>4, Fields
  <2> HIDE DEF r
  <2> QED
    BY <1>2, <2>1, <2>3, <2>5, <2>6 DEF appears
<1> QED
  BY <1>1, <1>2

(* The row that is dropped is the highest of those that wait.              *)
LEMMA DropLeaves ==
  ASSUME NEW m, Sound(m)
  PROVE  LET r == updateRowsToDrop(m)
             y == Min(m.rowsToDrop)
         IN  /\ r.state = m.state /\ r.block = m.block
             /\ IF m.rowsToDrop = {} THEN r = m
                ELSE /\ y \in Rows /\ r.rowsToDrop = m.rowsToDrop \ {y}
                     /\ r.debris = dropRow(m.debris, y)
<1> DEFINE y == Min(m.rowsToDrop)
           r == [m EXCEPT !.debris = dropRow(m.debris, y), !.rowsToDrop = m.rowsToDrop \ {y}]
<1>1. CASE m.rowsToDrop = {}
  BY <1>1 DEF updateRowsToDrop
<1>2. CASE m.rowsToDrop # {}
  <2>1. IsModel(m) /\ DOMAIN m = DOMAIN newGame /\ m.rowsToDrop \in SUBSET Rows
    BY DEF Sound, IsModel
  <2>2. y \in m.rowsToDrop
    BY <1>2, <2>1, FirstRow
  <2>3. updateRowsToDrop(m) = r
    BY <1>2 DEF updateRowsToDrop
  <2> HIDE DEF y
  <2>4. /\ r.state = m.state /\ r.block = m.block
        /\ r.debris = dropRow(m.debris, y) /\ r.rowsToDrop = m.rowsToDrop \ {y}
    BY <2>1, Fields
  <2> HIDE DEF r
  <2> QED
    BY <1>2, <2>1, <2>2, <2>3, <2>4 DEF y
<1> QED
  BY <1>1, <1>2

(* The moves of a frame are a move or a landing of FallingBlocks.          *)
LEMMA RulesMove ==
  ASSUME NEW d, Sound(d), Sound(model'), d.block # {}, Effect(d, model'),
         Rules!rest = copies(d.debris), Rules!left = d.rowsToDrop
  PROVE  Rules!Move(d.block) \/ Rules!Land(d.block)
<1> DEFINE rest == copies(d.debris)
           heap == copies(model'.debris)
           block == model'.block
           rows == model'.rowsToDrop
<1>1. /\ IsDebris(d.debris) /\ IsDebris(model'.debris) /\ Placed(d.block) /\ Placed(block)
      /\ rows \in SUBSET Rows
  BY DEF Sound, IsModel, IsDebris
<1>2. /\ rest \in [Cells -> Nat] /\ Rules!Occupied(rest) = DOMAIN d.debris
      /\ Rules!Full(rest) = {y \in Rows : countPointsInRow(d.debris, y) = PlayWidth}
      /\ Rules!Full(heap) = {y \in Rows : countPointsInRow(model'.debris, y) = PlayWidth}
  BY <1>1, CopiesAre
<1>3. CASE Same(d, model')
  <2>1. /\ block # {} /\ block \subseteq Cells
        /\ Rules!Cardinality(block) = Rules!Cardinality(d.block)
    BY <1>1, <1>3, PlacedBounds, RulesArea DEF Same
  <2>2. d.block \cap Rules!Occupied(rest) = {} => block \cap Rules!Occupied(rest) = {}
    BY <1>2, <1>3 DEF Same, Apart
  <2>3. heap = rest /\ rows = d.rowsToDrop
    BY <1>3 DEF Same
  <2> QED
    BY <2>1, <2>2, <2>3, RulesArea DEF Rules!Move
<1>4. CASE Locked(d, model')
  <2>1. PICK b : LockedAs(b, d, model')
    BY <1>4 DEF Locked
  <2>2. block = {} /\ Placed(b) /\ b \in SUBSET Cells
    BY <1>4, <2>1, PlacedBounds DEF Locked, LockedAs
  <2>3. \A p \in Cells : heap[p] = rest[p] + (IF p \in b THEN 1 ELSE 0)
    BY <1>1, <2>1, <2>2, CopiesLocked DEF LockedAs
  <2> DEFINE landed == {p \in Cells : heap[p] = rest[p] + 1}
  <2>4. landed = b /\ \A p \in Cells \ landed : heap[p] = rest[p]
    <3> HIDE DEF heap, rest
    <3> QED
      BY <1>2, <2>2, <2>3
  <2>5. Rules!Cardinality(landed) = Rules!Cardinality(d.block)
    BY <2>1, <2>4, RulesArea DEF LockedAs
  <2>6. Rules!Rests(landed, rest)
    BY <1>1, <2>1, <2>2, <2>4, RestsIs DEF LockedAs
  <2>7. d.block \cap Rules!Occupied(rest) = {} => landed \cap Rules!Occupied(rest) = {}
    BY <1>2, <2>1, <2>4 DEF LockedAs, Apart
  <2>8. Rules!Full(heap) \ Rules!Full(rest) \subseteq rows
    <3> SUFFICES ASSUME NEW y \in Rows, countPointsInRow(model'.debris, y) = PlayWidth,
                        countPointsInRow(d.debris, y) # PlayWidth
                 PROVE  y \in rows
      BY <1>2
    <3>1. y \in rowsOf(b)
      BY <1>1, <2>1, <2>2, OtherRowsKept DEF LockedAs
    <3> QED
      BY <2>1, <3>1 DEF LockedAs
  <2>9. rows \subseteq Rules!Full(heap)
    BY <1>1, <1>2, <2>1 DEF LockedAs
  <2> HIDE DEF landed
  <2>10. landed = {p \in Rules!Cells : heap[p] = rest[p] + 1}
    BY RulesArea DEF landed
  <2> QED
    BY <2>2, <2>4, <2>5, <2>6, <2>7, <2>8, <2>9, <2>10, RulesArea DEF Rules!Land
<1> QED
  BY <1>3, <1>4 DEF Effect

LEMMA RulesFrame ==
  ASSUME Sound(model), Upheld(model), Sound(model'), NEW key, NEW template \in BlockPool,
         Frame(key, template)
  PROVE  Rules!Next \/ UNCHANGED Rules!vars
<1> DEFINE m       == processInput(model, key)
           spawned == updateSpawnBlock(m, template)
           dropped == updateRowsToDrop(spawned)
<1>1. /\ Sound(m) /\ Upheld(m) /\ tick(m, template)
      /\ \/ m = newGame /\ model.state = "GameOver"
         \/ /\ m.block = model.block /\ m.debris = model.debris /\ m.rowsToDrop = model.rowsToDrop
            /\ \/ m.state = model.state
               \/ model.state = "Intro" /\ m.state = "Playing"
  BY SoundKey, UpheldKey, KeyKeeps, KeyPhase DEF Frame
<1> HIDE DEF m
<1>2. CASE m.state # "Playing"
  <2>1. model' = m
    BY <1>1, <1>2 DEF tick
  <2>2. CASE m = newGame /\ model.state = "GameOver"
    <3>1. /\ newGame.state = "Intro" /\ newGame.block = {} /\ newGame.rowsToDrop = {}
          /\ DOMAIN newGame.debris = {}
      BY EmptyBlock DEF newGame, EmptyBag, SetToBag
    <3>2. copies(newGame.debris) = [p \in Cells |-> 0]
      BY <3>1 DEF copies
    <3> HIDE DEF newGame
    <3> QED
      BY <2>1, <2>2, <3>1, <3>2, RulesArea DEF Rules!Next, Rules!Again
  <2>3. CASE /\ m.block = model.block /\ m.debris = model.debris
             /\ m.rowsToDrop = model.rowsToDrop /\ m.state = model.state
    BY <2>1, <2>3 DEF Rules!vars
  <2> QED
    BY <1>1, <1>2, <2>2, <2>3
<1>3. CASE m.state = "Playing"
  <2>1. /\ m.block = model.block /\ m.debris = model.debris /\ m.rowsToDrop = model.rowsToDrop
        /\ model.state # "GameOver"
    BY <1>1, <1>3 DEF newGame
  <2>2. /\ Sound(spawned) /\ spawned.block # {}
        /\ spawned.debris = model.debris /\ spawned.rowsToDrop = model.rowsToDrop
        /\ IF model.block # {} THEN spawned.block = model.block /\ spawned.state = "Playing"
           ELSE /\ spawned.block = appears(template)
                /\ spawned.state = IF appears(template) \cap DOMAIN model.debris # {}
                                   THEN "GameOver" ELSE "Playing"
    BY <1>1, <1>3, <2>1, SoundSpawn, SpawnAdds, SpawnAppears
  <2>3. Sound(dropped) /\ Effect(dropped, model')
    BY <1>1, <1>3, EffectTick
  <2> HIDE DEF spawned
  <2>4. /\ dropped.state = spawned.state /\ dropped.block = spawned.block
        /\ IF model.rowsToDrop = {} THEN dropped = spawned
           ELSE /\ Min(model.rowsToDrop) \in Rows
                /\ dropped.rowsToDrop = model.rowsToDrop \ {Min(model.rowsToDrop)}
                /\ dropped.debris = dropRow(model.debris, Min(model.rowsToDrop))
    BY <2>2, DropLeaves
  <2> HIDE DEF dropped
  <2>5. IsDebris(model.debris) /\ Rules!Occupied(copies(model.debris)) = DOMAIN model.debris
    BY CopiesAre DEF Sound, IsModel, IsDebris
  <2>6. Rules!top = Min(model.rowsToDrop)
    BY Zenon DEF Rules!top, Min
  <2>7. Rules!rest = copies(dropped.debris) /\ Rules!left = dropped.rowsToDrop
    BY <2>2, <2>4, <2>5, <2>6, CopiesDropped DEF Rules!rest, Rules!left
  <2>8. Rules!Move(dropped.block) \/ Rules!Land(dropped.block)
    BY <2>2, <2>3, <2>4, <2>7, RulesMove
  <2>9. model'.state = dropped.state
    BY <2>3 DEF Effect, Same, Locked
  <2>10. dropped.block \in IF model.block = {} THEN {appears(t) : t \in BlockPool} ELSE {model.block}
    BY <2>2, <2>4
  <2>11. model'.state = IF model.block = {} /\ dropped.block \cap Rules!Occupied(copies(model.debris)) # {}
                        THEN "GameOver" ELSE "Playing"
    BY <2>2, <2>4, <2>5, <2>9
  <2>12. Rules!Play
    BY <2>1, <2>8, <2>10, <2>11 DEF Rules!Play
  <2> QED
    BY <2>12 DEF Rules!Next
<1> QED
  BY <1>2, <1>3
-----------------------------------------------------------------------------
(* PointsConserved: whatever locks and drops a frame runs, points come     *)
(* with a template and go with a full row (addBlockToDebris, dropRow,      *)
(* safeRotateBlock).                                                       *)
THEOREM PointsKept == Spec => PointsConserved
<1> DEFINE Step ==
      model.state = "Playing"
        => \E template \in BlockPool :
             pointsInPlay(model') = pointsInPlay(model)
               + (IF model.block = empty THEN Cardinality(template) ELSE 0)
               - (IF model.rowsToDrop = {} THEN 0 ELSE PlayWidth)
<1>1. Sound(model) /\ Upheld(model) /\ [Next]_vars => [Step]_vars
  <2> SUFFICES ASSUME Sound(model), Upheld(model), Next PROVE Step
    OBVIOUS
  <2> QED
    BY PointsFrame DEF Next
<1> QED
  BY <1>1, SoundInvariant, UpheldInvariant, PTL DEF Spec, PointsConserved

(* FullRowsPending: dropping a row makes no other row full, and a lock     *)
(* only the rows it reaches (updateRowsToDrop, addBlockToDebris).          *)
THEOREM RowsRemembered == Spec => FullRowsPending
<1> DEFINE Step == /\ FullRows(model) \subseteq model.rowsToDrop
                   /\ Cardinality(model.rowsToDrop) <= 1 \/ model'.block # empty
                   => FullRows(model') \subseteq model'.rowsToDrop
<1>1. Sound(model) /\ Upheld(model) /\ [Next]_vars => [Step]_vars
  <2> SUFFICES ASSUME Sound(model), Upheld(model), Next PROVE Step
    OBVIOUS
  <2> QED
    BY RowsFrame DEF Next
<1> QED
  BY <1>1, SoundInvariant, UpheldInvariant, PTL DEF Spec, FullRowsPending

(* ScoreAccounted: a block locks once in a frame, in whichever of its      *)
(* moves, and scores at the level that the key left, before its rows raise *)
(* it (updateCheatLevel, addBlockToDebris).                                *)
THEOREM ScoresOnce == Spec => ScoreAccounted
<1> DEFINE Step == \A key \in Keys, template \in BlockPool :
                     Frame(key, template) /\ model'.state # "Intro" /\ ~teleporting
                     => model'.score - model.score = rowScore(key)
<1>1. Sound(model) /\ Upheld(model) /\ Sound(model)' => Step
  <2> SUFFICES ASSUME Sound(model), Upheld(model), Sound(model)',
                      NEW key \in Keys, NEW template \in BlockPool, Frame(key, template),
                      model'.state # "Intro", ~teleporting
               PROVE  model'.score - model.score = rowScore(key)
    OBVIOUS
  <2> QED
    BY ScoreFrame
<1> QED
  BY <1>1, SoundInvariant, UpheldInvariant, PTL DEF Spec, ScoreAccounted

(* KeepsRules: the game implements FallingBlocks, whatever the player      *)
(* presses and in whichever of its moves a block locks (tick, moveBlock,   *)
(* addBlockToDebris, dropRow).                                             *)
THEOREM ImplementsRules == Spec => KeepsRules
<1>1. Init => Rules!Init
  <2>1. /\ newGame.state = "Intro" /\ newGame.block = {} /\ newGame.rowsToDrop = {}
        /\ DOMAIN newGame.debris = {}
    BY EmptyBlock DEF newGame, EmptyBag, SetToBag
  <2>2. copies(newGame.debris) = [p \in Cells |-> 0]
    BY <2>1 DEF copies
  <2> QED
    BY <2>1, <2>2, RulesArea DEF Init, Rules!Init
<1>2. Sound(model) /\ Upheld(model) /\ Sound(model)' /\ [Next]_vars => [Rules!Next]_(Rules!vars)
  <2>1. ASSUME Sound(model), Upheld(model), Sound(model)', Next
        PROVE  Rules!Next \/ UNCHANGED Rules!vars
    BY <2>1, RulesFrame DEF Next
  <2>2. UNCHANGED vars => UNCHANGED Rules!vars
    BY DEF vars, Rules!vars, copies
  <2> QED
    BY <2>1, <2>2
<1> QED
  BY <1>1, <1>2, SoundInvariant, UpheldInvariant, PTL DEF Spec, KeepsRules, Rules!Spec
-----------------------------------------------------------------------------
(* The level that m is at was reached by the rows that m has cleared.      *)
Reached(m) == m.level > 1 => rowsRequiredForLevel(m.level - 1) <= m.rowsCleared

(* The inductive invariant behind FairLevel.                               *)
LevelsInv == Sound(model) /\ Upheld(model) /\ (~cheated => Reached(model))

(* Only the cheat raises the level without a row.                          *)
LEMMA KeyKeepsLevel ==
  ASSUME NEW m, Sound(m), Reached(m), NEW key, key # "ctrlUp" \/ m.state # "Playing"
  PROVE  Reached(processInput(m, key))
<1>1. DOMAIN m = DOMAIN newGame /\ m.state \in {"Intro", "Playing", "GameOver"}
  BY DEF Sound, IsModel
<1>2. CASE m.state = "Intro"
  <2> DEFINE r == [m EXCEPT !.state = "Playing"]
  <2>1. r.level = m.level /\ r.rowsCleared = m.rowsCleared
    BY <1>1, Fields
  <2>2. processInput(m, key) \in {m, r}
    BY <1>2 DEF processInput, updateStartGame
  <2> QED
    BY <2>1, <2>2 DEF Reached
<1>3. CASE m.state = "Playing"
  <2> DEFINE input == [move |-> moveInput(key), rotate |-> IF key = "up" THEN 1 ELSE 0,
                       teleportDown |-> key = "spacebar"]
             r     == [m EXCEPT !.input = input]
  <2>1. r.level = m.level /\ r.rowsCleared = m.rowsCleared
    BY <1>1, Fields
  <2>2. processInput(m, key) = r
    BY <1>3 DEF processInput, updatePlayerInput, updateCheatLevel
  <2> QED
    BY <2>1, <2>2 DEF Reached
<1>4. CASE m.state = "GameOver"
  <2>1. processInput(m, key) \in {m, newGame}
    BY <1>4 DEF processInput, updateNewGame
  <2>2. Reached(newGame)
    BY DEF Reached, newGame
  <2> QED
    BY <2>1, <2>2
<1> QED
  BY <1>1, <1>2, <1>3, <1>4

(* A lock raises the level by one at most, once the rows of its level are  *)
(* cleared.                                                                *)
LEMMA EffectReaches ==
  ASSUME NEW d, NEW m, Sound(d), Sound(m), Effect(d, m), Reached(d)
  PROVE  Reached(m)
<1>1. /\ d.level \in Nat \ {0} /\ d.rowsCleared \in Nat
      /\ m.level \in Nat \ {0} /\ m.rowsCleared \in Nat
  BY DEF Sound, IsModel
<1>2. CASE Same(d, m)
  BY <1>2 DEF Same, Reached
<1>3. CASE Locked(d, m)
  <2>1. /\ m.level = levelAfter(d.level, m.rowsCleared)
        /\ m.rowsCleared = d.rowsCleared + Cardinality(m.rowsToDrop)
    BY <1>3 DEF Locked, LockedAs
  <2>2. Cardinality(m.rowsToDrop) \in Nat
    <3>1. 0 \in Int /\ PlayHeight - 1 \in Int
      BY Sizes
    <3>2. IsFiniteSet(Rows) /\ m.rowsToDrop \in SUBSET Rows
      BY <3>1, FS_Interval DEF Rows, Sound, IsModel
    <3> QED
      BY <3>2, FS_Subset, FS_CardinalityType
  <2>3. CASE m.rowsCleared >= rowsRequiredForLevel(d.level)
    <3>1. m.level = d.level + 1
      BY <2>1, <2>3 DEF levelAfter
    <3>2. m.level - 1 = d.level
      BY <1>1, <3>1
    <3>3. rowsRequiredForLevel(d.level) \in Nat
      BY <1>1, NextLevel
    <3> QED
      BY <1>1, <2>3, <3>2, <3>3 DEF Reached
  <2>4. CASE ~(m.rowsCleared >= rowsRequiredForLevel(d.level))
    <3>1. m.level = d.level
      BY <2>1, <2>4 DEF levelAfter
    <3>2. CASE d.level > 1
      <4>1. d.level - 1 \in Nat \ {0}
        BY <1>1, <3>2
      <4>2. rowsRequiredForLevel(d.level - 1) \in Nat
        BY <4>1, NextLevel
      <4> QED
        BY <1>1, <2>1, <2>2, <3>1, <3>2, <4>2 DEF Reached
    <3> QED
      BY <3>1, <3>2 DEF Reached
  <2> QED
    BY <2>3, <2>4
<1> QED
  BY <1>2, <1>3 DEF Effect

LEMMA ReachedFrame ==
  ASSUME Sound(model), Upheld(model), Reached(model), Sound(model'),
         NEW key, NEW template \in BlockPool, Frame(key, template),
         key # "ctrlUp" \/ model.state # "Playing"
  PROVE  Reached(model')
<1> DEFINE m       == processInput(model, key)
           spawned == updateSpawnBlock(m, template)
           dropped == updateRowsToDrop(spawned)
<1>1. Sound(m) /\ Upheld(m) /\ tick(m, template) /\ Reached(m)
  BY SoundKey, UpheldKey, KeyKeepsLevel DEF Frame
<1> HIDE DEF m
<1>2. CASE m.state # "Playing"
  BY <1>1, <1>2 DEF tick
<1>3. CASE m.state = "Playing"
  <2>1. /\ Sound(spawned) /\ Upheld(spawned)
        /\ spawned.rowsCleared = m.rowsCleared /\ spawned.level = m.level
    BY <1>1, <1>3, SoundSpawn, UpheldSpawn, SpawnAdds
  <2>2. Sound(dropped) /\ Effect(dropped, model')
    BY <1>1, <1>3, EffectTick
  <2> HIDE DEF spawned
  <2>3. dropped.rowsCleared = m.rowsCleared /\ dropped.level = m.level
    BY <2>1, DropTakes
  <2> HIDE DEF dropped
  <2>4. Reached(dropped)
    BY <1>1, <2>3 DEF Reached
  <2> QED
    BY <2>2, <2>4, EffectReaches
<1> QED
  BY <1>2, <1>3
-----------------------------------------------------------------------------
(* FairLevel: whatever keys a player presses, as long as the cheat is not  *)
(* among them the level is the one that the rows cleared call for, however *)
(* many rows a lock clears and whatever games were lost before             *)
(* (addBlockToDebris, levelAfter, updateCheatLevel).                       *)
THEOREM LevelsAreFair == LevelsSpec => []FairLevel
<1>1. LevelsInit => LevelsInv
  <2>1. Reached(newGame)
    BY DEF Reached, newGame
  <2> QED
    BY <2>1, SoundNewGame, UpheldNewGame DEF LevelsInit, Init, LevelsInv
<1>2. LevelsInv /\ [LevelsNext]_<<model, cheated>> => LevelsInv'
  <2> SUFFICES ASSUME LevelsInv, [LevelsNext]_<<model, cheated>> PROVE LevelsInv'
    OBVIOUS
  <2>1. CASE LevelsNext
    <3>1. PICK key \in Keys, template \in BlockPool :
            /\ Frame(key, template)
            /\ cheated' = (cheated \/ (key = "ctrlUp" /\ model.state = "Playing"))
      BY <2>1 DEF LevelsNext
    <3>2. Sound(model) /\ Upheld(model) /\ (~cheated => Reached(model))
      BY DEF LevelsInv
    <3>3. Sound(model') /\ Upheld(model')
      BY <3>1, <3>2, SoundFrame, UpheldFrame
    <3>4. ASSUME ~cheated' PROVE Reached(model')
      <4>1. ~cheated /\ (key # "ctrlUp" \/ model.state # "Playing")
        BY <3>1, <3>4
      <4> QED
        BY <3>1, <3>2, <3>3, <4>1, ReachedFrame
    <3> QED
      BY <3>3, <3>4 DEF LevelsInv, Reached
  <2>2. CASE UNCHANGED <<model, cheated>>
    BY <2>2 DEF LevelsInv, Reached
  <2> QED
    BY <2>1, <2>2
<1>3. LevelsInv => FairLevel
  BY DEF LevelsInv, Reached, Upheld, FairLevel, LevelFollowsRows
<1> QED
  BY <1>1, <1>2, <1>3, PTL DEF LevelsSpec
=============================================================================
