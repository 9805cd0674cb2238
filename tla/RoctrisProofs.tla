--------------------------- MODULE RoctrisProofs ---------------------------
(***************************************************************************)
(* Theorems about the game for every size of the playable area, every pool *)
(* of blocks, every set of keys and every timer that the assumptions of    *)
(* Roctris allow.                                                          *)
(*                                                                         *)
(* A frame is a chain of systems, each a function of the model.  For each  *)
(* invariant there is one lemma per system, saying that the system         *)
(* preserves it, and the step of the invariant chains the lemmas in the    *)
(* order of the frame.  First come the types and the bounds, then the      *)
(* rules: the rows that wait are full, the level keeps up with them, the   *)
(* fast drop ends with its block, no move takes a block into the debris    *)
(* and no block ever rises.                                                *)
(***************************************************************************)
EXTENDS Roctris, GridProofs

(* A moving block lies in the playable area and is narrower than it        *)
(* whichever way it is turned: the clamp of a move looks at the left side  *)
(* first, so a block that touched both sides could be pushed out at the    *)
(* right.                                                                  *)
Placed(b) ==
  \/ b = {}
  \/ /\ b \in SUBSET Cells
     /\ \E u, v \in Vec : /\ IsBounds(b, u, v)
                          /\ v.x - u.x <= PlayWidth - 2
                          /\ v.y - u.y <= PlayWidth - 2

(* The inductive invariant behind TypeOK and InBounds.                     *)
Sound(m) == IsModel(m) /\ Placed(m.block) /\ DOMAIN m.debris \in SUBSET Cells

-----------------------------------------------------------------------------
LEMMA Sizes ==
  /\ PlayWidth \in Nat /\ PlayWidth >= 1 /\ PlayHeight \in Nat /\ PlayHeight >= 1
  /\ playMin = zero /\ playMin.x = 0 /\ playMin.y = 0
  /\ playMax.x = PlayWidth - 1 /\ playMax.y = PlayHeight - 1
BY PlayAssumption DEF playMin, playMax, zero, vec2

LEMMA CellsType ==
  /\ Cells \in SUBSET Vec
  /\ \A p \in Cells : /\ p.x \in Int /\ p.y \in Int
                      /\ 0 <= p.x /\ p.x <= PlayWidth - 1
                      /\ 0 <= p.y /\ p.y <= PlayHeight - 1
  /\ \A p \in Vec : 0 <= p.x /\ p.x <= PlayWidth - 1 /\ 0 <= p.y /\ p.y <= PlayHeight - 1
                    => p \in Cells
BY PlayAssumption DEF Cells, Columns, Rows, Vec

LEMMA MovesType ==
  /\ zero \in Vec /\ down \in Vec /\ left \in Vec /\ right \in Vec
  /\ down.x = 0 /\ down.y = 1 /\ left.x = -1 /\ left.y = 0
  /\ right.x = 1 /\ right.y = 0 /\ zero.x = 0 /\ zero.y = 0
BY DEF zero, down, left, right, vec2, Vec

(* The bounds of a block that has points, and of the block moved.          *)
LEMMA PlacedBounds ==
  ASSUME NEW b, Placed(b), b # {}
  PROVE  /\ b \in SUBSET Cells /\ b \in SUBSET Vec
         /\ min(b) \in Vec /\ max(b) \in Vec /\ IsBounds(b, min(b), max(b))
         /\ 0 <= min(b).x /\ min(b).x <= max(b).x /\ max(b).x <= PlayWidth - 1
         /\ 0 <= min(b).y /\ min(b).y <= max(b).y /\ max(b).y <= PlayHeight - 1
         /\ max(b).x - min(b).x <= PlayWidth - 2
         /\ max(b).y - min(b).y <= PlayWidth - 2
<1>1. b \in SUBSET Cells /\ b \in SUBSET Vec
  BY CellsType DEF Placed
<1>2. PICK u \in Vec, v \in Vec : /\ IsBounds(b, u, v)
                                  /\ v.x - u.x <= PlayWidth - 2
                                  /\ v.y - u.y <= PlayWidth - 2
  BY DEF Placed
<1>3. min(b) = u /\ max(b) = v
  BY <1>1, <1>2, BoundsUnique
<1>4. 0 <= u.x /\ u.x <= v.x /\ v.x <= PlayWidth - 1
  <2>1. PICK p \in b : p.x = u.x
    BY <1>2 DEF IsBounds
  <2>2. PICK q \in b : q.x = v.x
    BY <1>2 DEF IsBounds
  <2>3. u.x <= q.x
    BY <1>2 DEF IsBounds
  <2> QED
    BY <1>1, <2>1, <2>2, <2>3, CellsType
<1>5. 0 <= u.y /\ u.y <= v.y /\ v.y <= PlayHeight - 1
  <2>1. PICK p \in b : p.y = u.y
    BY <1>2 DEF IsBounds
  <2>2. PICK q \in b : q.y = v.y
    BY <1>2 DEF IsBounds
  <2>3. u.y <= q.y
    BY <1>2 DEF IsBounds
  <2> QED
    BY <1>1, <2>1, <2>2, <2>3, CellsType
<1> QED
  BY <1>1, <1>2, <1>3, <1>4, <1>5

LEMMA MovedBounds ==
  ASSUME NEW b, Placed(b), b # {}, NEW d \in Vec
  PROVE  /\ translate(b, d) \in SUBSET Vec /\ translate(b, d) # {}
         /\ min(translate(b, d)) \in Vec /\ max(translate(b, d)) \in Vec
         /\ IsBounds(translate(b, d), min(translate(b, d)), max(translate(b, d)))
         /\ min(translate(b, d)).x = min(b).x + d.x
         /\ min(translate(b, d)).y = min(b).y + d.y
         /\ max(translate(b, d)).x = max(b).x + d.x
         /\ max(translate(b, d)).y = max(b).y + d.y
<1>1. /\ b \in SUBSET Vec /\ min(b) \in Vec /\ max(b) \in Vec
      /\ IsBounds(b, min(b), max(b))
  BY PlacedBounds
<1>2. /\ translate(b, d) \in SUBSET Vec
      /\ IsBounds(translate(b, d), add(min(b), d), add(max(b), d))
  BY <1>1, TranslateBounds
<1>3. /\ add(min(b), d) \in Vec /\ add(max(b), d) \in Vec
      /\ add(min(b), d).x = min(b).x + d.x /\ add(min(b), d).y = min(b).y + d.y
      /\ add(max(b), d).x = max(b).x + d.x /\ add(max(b), d).y = max(b).y + d.y
  BY <1>1, VecType
<1>4. /\ min(translate(b, d)) = add(min(b), d)
      /\ max(translate(b, d)) = add(max(b), d)
  BY <1>2, <1>3, BoundsUnique
<1>5. translate(b, d) # {}
  BY <1>2 DEF IsBounds
<1> QED
  BY <1>2, <1>3, <1>4, <1>5

(* A block whose corners are in the playable area is in it.                *)
LEMMA PlacedByBounds ==
  ASSUME NEW b \in SUBSET Vec, NEW u \in Vec, NEW v \in Vec, IsBounds(b, u, v),
         0 <= u.x, v.x <= PlayWidth - 1, 0 <= u.y, v.y <= PlayHeight - 1,
         v.x - u.x <= PlayWidth - 2, v.y - u.y <= PlayWidth - 2
  PROVE  Placed(b)
<1>1. ASSUME NEW p \in b PROVE p \in Cells
  <2>1. /\ u.x <= p.x /\ p.x <= v.x /\ u.y <= p.y /\ p.y <= v.y
    BY DEF IsBounds
  <2>2. /\ u.x \in Int /\ u.y \in Int /\ v.x \in Int /\ v.y \in Int
        /\ p.x \in Int /\ p.y \in Int
    BY VecType
  <2>3. 0 <= p.x /\ p.x <= PlayWidth - 1 /\ 0 <= p.y /\ p.y <= PlayHeight - 1
    BY <2>1, <2>2, Sizes
  <2> QED
    BY <2>3, CellsType
<1> QED
  BY <1>1 DEF Placed
-----------------------------------------------------------------------------
(* The fields of the model.                                                *)
LEMMA Fields ==
  DOMAIN newGame = {"state", "input", "teleportDown", "moveTimer", "block", "debris",
                    "rowsToDrop", "rowsCleared", "level", "score"}
BY DEF newGame

(* A row outside of the playable area has no points.                       *)
LEMMA EmptyRow ==
  ASSUME NEW debris, DOMAIN debris \in SUBSET Cells, NEW y, y \notin Rows
  PROVE  countPointsInRow(debris, y) = 0
<1>1. \A p \in DOMAIN debris : p.y \in Rows
  BY DEF Cells
<1>2. {p \in DOMAIN debris : p.y = y} = {}
  BY <1>1
<1>3. UNION {{p} \X (1..debris[p]) : p \in {p \in DOMAIN debris : p.y = y}} = {}
  BY <1>2
<1> QED
  BY <1>3, FS_EmptySet DEF countPointsInRow

LEMMA LockedDebris ==
  ASSUME NEW m, IsModel(m)
  PROVE  LET debris == m.debris (+) SetToBag(m.block)
         IN  /\ DOMAIN debris = DOMAIN m.debris \cup m.block
             /\ debris \in [DOMAIN debris -> Nat \ {0}]
<1> DEFINE debris == m.debris (+) SetToBag(m.block)
<1>1. /\ DOMAIN SetToBag(m.block) = m.block
      /\ \A p \in m.block : SetToBag(m.block)[p] = 1
  BY DEF SetToBag
<1>2. m.debris \in [DOMAIN m.debris -> Nat \ {0}]
  BY DEF IsModel
<1>3. debris = [p \in DOMAIN m.debris \cup m.block |->
                  (IF p \in DOMAIN m.debris THEN m.debris[p] ELSE 0)
                  + (IF p \in m.block THEN SetToBag(m.block)[p] ELSE 0)]
  BY <1>1, Zenon DEF (+)
<1>4. \A p \in DOMAIN m.debris \cup m.block : debris[p] \in Nat \ {0}
  BY <1>1, <1>2, <1>3
<1> QED
  BY <1>3, <1>4

(* The rows that a block reaches.                                          *)
LEMMA RowsOfPlaced ==
  ASSUME NEW b, Placed(b), b # {}
  PROVE  /\ rowsOf(b) \in SUBSET Nat
         /\ IsFiniteSet(rowsOf(b))
         /\ Cardinality(rowsOf(b)) = max(b).y - min(b).y + 1 + rangeEnd
         /\ rangeEnd \in {0, 1}
<1>1. rangeEnd \in {0, 1}
  BY RangeAssumption DEF rangeEnd
<1>2. /\ min(b).y \in Int /\ max(b).y \in Int /\ 0 <= min(b).y /\ min(b).y <= max(b).y
  BY PlacedBounds, VecType
<1>3. /\ IsFiniteSet(min(b).y .. max(b).y + rangeEnd)
      /\ Cardinality(min(b).y .. max(b).y + rangeEnd)
           = ((max(b).y + rangeEnd) - min(b).y) + 1
  <2> DEFINE lo == min(b).y
             hi == max(b).y + rangeEnd
  <2>1. lo \in Int /\ hi \in Int /\ ~(lo > hi)
    BY <1>1, <1>2
  <2> HIDE DEF lo, hi
  <2>2. IsFiniteSet(lo .. hi) /\ Cardinality(lo .. hi) = hi - lo + 1
    BY <2>1, FS_Interval
  <2> QED
    BY <2>2, Zenon DEF lo, hi
<1>4. min(b).y .. max(b).y + rangeEnd \in SUBSET Nat
  BY <1>1, <1>2
<1> QED
  BY <1>1, <1>2, <1>3, <1>4 DEF rowsOf

LEMMA SoundLock ==
  ASSUME NEW m, Sound(m), m.block # {}
  PROVE  Sound(addBlockToDebris(m))
<1> DEFINE debris     == m.debris (+) SetToBag(m.block)
           rowsToDrop == {y \in rowsOf(m.block) : countPointsInRow(debris, y) = PlayWidth}
           dropCount  == Cardinality(rowsToDrop)
           r          == addBlockToDebris(m)
<1>1. IsModel(m) /\ Placed(m.block) /\ DOMAIN m.debris \in SUBSET Cells
  BY DEF Sound
<1>2. DOMAIN debris = DOMAIN m.debris \cup m.block /\ debris \in [DOMAIN debris -> Nat \ {0}]
  BY <1>1, LockedDebris
<1>3. DOMAIN debris \in SUBSET Cells
  <2> HIDE DEF debris
  <2> QED
    BY <1>1, <1>2, PlacedBounds
<1>4. rowsToDrop \in SUBSET Rows
  <2> SUFFICES ASSUME NEW y \in rowsToDrop, y \notin Rows PROVE FALSE
    OBVIOUS
  <2>1. countPointsInRow(debris, y) = PlayWidth
    OBVIOUS
  <2>2. countPointsInRow(debris, y) = 0
    BY <1>3, EmptyRow
  <2> QED
    BY <2>1, <2>2, Sizes
<1>5. dropCount \in Nat
  <2>1. rowsToDrop \subseteq rowsOf(m.block)
    OBVIOUS
  <2> HIDE DEF rowsToDrop
  <2> QED
    BY <1>1, <2>1, RowsOfPlaced, FS_Subset, FS_CardinalityType
<1> HIDE DEF debris, rowsToDrop, dropCount
<1>6. scoreAfter(m, dropCount) \in Nat
  <2>1. m.level \in Nat /\ m.score \in Nat
    BY <1>1 DEF IsModel
  <2>2. scoreForRowsCleared(m.level, dropCount) \in Nat
    BY <2>1 DEF scoreForRowsCleared
  <2> QED
    BY <2>1, <2>2 DEF scoreAfter
<1>7. m.rowsCleared + dropCount \in Nat
  BY <1>1, <1>5 DEF IsModel
<1>8. levelAfter(m.level, m.rowsCleared + dropCount) \in Nat \ {0}
  BY <1>1 DEF IsModel, levelAfter
<1>9. r = [m EXCEPT !.debris = debris, !.block = empty, !.teleportDown = FALSE,
                    !.rowsToDrop = rowsToDrop, !.score = scoreAfter(m, dropCount),
                    !.rowsCleared = m.rowsCleared + dropCount,
                    !.level = levelAfter(m.level, m.rowsCleared + dropCount)]
  BY DEF addBlockToDebris, debris, rowsToDrop, dropCount
<1>10. /\ DOMAIN r = DOMAIN newGame
       /\ r.debris = debris /\ r.block = {} /\ r.teleportDown = FALSE
       /\ r.rowsToDrop = rowsToDrop /\ r.score = scoreAfter(m, dropCount)
       /\ r.rowsCleared = m.rowsCleared + dropCount
       /\ r.level = levelAfter(m.level, m.rowsCleared + dropCount)
       /\ r.state = m.state /\ r.input = m.input /\ r.moveTimer = m.moveTimer
  <2>1. DOMAIN m = DOMAIN newGame
    BY <1>1 DEF IsModel
  <2> HIDE DEF r
  <2> QED
    BY <1>9, <2>1, Fields, EmptyBlock
<1> HIDE DEF r
<1>11. IsModel(r)
  BY <1>1, <1>2, <1>3, <1>4, <1>6, <1>7, <1>8, <1>10, CellsType DEF IsModel
<1> QED
  BY <1>3, <1>10, <1>11 DEF Sound, Placed, r

(* A move is one step to the left, to the right or down, or none.          *)
Moves == {zero, down, left, right}

(* The clamp keeps the sides: the only way out of the playable area that   *)
(* is left to a move is down.                                              *)
LEMMA ClampedMove ==
  ASSUME NEW b, Placed(b), b # {}, NEW move \in Moves
  PROVE  /\ clampedMove(b, move) \in Vec
         /\ clampedMove(b, move).y = move.y /\ move.y \in {0, 1}
         /\ 0 <= min(b).x + clampedMove(b, move).x
         /\ max(b).x + clampedMove(b, move).x <= PlayWidth - 1
<1>1. /\ min(b).x \in Int /\ max(b).x \in Int
      /\ 0 <= min(b).x /\ min(b).x <= max(b).x /\ max(b).x <= PlayWidth - 1
      /\ max(b).x - min(b).x <= PlayWidth - 2
  BY PlacedBounds, VecType
<1>2. move.x \in {-1, 0, 1} /\ move.y \in {0, 1}
  BY MovesType DEF Moves
<1> DEFINE x == CASE min(b).x <= playMin.x /\ move.x < 0 -> 0
                  [] min(b).x >  playMin.x /\ max(b).x >= playMax.x /\ move.x > 0 -> 0
                  [] OTHER -> move.x
<1>3. x \in Int /\ 0 <= min(b).x + x /\ max(b).x + x <= PlayWidth - 1
  <2>1. CASE min(b).x <= 0 /\ move.x < 0
    BY <1>1, <2>1, Sizes
  <2>2. CASE min(b).x > 0 /\ max(b).x >= PlayWidth - 1 /\ move.x > 0
    BY <1>1, <2>2, Sizes
  <2>3. CASE /\ ~(min(b).x <= 0 /\ move.x < 0)
             /\ ~(min(b).x > 0 /\ max(b).x >= PlayWidth - 1 /\ move.x > 0)
    <3>1. x = move.x
      BY <2>3, Sizes
    <3> HIDE DEF x
    <3> QED
      BY <1>1, <1>2, <2>3, <3>1, Sizes
  <2> QED
    BY <2>1, <2>2, <2>3
<1> HIDE DEF x
<1>4. clampedMove(b, move) = vec2(x, move.y)
  BY DEF clampedMove, x
<1> QED
  BY <1>2, <1>3, <1>4, VecType

LEMMA SoundNewBlock ==
  ASSUME NEW m, Sound(m), NEW b, Placed(b)
  PROVE  /\ Sound([m EXCEPT !.block = b])
         /\ [m EXCEPT !.block = b].block = b
<1> DEFINE r == [m EXCEPT !.block = b]
<1>1. IsModel(m) /\ DOMAIN m = DOMAIN newGame
  BY DEF Sound, IsModel
<1>2. /\ DOMAIN r = DOMAIN newGame /\ r.block = b
      /\ r.state = m.state /\ r.input = m.input /\ r.teleportDown = m.teleportDown
      /\ r.moveTimer = m.moveTimer /\ r.debris = m.debris
      /\ r.rowsToDrop = m.rowsToDrop /\ r.rowsCleared = m.rowsCleared
      /\ r.level = m.level /\ r.score = m.score
  BY <1>1, Fields
<1>3. b \in SUBSET Vec
  BY CellsType DEF Placed
<1> HIDE DEF r
<1>4. IsModel(r)
  BY <1>1, <1>2, <1>3 DEF IsModel
<1> QED
  BY <1>2, <1>4 DEF Sound, r

LEMMA SoundMove ==
  ASSUME NEW m, Sound(m), NEW move \in Moves
  PROVE  Sound(moveBlock(m, move))
<1> DEFINE block == translate(m.block, clampedMove(m.block, move))
<1>1. Placed(m.block)
  BY DEF Sound
<1>2. CASE m.block = {}
  <2>1. block = {} /\ max(block).y = 0
    BY <1>2, EmptyBlock, MovesType
  <2>2. ~blockIntersectsDebris(block, m.debris) /\ ~(max(block).y > playMax.y)
    BY <2>1, Sizes DEF blockIntersectsDebris
  <2>3. moveBlock(m, move) = [m EXCEPT !.block = block]
    BY <2>2 DEF moveBlock
  <2>4. Placed(block)
    BY <2>1 DEF Placed
  <2> QED
    BY <2>3, <2>4, SoundNewBlock
<1>3. CASE m.block # {}
  <2> DEFINE d == clampedMove(m.block, move)
  <2>1. /\ d \in Vec /\ d.y = move.y /\ move.y \in {0, 1}
        /\ 0 <= min(m.block).x + d.x /\ max(m.block).x + d.x <= PlayWidth - 1
    BY <1>1, <1>3, ClampedMove
  <2>2. /\ block \in SUBSET Vec /\ min(block) \in Vec /\ max(block) \in Vec
        /\ IsBounds(block, min(block), max(block))
        /\ min(block).x = min(m.block).x + d.x /\ min(block).y = min(m.block).y + d.y
        /\ max(block).x = max(m.block).x + d.x /\ max(block).y = max(m.block).y + d.y
    <3> HIDE DEF d
    <3> QED
      BY <1>1, <1>3, <2>1, MovedBounds DEF d
  <2>3. CASE max(block).y <= playMax.y
    <3> HIDE DEF d, block
    <3>1. /\ min(m.block).x \in Int /\ max(m.block).x \in Int
          /\ min(m.block).y \in Int /\ max(m.block).y \in Int
          /\ 0 <= min(m.block).y
          /\ max(m.block).x - min(m.block).x <= PlayWidth - 2
          /\ max(m.block).y - min(m.block).y <= PlayWidth - 2
          /\ d.x \in Int
      BY <1>1, <1>3, <2>1, PlacedBounds, VecType
    <3>2. /\ 0 <= min(block).x /\ max(block).x <= PlayWidth - 1
          /\ 0 <= min(block).y /\ max(block).y <= PlayHeight - 1
          /\ max(block).x - min(block).x <= PlayWidth - 2
          /\ max(block).y - min(block).y <= PlayWidth - 2
      BY <2>1, <2>2, <2>3, <3>1, Sizes
    <3>3. Placed(block)
      BY <2>2, <3>2, PlacedByBounds
    <3>4. Sound([m EXCEPT !.block = block])
      BY <3>3, SoundNewBlock
    <3>5. moveBlock(m, move) \in {addBlockToDebris(m), m, [m EXCEPT !.block = block]}
      BY DEF moveBlock, block
    <3> QED
      BY <1>3, <3>4, <3>5, SoundLock
  <2>4. CASE ~(max(block).y <= playMax.y)
    <3>1. max(block).y > playMax.y
      <4> HIDE DEF block
      <4> QED
        BY <2>2, <2>4, Sizes, VecType
    <3>2. moveBlock(m, move) \in {addBlockToDebris(m), m}
      BY <3>1 DEF moveBlock
    <3> QED
      BY <1>3, <3>2, SoundLock
  <2> QED
    BY <2>3, <2>4
<1> QED
  BY <1>2, <1>3

(* A block of the pool appears inside, in the middle of the top.           *)
LEMMA Spawned ==
  ASSUME NEW t \in BlockPool
  PROVE  LET x == playMin.x + PlayWidth \div 2 - (size(t).x + 1) \div 2
         IN  Placed(translate(t, vec2(x, playMin.y))) /\ translate(t, vec2(x, playMin.y)) # {}
<1>1. /\ t \in SUBSET [x : 0 .. PlayWidth - 2, y : 0 .. PlayWidth - 2]
      /\ t # {} /\ min(t) = zero /\ size(t).y <= PlayHeight
  BY BlockPoolAssumption
<1>2. t \in SUBSET Vec
  BY <1>1, Sizes DEF Vec
<1>3. \A p \in t : 0 <= p.x /\ p.x <= PlayWidth - 2 /\ 0 <= p.y /\ p.y <= PlayWidth - 2
  BY <1>1, Sizes
<1>4. PICK u \in Vec, v \in Vec : IsBounds(t, u, v)
  <2>1. 0 \in Int /\ PlayWidth - 2 \in Int
    BY Sizes
  <2> QED
    BY <1>1, <1>2, <1>3, <2>1, BoundsExist
<1>5. min(t) = u /\ max(t) = v /\ u = zero
  BY <1>1, <1>2, <1>4, BoundsUnique
<1>6. /\ u.x = 0 /\ u.y = 0 /\ v.x \in Int /\ v.y \in Int
      /\ 0 <= v.x /\ v.x <= PlayWidth - 2 /\ 0 <= v.y /\ v.y <= PlayWidth - 2
  <2>1. PICK p \in t : p.x = v.x
    BY <1>4 DEF IsBounds
  <2>2. PICK q \in t : q.y = v.y
    BY <1>4 DEF IsBounds
  <2> QED
    BY <1>3, <1>5, <2>1, <2>2, VecType
<1>7. size(t).x = v.x + 1 /\ size(t).y = v.y + 1
  <2>1. subtract(v, u) \in Vec /\ subtract(v, u).x = v.x /\ subtract(v, u).y = v.y
    BY <1>6, VecType
  <2>2. vec2(1, 1) \in Vec /\ vec2(1, 1).x = 1 /\ vec2(1, 1).y = 1
    BY VecType
  <2> QED
    BY <1>5, <2>1, <2>2, VecType DEF size
<1> DEFINE x == playMin.x + PlayWidth \div 2 - (size(t).x + 1) \div 2
           d == vec2(x, playMin.y)
<1>8. x \in Int /\ 0 <= x /\ v.x + x <= PlayWidth - 1
  <2>1. /\ PlayWidth \div 2 \in Int
        /\ 2 * (PlayWidth \div 2) <= PlayWidth /\ PlayWidth <= 2 * (PlayWidth \div 2) + 1
    BY Sizes
  <2>2. /\ (v.x + 2) \div 2 \in Int
        /\ 2 * ((v.x + 2) \div 2) <= v.x + 2 /\ v.x + 2 <= 2 * ((v.x + 2) \div 2) + 1
    BY <1>6
  <2>3. x = PlayWidth \div 2 - (v.x + 2) \div 2
    <3>1. size(t).x + 1 = v.x + 2
      BY <1>6, <1>7
    <3> QED
      BY <2>1, <2>2, <3>1, Sizes
  <2> HIDE DEF x
  <2> QED
    BY <1>6, <2>1, <2>2, <2>3, Sizes
<1>9. d \in Vec /\ d.x = x /\ d.y = 0
  <2> HIDE DEF x
  <2> QED
    BY <1>8, Sizes, VecType
<1> HIDE DEF x, d
<1>10. /\ translate(t, d) \in SUBSET Vec
       /\ IsBounds(translate(t, d), add(u, d), add(v, d))
       /\ add(u, d) \in Vec /\ add(v, d) \in Vec
       /\ add(u, d).x = x /\ add(u, d).y = 0
       /\ add(v, d).x = v.x + x /\ add(v, d).y = v.y
  <2>1. /\ add(u, d) \in Vec /\ add(v, d) \in Vec
        /\ add(u, d).x = u.x + d.x /\ add(u, d).y = u.y + d.y
        /\ add(v, d).x = v.x + d.x /\ add(v, d).y = v.y + d.y
    BY <1>9, VecType
  <2>2. /\ translate(t, d) \in SUBSET Vec
        /\ IsBounds(translate(t, d), add(u, d), add(v, d))
    BY <1>2, <1>4, <1>9, TranslateBounds
  <2> QED
    BY <1>6, <1>8, <1>9, <2>1, <2>2
<1>11. /\ v.y <= PlayHeight - 1
       /\ (v.x + x) - x <= PlayWidth - 2 /\ v.y - 0 <= PlayWidth - 2
  BY <1>1, <1>6, <1>7, <1>8, Sizes
<1>12. Placed(translate(t, d))
  BY <1>8, <1>10, <1>11, PlacedByBounds
<1>13. translate(t, d) # {}
  BY <1>10 DEF IsBounds
<1> QED
  BY <1>12, <1>13 DEF x, d

LEMMA SoundSpawn ==
  ASSUME NEW m, Sound(m), NEW t \in BlockPool
  PROVE  Sound(updateSpawnBlock(m, t))
<1> DEFINE block == translate(t, vec2(playMin.x + PlayWidth \div 2 - (size(t).x + 1) \div 2,
                                      playMin.y))
           state == IF blockIntersectsDebris(block, m.debris) THEN "GameOver" ELSE m.state
           r     == [m EXCEPT !.block = block, !.state = state]
<1>1. updateSpawnBlock(m, t) \in {m, r}
  BY DEF updateSpawnBlock
<1>2. Placed(block)
  BY Spawned
<1>3. state \in {"Intro", "Playing", "GameOver"}
  BY DEF Sound, IsModel
<1> HIDE DEF block, state
<1>4. IsModel(m) /\ DOMAIN m = DOMAIN newGame
  BY DEF Sound, IsModel
<1>5. /\ DOMAIN r = DOMAIN newGame /\ r.block = block /\ r.state = state
      /\ r.input = m.input /\ r.teleportDown = m.teleportDown
      /\ r.moveTimer = m.moveTimer /\ r.debris = m.debris
      /\ r.rowsToDrop = m.rowsToDrop /\ r.rowsCleared = m.rowsCleared
      /\ r.level = m.level /\ r.score = m.score
  BY <1>4, Fields
<1>6. block \in SUBSET Vec
  BY <1>2, CellsType DEF Placed
<1> HIDE DEF r
<1>7. IsModel(r)
  BY <1>3, <1>4, <1>5, <1>6 DEF IsModel
<1>8. Sound(r)
  BY <1>2, <1>5, <1>7 DEF Sound
<1> QED
  BY <1>1, <1>8

(* The first of the rows that wait.                                        *)
LEMMA FirstRow ==
  ASSUME NEW m, IsModel(m), m.rowsToDrop # {}
  PROVE  /\ Min(m.rowsToDrop) \in m.rowsToDrop /\ Min(m.rowsToDrop) \in Rows
         /\ \A y \in m.rowsToDrop : Min(m.rowsToDrop) <= y
<1>1. m.rowsToDrop \in SUBSET Nat /\ m.rowsToDrop \in SUBSET Int /\ m.rowsToDrop \in SUBSET Rows
  BY DEF IsModel, Rows
<1>2. PICK r \in m.rowsToDrop : \A y \in m.rowsToDrop : r <= y
  BY <1>1, NatMinExists
<1>3. Min(m.rowsToDrop) = r
  BY <1>1, <1>2, MinIs
<1> QED
  BY <1>1, <1>2, <1>3

(* Where the points of the debris are when a row is dropped.               *)
LEMMA DroppedDebris ==
  ASSUME NEW debris, DOMAIN debris \in SUBSET Cells, debris \in [DOMAIN debris -> Nat \ {0}],
         NEW r \in Rows
  PROVE  /\ DOMAIN dropRow(debris, r) \in SUBSET Cells
         /\ dropRow(debris, r) \in [DOMAIN dropRow(debris, r) -> Nat \ {0}]
<1> DEFINE fallen(p) == IF p.y < r THEN add(p, down) ELSE p
           origin(q) == IF q.y <= r THEN subtract(q, down) ELSE q
           kept      == {p \in DOMAIN debris : p.y # r}
<1>1. dropRow(debris, r) = [q \in {fallen(p) : p \in kept} |-> debris[origin(q)]]
  BY DEF dropRow
<1>2. \A p \in kept : /\ p \in Cells /\ p \in Vec /\ p.x \in Int /\ p.y \in Int
                      /\ 0 <= p.x /\ p.x <= PlayWidth - 1
                      /\ 0 <= p.y /\ p.y <= PlayHeight - 1 /\ p.y # r
  BY CellsType
<1>3. r \in Int /\ r <= PlayHeight - 1
  BY Sizes DEF Rows
<1>4. ASSUME NEW p \in kept
      PROVE  fallen(p) \in Cells /\ origin(fallen(p)) = p
  <2>1. CASE p.y < r
    <3>1. /\ fallen(p) \in Vec /\ fallen(p).x = p.x /\ fallen(p).y = p.y + 1
      BY <1>2, <2>1, VecType, MovesType
    <3>2. fallen(p).y <= r
      BY <1>2, <1>3, <2>1, <3>1
    <3>3. fallen(p) \in Cells
      BY <1>2, <1>3, <3>1, <3>2, CellsType, Sizes
    <3>4. origin(fallen(p)) = subtract(fallen(p), down)
      BY <3>2
    <3>5. /\ subtract(fallen(p), down) \in Vec
          /\ subtract(fallen(p), down).x = p.x /\ subtract(fallen(p), down).y = p.y
      <4> HIDE DEF fallen
      <4> QED
        BY <1>2, <3>1, VecType, MovesType
    <3> QED
      BY <1>2, <3>3, <3>4, <3>5, VecEqual
  <2>2. CASE ~(p.y < r)
    <3>1. fallen(p) = p /\ ~(p.y <= r)
      BY <1>2, <1>3, <2>2
    <3> QED
      BY <1>2, <3>1
  <2> QED
    BY <2>1, <2>2
<1>5. \A p \in kept : debris[p] \in Nat \ {0}
  OBVIOUS
<1>6. \A q \in {fallen(p) : p \in kept} : q \in Cells /\ debris[origin(q)] \in Nat \ {0}
  <2> HIDE DEF fallen, origin, kept
  <2> QED
    BY <1>4, <1>5
<1> HIDE DEF fallen, origin, kept
<1> QED
  BY <1>1, <1>6

LEMMA SoundDrop ==
  ASSUME NEW m, Sound(m)
  PROVE  Sound(updateRowsToDrop(m))
<1>1. CASE m.rowsToDrop = {}
  BY <1>1 DEF updateRowsToDrop
<1>2. CASE m.rowsToDrop # {}
  <2> DEFINE y == Min(m.rowsToDrop)
             debris == dropRow(m.debris, y)
             r == [m EXCEPT !.debris = debris, !.rowsToDrop = m.rowsToDrop \ {y}]
  <2>1. IsModel(m) /\ DOMAIN m = DOMAIN newGame
    BY DEF Sound, IsModel
  <2>2. y \in Rows
    BY <1>2, <2>1, FirstRow
  <2>3. DOMAIN debris \in SUBSET Cells /\ debris \in [DOMAIN debris -> Nat \ {0}]
    <3>1. /\ DOMAIN m.debris \in SUBSET Cells
          /\ m.debris \in [DOMAIN m.debris -> Nat \ {0}]
      BY <2>1 DEF Sound, IsModel
    <3> HIDE DEF y
    <3> QED
      BY <2>2, <3>1, DroppedDebris
  <2>4. updateRowsToDrop(m) = r
    BY <1>2 DEF updateRowsToDrop
  <2> HIDE DEF y, debris
  <2>5. /\ DOMAIN r = DOMAIN newGame /\ r.block = m.block /\ r.state = m.state
        /\ r.input = m.input /\ r.teleportDown = m.teleportDown
        /\ r.moveTimer = m.moveTimer /\ r.debris = debris
        /\ r.rowsToDrop = m.rowsToDrop \ {y} /\ r.rowsCleared = m.rowsCleared
        /\ r.level = m.level /\ r.score = m.score
    BY <2>1, Fields
  <2> HIDE DEF r
  <2>6. IsModel(r)
    BY <2>1, <2>3, <2>5, CellsType DEF IsModel
  <2> QED
    BY <2>3, <2>4, <2>5, <2>6 DEF Sound
<1> QED
  BY <1>1, <1>2

LEMMA SoundTeleport ==
  ASSUME NEW m, Sound(m)
  PROVE  Sound(updateTeleportDown(m))
<1> DEFINE n     == [m EXCEPT !.teleportDown = m.teleportDown \/ m.input.teleportDown]
           score == n.score + scoreForEachRowTeleported
           moved == moveBlock(n, down)
           r     == [moved EXCEPT !.score = score]
<1>1. IsModel(m) /\ DOMAIN m = DOMAIN newGame
  BY DEF Sound, IsModel
<1>2. /\ DOMAIN n = DOMAIN newGame /\ n.block = m.block /\ n.state = m.state
      /\ n.input = m.input /\ n.teleportDown = (m.teleportDown \/ m.input.teleportDown)
      /\ n.moveTimer = m.moveTimer /\ n.debris = m.debris
      /\ n.rowsToDrop = m.rowsToDrop /\ n.rowsCleared = m.rowsCleared
      /\ n.level = m.level /\ n.score = m.score
  BY <1>1, Fields
<1>3. Sound(n)
  <2> HIDE DEF n
  <2>1. (m.teleportDown \/ m.input.teleportDown) \in BOOLEAN
    OBVIOUS
  <2>2. IsModel(n)
    BY <1>1, <1>2, <2>1 DEF IsModel
  <2> QED
    BY <1>2, <2>2 DEF Sound
<1>4. score \in Nat
  BY <1>1, <1>2 DEF IsModel, scoreForEachRowTeleported
<1> HIDE DEF n, score
<1>5. Sound(moved)
  BY <1>3, SoundMove DEF Moves
<1> HIDE DEF moved
<1>6. Sound(r)
  <2>1. IsModel(moved) /\ DOMAIN moved = DOMAIN newGame
    BY <1>5 DEF Sound, IsModel
  <2>2. /\ DOMAIN r = DOMAIN newGame /\ r.block = moved.block /\ r.state = moved.state
        /\ r.input = moved.input /\ r.teleportDown = moved.teleportDown
        /\ r.moveTimer = moved.moveTimer /\ r.debris = moved.debris
        /\ r.rowsToDrop = moved.rowsToDrop /\ r.rowsCleared = moved.rowsCleared
        /\ r.level = moved.level /\ r.score = score
    BY <2>1, Fields
  <2> HIDE DEF r
  <2>3. IsModel(r)
    BY <1>4, <2>1, <2>2 DEF IsModel
  <2> QED
    BY <1>5, <2>2, <2>3 DEF Sound
<1>7. updateTeleportDown(m) \in {r, n}
  BY DEF updateTeleportDown, r, moved, score, n
<1> QED
  BY <1>3, <1>6, <1>7

(* A turn either keeps the block or is checked against the bounds.         *)
LEMMA SafeRotatePlaced ==
  ASSUME NEW m, Sound(m),
         NEW turned \in {rotateClockwise(m.block), rotateCounterClockwise(m.block)}
  PROVE  Placed(safeRotateBlock(m, turned))
<1> DEFINE clamped == clampBlockToPlayBounds(turned)
<1>1. Placed(m.block)
  BY DEF Sound
<1>2. \/ safeRotateBlock(m, turned) = m.block
      \/ safeRotateBlock(m, turned) = clamped /\ ~blockIntersectsPlayBounds(clamped)
  BY DEF safeRotateBlock, blockIntersectsWorld
<1>3. CASE m.block = {}
  <2>1. turned = {}
    BY <1>3, EmptyBlock DEF rotateClockwise, rotateCounterClockwise, rotate
  <2>2. clamped = {}
    BY <2>1, EmptyBlock DEF clampBlockToPlayBounds
  <2> QED
    BY <1>1, <1>2, <2>2 DEF Placed
<1>4. CASE m.block # {} /\ ~blockIntersectsPlayBounds(clamped)
  <2> DEFINE b == m.block
  <2>1. /\ b \in SUBSET Vec /\ min(b) \in Vec /\ max(b) \in Vec
        /\ IsBounds(b, min(b), max(b))
        /\ max(b).x - min(b).x <= PlayWidth - 2 /\ max(b).y - min(b).y <= PlayWidth - 2
    BY <1>1, <1>4, PlacedBounds
  <2>2. /\ turned \in SUBSET Vec
        /\ \E tu, tv \in Vec : /\ IsBounds(turned, tu, tv)
                               /\ tv.x - tu.x = max(b).y - min(b).y
                               /\ tv.y - tu.y = max(b).x - min(b).x
    BY <2>1, TurnKeepsCenter
  <2>3. PICK tu \in Vec, tv \in Vec : /\ IsBounds(turned, tu, tv)
                                      /\ tv.x - tu.x <= PlayWidth - 2
                                      /\ tv.y - tu.y <= PlayWidth - 2
    BY <2>1, <2>2
  <2>4. min(turned) = tu /\ max(turned) = tv
    BY <2>2, <2>3, BoundsUnique
  <2>5. PICK d \in Vec : clamped = translate(turned, d)
    <3> DEFINE x == (IF tu.x < playMin.x THEN playMin.x - tu.x ELSE 0)
                    + (IF tv.x > playMax.x THEN playMax.x - tv.x ELSE 0)
               y == IF tu.y < playMin.y THEN playMin.y - tu.y ELSE 0
    <3>1. x \in Int /\ y \in Int
      BY Sizes, VecType
    <3>2. clamped = translate(turned, vec2(x, y))
      BY <2>4 DEF clampBlockToPlayBounds
    <3> HIDE DEF x, y
    <3>3. vec2(x, y) \in Vec
      BY <3>1, VecType
    <3> QED
      BY <3>2, <3>3
  <2> DEFINE cu == add(tu, d)
             cv == add(tv, d)
  <2>6. /\ clamped \in SUBSET Vec /\ IsBounds(clamped, cu, cv)
    BY <2>2, <2>3, <2>5, TranslateBounds
  <2>7. /\ cu \in Vec /\ cv \in Vec
        /\ cu.x = tu.x + d.x /\ cu.y = tu.y + d.y /\ cv.x = tv.x + d.x /\ cv.y = tv.y + d.y
    BY VecType
  <2> HIDE DEF cu, cv, clamped
  <2>8. min(clamped) = cu /\ max(clamped) = cv
    BY <2>6, <2>7, BoundsUnique
  <2>9. 0 <= cu.x /\ 0 <= cu.y /\ cv.x <= PlayWidth - 1 /\ cv.y <= PlayHeight - 1
    <3>1. ~(cu.x < 0) /\ ~(cu.y < 0) /\ ~(cv.x > playMax.x) /\ ~(cv.y > playMax.y)
      BY <1>4, <2>8 DEF blockIntersectsPlayBounds
    <3> QED
      BY <2>7, <3>1, Sizes, VecType
  <2>10. cv.x - cu.x <= PlayWidth - 2 /\ cv.y - cu.y <= PlayWidth - 2
    <3>1. /\ tu.x \in Int /\ tu.y \in Int /\ tv.x \in Int /\ tv.y \in Int
          /\ d.x \in Int /\ d.y \in Int
      BY VecType
    <3> QED
      BY <2>3, <2>7, <3>1, Sizes
  <2>11. Placed(clamped)
    BY <2>6, <2>7, <2>9, <2>10, PlacedByBounds
  <2> QED
    BY <1>1, <1>2, <2>11
<1> QED
  BY <1>1, <1>2, <1>3, <1>4

LEMMA SoundRotate ==
  ASSUME NEW m, Sound(m)
  PROVE  Sound(updateRotateBlock(m))
<1>1. PICK b : Placed(b) /\ updateRotateBlock(m) = [m EXCEPT !.block = b]
  <2>1. DOMAIN m = DOMAIN newGame /\ Placed(m.block)
    BY DEF Sound, IsModel
  <2> DEFINE b == CASE m.input.rotate = 1  -> safeRotateBlock(m, rotateClockwise(m.block))
                    [] m.input.rotate = -1 -> safeRotateBlock(m, rotateCounterClockwise(m.block))
                    [] OTHER               -> m.block
  <2>2. updateRotateBlock(m) = [m EXCEPT !.block = b]
    BY <2>1, Fields DEF updateRotateBlock
  <2>3. Placed(b)
    <3>1. /\ Placed(safeRotateBlock(m, rotateClockwise(m.block)))
          /\ Placed(safeRotateBlock(m, rotateCounterClockwise(m.block)))
      BY SafeRotatePlaced
    <3>2. \/ b = safeRotateBlock(m, rotateClockwise(m.block))
          \/ b = safeRotateBlock(m, rotateCounterClockwise(m.block))
          \/ b = m.block
      OBVIOUS
    <3> HIDE DEF b
    <3> QED
      BY <2>1, <3>1, <3>2
  <2> HIDE DEF b
  <2> QED
    BY <2>2, <2>3
<1> QED
  BY <1>1, SoundNewBlock

LEMMA SoundPlayerMove ==
  ASSUME NEW m, Sound(m)
  PROVE  Sound(updatePlayerMove(m))
<1>1. m.input.move \in Moves
  BY DEF Sound, IsModel, Moves
<1> QED
  BY <1>1, SoundMove DEF updatePlayerMove

(* A frame adds at most the duration of the timer to the time elapsed.     *)
LEMMA FrameTime ==
  ASSUME NEW level \in Nat \ {0}
  PROVE  /\ TickDuration * moveTimerRateForLevel(level) \in Nat
         /\ TickDuration * moveTimerRateForLevel(level) <= TimerDuration
<1> DEFINE rate == moveTimerRateForLevel(level)
<1>1. /\ MaxRate \in Nat /\ TickDuration \in Nat /\ TimerDuration \in Nat
      /\ TickDuration * MaxRate <= TimerDuration
  BY TimerAssumption
<1>2. rate \in Nat /\ rate <= MaxRate
  BY <1>1 DEF moveTimerRateForLevel
<1> HIDE DEF rate
<1>3. TickDuration * rate \in Nat /\ TickDuration * MaxRate \in Nat
  BY <1>1, <1>2
<1>4. TickDuration * MaxRate = TickDuration * rate + TickDuration * (MaxRate - rate)
  BY <1>1, <1>2
<1>5. TickDuration * (MaxRate - rate) \in Nat
  BY <1>1, <1>2
<1> QED
  BY <1>1, <1>3, <1>4, <1>5 DEF rate

(* The timers that the game holds.                                         *)
Timers == [duration : {TimerDuration}, elapsed : 0 .. TimerDuration - 1, lapsed : BOOLEAN]

LEMMA TimerType ==
  ASSUME NEW timer \in Timers
  PROVE  /\ Timer!reset(timer) \in Timers
         /\ \A delta \in Nat : delta <= TimerDuration => Timer!update(timer, delta) \in Timers
<1>1. TimerDuration \in Nat /\ TimerDuration >= 1
  BY TimerAssumption
<1>2. Timer!reset(timer) \in Timers
  <2>1. 0 \in 0 .. TimerDuration - 1 /\ FALSE \in BOOLEAN
    BY <1>1
  <2> DEFINE zero_ == 0
             no_   == FALSE
  <2>2. Timer!reset(timer) = [timer EXCEPT !.elapsed = zero_, !.lapsed = no_]
    BY DEF Timer!reset
  <2> HIDE DEF zero_, no_
  <2> QED
    BY <2>1, <2>2 DEF Timers, zero_, no_
<1>3. ASSUME NEW delta \in Nat, delta <= TimerDuration
      PROVE  Timer!update(timer, delta) \in Timers
  <2> DEFINE elapsed == timer.elapsed + delta
             lapsed  == elapsed >= timer.duration
             left_   == IF lapsed THEN elapsed - timer.duration ELSE elapsed
  <2>1. timer.duration = TimerDuration /\ timer.elapsed \in 0 .. TimerDuration - 1
    BY DEF Timers
  <2>2. left_ \in 0 .. TimerDuration - 1
    BY <1>1, <1>3, <2>1
  <2>3. lapsed \in BOOLEAN
    OBVIOUS
  <2>4. Timer!update(timer, delta) = [timer EXCEPT !.elapsed = left_, !.lapsed = lapsed]
    BY DEF Timer!update
  <2> HIDE DEF left_, lapsed
  <2> QED
    BY <2>2, <2>3, <2>4 DEF Timers
<1> QED
  BY <1>2, <1>3

LEMMA SoundTimer ==
  ASSUME NEW m, Sound(m)
  PROVE  Sound(updateMoveTimer(m))
<1> DEFINE delta == TickDuration * moveTimerRateForLevel(m.level)
           timer == IF m.input.move.y > 0 THEN Timer!reset(m.moveTimer)
                    ELSE Timer!update(m.moveTimer, delta)
           n     == [m EXCEPT !.moveTimer = timer]
<1>1. IsModel(m) /\ DOMAIN m = DOMAIN newGame /\ m.moveTimer \in Timers
  BY DEF Sound, IsModel, Timers
<1>2. delta \in Nat /\ delta <= TimerDuration
  BY <1>1, FrameTime DEF IsModel
<1>3. timer \in Timers
  <2> HIDE DEF delta
  <2> QED
    BY <1>1, <1>2, TimerType DEF timer
<1>4. updateMoveTimer(m) \in {moveBlock(n, down), n}
  BY DEF updateMoveTimer
<1> HIDE DEF timer
<1>5. /\ DOMAIN n = DOMAIN newGame /\ n.block = m.block /\ n.state = m.state
      /\ n.input = m.input /\ n.teleportDown = m.teleportDown
      /\ n.moveTimer = timer /\ n.debris = m.debris
      /\ n.rowsToDrop = m.rowsToDrop /\ n.rowsCleared = m.rowsCleared
      /\ n.level = m.level /\ n.score = m.score
  BY <1>1, Fields
<1> HIDE DEF n
<1>6. IsModel(n)
  BY <1>1, <1>3, <1>5 DEF IsModel, Timers
<1>7. Sound(n)
  BY <1>5, <1>6 DEF Sound
<1>8. Sound(moveBlock(n, down))
  BY <1>7, SoundMove DEF Moves
<1> QED
  BY <1>4, <1>7, <1>8

LEMMA SoundNewGame == Sound(newGame)
<1>1. TimerDuration \in Nat /\ TimerDuration >= 1
  BY TimerAssumption
<1>2. /\ newGame.state = "Intro" /\ newGame.input = emptyPlayerInput
      /\ newGame.teleportDown = FALSE /\ newGame.moveTimer = Timer!create(TimerDuration)
      /\ newGame.block = empty /\ newGame.debris = EmptyBag /\ newGame.rowsToDrop = {}
      /\ newGame.rowsCleared = 0 /\ newGame.level = 1 /\ newGame.score = 0
  BY DEF newGame
<1>3. emptyPlayerInput \in [move : {zero, down, left, right}, rotate : {0, 1},
                            teleportDown : BOOLEAN]
  BY DEF emptyPlayerInput
<1>4. Timer!create(TimerDuration) \in Timers
  BY <1>1 DEF Timer!create, Timers
<1>5. DOMAIN EmptyBag = {} /\ EmptyBag \in [{} -> Nat \ {0}]
  BY DEF EmptyBag, SetToBag
<1>6. IsModel(newGame)
  <2>1. newGame.block \in SUBSET Vec
    BY <1>2, EmptyBlock
  <2>2. /\ DOMAIN newGame.debris \in SUBSET Vec
        /\ newGame.debris \in [DOMAIN newGame.debris -> Nat \ {0}]
    BY <1>2, <1>5
  <2>3. /\ newGame.state \in {"Intro", "Playing", "GameOver"}
        /\ newGame.rowsToDrop \in SUBSET Rows
        /\ newGame.rowsCleared \in Nat /\ newGame.level \in Nat \ {0} /\ newGame.score \in Nat
    BY DEF newGame
  <2>5. newGame.teleportDown \in BOOLEAN
    BY <1>2, Zenon
  <2>4. /\ newGame.input \in [move : {zero, down, left, right}, rotate : {0, 1},
                              teleportDown : BOOLEAN]
        /\ newGame.moveTimer \in [duration : {TimerDuration},
                                  elapsed : 0 .. TimerDuration - 1, lapsed : BOOLEAN]
    BY <1>2, <1>3, <1>4, Zenon DEF Timers
  <2> QED
    BY <2>1, <2>2, <2>3, <2>4, <2>5, Zenon DEF IsModel
<1> QED
  BY <1>2, <1>5, <1>6, EmptyBlock DEF Sound, Placed

LEMMA SoundKey ==
  ASSUME NEW m, Sound(m), NEW key
  PROVE  Sound(processInput(m, key))
<1>1. ASSUME NEW n, Sound(n) PROVE Sound(updateStartGame(n, key))
  <2>1. IsModel(n) /\ DOMAIN n = DOMAIN newGame
    BY <1>1 DEF Sound, IsModel
  <2> DEFINE r == [n EXCEPT !.state = "Playing"]
  <2>2. /\ DOMAIN r = DOMAIN newGame /\ r.block = n.block /\ r.state = "Playing"
        /\ r.input = n.input /\ r.teleportDown = n.teleportDown
        /\ r.moveTimer = n.moveTimer /\ r.debris = n.debris
        /\ r.rowsToDrop = n.rowsToDrop /\ r.rowsCleared = n.rowsCleared
        /\ r.level = n.level /\ r.score = n.score
    BY <2>1, Fields
  <2>3. updateStartGame(n, key) \in {n, r}
    BY DEF updateStartGame
  <2> HIDE DEF r
  <2>4. IsModel(r)
    BY <2>1, <2>2 DEF IsModel
  <2> QED
    BY <1>1, <2>2, <2>3, <2>4 DEF Sound
<1>2. ASSUME NEW n, Sound(n) PROVE Sound(updateCheatLevel(n, key))
  <2>1. IsModel(n) /\ DOMAIN n = DOMAIN newGame
    BY <1>2 DEF Sound, IsModel
  <2> DEFINE r == [n EXCEPT !.level = n.level + 1]
  <2>2. /\ DOMAIN r = DOMAIN newGame /\ r.block = n.block /\ r.state = n.state
        /\ r.input = n.input /\ r.teleportDown = n.teleportDown
        /\ r.moveTimer = n.moveTimer /\ r.debris = n.debris
        /\ r.rowsToDrop = n.rowsToDrop /\ r.rowsCleared = n.rowsCleared
        /\ r.level = n.level + 1 /\ r.score = n.score
    BY <2>1, Fields
  <2>3. updateCheatLevel(n, key) \in {n, r}
    BY DEF updateCheatLevel
  <2> HIDE DEF r
  <2>4. IsModel(r)
    BY <2>1, <2>2 DEF IsModel
  <2> QED
    BY <1>2, <2>2, <2>3, <2>4 DEF Sound
<1>3. ASSUME NEW n, Sound(n) PROVE Sound(updatePlayerInput(n, key))
  <2>1. IsModel(n) /\ DOMAIN n = DOMAIN newGame
    BY <1>3 DEF Sound, IsModel
  <2> DEFINE input == [move |-> moveInput(key), rotate |-> IF key = "up" THEN 1 ELSE 0,
                       teleportDown |-> key = "spacebar"]
             r == [n EXCEPT !.input = input]
  <2>2. input \in [move : {zero, down, left, right}, rotate : {0, 1}, teleportDown : BOOLEAN]
    <3>1. moveInput(key) \in {zero, down, left, right}
      BY DEF moveInput
    <3>2. (IF key = "up" THEN 1 ELSE 0) \in {0, 1} /\ (key = "spacebar") \in BOOLEAN
      OBVIOUS
    <3> QED
      BY <3>1, <3>2
  <2>3. updatePlayerInput(n, key) = r
    BY DEF updatePlayerInput
  <2> HIDE DEF input
  <2>4. /\ DOMAIN r = DOMAIN newGame /\ r.block = n.block /\ r.state = n.state
        /\ r.input = input /\ r.teleportDown = n.teleportDown
        /\ r.moveTimer = n.moveTimer /\ r.debris = n.debris
        /\ r.rowsToDrop = n.rowsToDrop /\ r.rowsCleared = n.rowsCleared
        /\ r.level = n.level /\ r.score = n.score
    BY <2>1, Fields
  <2> HIDE DEF r
  <2>5. IsModel(r)
    BY <2>1, <2>2, <2>4 DEF IsModel
  <2> QED
    BY <1>3, <2>3, <2>4, <2>5 DEF Sound
<1>4. Sound(updateNewGame(m, key))
  BY SoundNewGame DEF updateNewGame
<1>5. m.state \in {"Intro", "Playing", "GameOver"}
  BY DEF Sound, IsModel
<1>6. Sound(updatePlayerInput(updateCheatLevel(m, key), key))
  BY <1>2, <1>3
<1> QED
  BY <1>1, <1>4, <1>5, <1>6 DEF processInput

LEMMA SoundFrame ==
  ASSUME Sound(model), NEW key, NEW template \in BlockPool, Frame(key, template)
  PROVE  Sound(model)'
<1>1. PICK m : Sound(m) /\ tick(m, template)
  BY SoundKey DEF Frame
<1>2. CASE m.state = "Playing"
  <2>1. PICK moved : Sound(moved) /\ model' = updateMoveTimer(moved)
    BY <1>1, <1>2, SoundSpawn, SoundDrop, SoundTeleport, SoundRotate, SoundPlayerMove
    DEF tick
  <2> QED
    BY <2>1, SoundTimer
<1>3. CASE m.state # "Playing"
  BY <1>1, <1>3 DEF tick
<1> QED
  BY <1>2, <1>3

(* The model stays well formed and no block leaves the playable area.      *)
LEMMA SoundInvariant == Spec => []Sound(model)
<1>1. Init => Sound(model)
  BY SoundNewGame DEF Init
<1>2. Sound(model) /\ [Next]_vars => Sound(model)'
  <2> SUFFICES ASSUME Sound(model), [Next]_vars PROVE Sound(model)'
    OBVIOUS
  <2>1. CASE Next
    BY <2>1, SoundFrame DEF Next
  <2>2. CASE UNCHANGED vars
    BY <2>2 DEF vars
  <2> QED
    BY <2>1, <2>2
<1> QED
  BY <1>1, <1>2, PTL DEF Spec

(* TypeOK, for every pool of blocks that fits.                             *)
THEOREM TypeCorrect == Spec => []TypeOK
<1>1. Sound(model) => TypeOK
  BY DEF Sound, TypeOK
<1> QED
  BY <1>1, SoundInvariant, PTL

(* InBounds: no order of fast drop, turn, move and timer takes a block out *)
(* of the playable area, and no drop of a row takes the debris out of it.  *)
THEOREM StaysInBounds == Spec => []InBounds
<1>1. Sound(model) => InBounds
  BY DEF Sound, Placed, InBounds, Inside
<1> QED
  BY <1>1, SoundInvariant, PTL
-----------------------------------------------------------------------------
(* The rows that wait are full, the level keeps up with the rows, the fast *)
(* drop ends with its block, and no move takes a block into the debris:    *)
(* again one lemma per system.                                             *)

(* Neither way round is a block so high that a lock fills more rows than    *)
(* two levels require.                                                     *)
Low(b) ==
  \/ b = {}
  \/ \E u, v \in Vec : /\ IsBounds(b, u, v)
                       /\ v.x - u.x + 1 + rangeEnd <= 2 * RowsPerLevel
                       /\ v.y - u.y + 1 + rangeEnd <= 2 * RowsPerLevel

(* With Sound, the inductive invariant behind PendingRowsFull,             *)
(* LevelNotBehind and TeleportNeedsBlock.                                  *)
Upheld(m) ==
  /\ m.teleportDown => m.block # {}
  /\ LevelAhead(m)
  /\ Pending(m)
  /\ Low(m.block)
  /\ m.state = "Intro" => m.block = {}

(* What the turn, the moves and the timer of a frame keep: the block is    *)
(* not in the debris, unless it had no room to appear.                     *)
Clear(m) == m.state = "GameOver" \/ m.block \cap DOMAIN m.debris = {}

(* What they do to the block b: it is gone, or no higher than it was.      *)
Falls(b, c) == c = {} \/ (b # {} /\ boundsCenter(c).y >= boundsCenter(b).y)
(* Something is below one of the points of b: debris, or the floor.        *)
Supported(b, debris) == \E p \in b : p.y = PlayHeight - 1 \/ add(p, down) \in DOMAIN debris
-----------------------------------------------------------------------------
(* Blocks.                                                                 *)

LEMMA RangeEnd == rangeEnd \in {0, 1} /\ RowsPerLevel \in Nat /\ RowsPerLevel >= 1
BY RangeAssumption, RowsPerLevelAssumption DEF rangeEnd

LEMMA LowTranslated ==
  ASSUME NEW b \in SUBSET Vec, NEW d \in Vec, Low(b)
  PROVE  Low(translate(b, d)) /\ (b # {} => translate(b, d) # {})
<1>1. CASE b = {}
  BY <1>1, EmptyBlock DEF Low
<1>2. CASE b # {}
  <2>1. PICK u \in Vec, v \in Vec : /\ IsBounds(b, u, v)
                                    /\ v.x - u.x + 1 + rangeEnd <= 2 * RowsPerLevel
                                    /\ v.y - u.y + 1 + rangeEnd <= 2 * RowsPerLevel
    BY <1>2 DEF Low
  <2> DEFINE tu == add(u, d)
             tv == add(v, d)
  <2>2. IsBounds(translate(b, d), tu, tv)
    BY <2>1, TranslateBounds
  <2>3. /\ tu \in Vec /\ tv \in Vec
        /\ tu.x = u.x + d.x /\ tu.y = u.y + d.y /\ tv.x = v.x + d.x /\ tv.y = v.y + d.y
        /\ u.x \in Int /\ u.y \in Int /\ v.x \in Int /\ v.y \in Int /\ d.x \in Int /\ d.y \in Int
    BY VecType
  <2> HIDE DEF tu, tv
  <2>4. /\ tv.x - tu.x + 1 + rangeEnd <= 2 * RowsPerLevel
        /\ tv.y - tu.y + 1 + rangeEnd <= 2 * RowsPerLevel
    BY <2>1, <2>3, RangeEnd
  <2>5. translate(b, d) # {}
    BY <2>2 DEF IsBounds
  <2> QED
    BY <2>2, <2>3, <2>4, <2>5 DEF Low
<1> QED
  BY <1>1, <1>2

LEMMA LowTurned ==
  ASSUME NEW b \in SUBSET Vec, Low(b),
         NEW turned \in {rotateClockwise(b), rotateCounterClockwise(b)}
  PROVE  turned \in SUBSET Vec /\ Low(turned) /\ (b # {} => turned # {})
<1>1. CASE b = {}
  <2>1. turned = {}
    BY <1>1, EmptyBlock DEF rotateClockwise, rotateCounterClockwise, rotate
  <2> QED
    BY <1>1, <2>1 DEF Low
<1>2. CASE b # {}
  <2>1. PICK u \in Vec, v \in Vec : /\ IsBounds(b, u, v)
                                    /\ v.x - u.x + 1 + rangeEnd <= 2 * RowsPerLevel
                                    /\ v.y - u.y + 1 + rangeEnd <= 2 * RowsPerLevel
    BY <1>2 DEF Low
  <2>2. /\ turned \in SUBSET Vec
        /\ \E tu, tv \in Vec : /\ IsBounds(turned, tu, tv)
                               /\ tv.x - tu.x = v.y - u.y
                               /\ tv.y - tu.y = v.x - u.x
    BY <2>1, TurnKeepsCenter
  <2>3. turned # {}
    BY <2>2 DEF IsBounds
  <2> QED
    BY <2>1, <2>2, <2>3 DEF Low
<1> QED
  BY <1>1, <1>2

(* What clampBlockToPlayBounds does is a translation.                      *)
LEMMA ClampTranslates ==
  ASSUME NEW b \in SUBSET Vec, NEW u \in Vec, NEW v \in Vec, IsBounds(b, u, v)
  PROVE  \E d \in Vec : d.y >= 0 /\ clampBlockToPlayBounds(b) = translate(b, d)
<1>1. min(b) = u /\ max(b) = v
  BY BoundsUnique
<1> DEFINE x == (IF u.x < playMin.x THEN playMin.x - u.x ELSE 0)
                + (IF v.x > playMax.x THEN playMax.x - v.x ELSE 0)
           y == IF u.y < playMin.y THEN playMin.y - u.y ELSE 0
<1>2. x \in Int /\ y \in Int /\ y >= 0
  BY Sizes, VecType
<1>3. clampBlockToPlayBounds(b) = translate(b, vec2(x, y))
  BY <1>1 DEF clampBlockToPlayBounds
<1> HIDE DEF x, y
<1>4. vec2(x, y) \in Vec /\ vec2(x, y).y >= 0
  BY <1>2, VecType
<1> QED
  BY <1>3, <1>4

LEMMA LowClamped ==
  ASSUME NEW b \in SUBSET Vec, Low(b)
  PROVE  /\ Low(clampBlockToPlayBounds(b))
         /\ b # {} => clampBlockToPlayBounds(b) # {}
<1>1. CASE b = {}
  BY <1>1, EmptyBlock DEF Low, clampBlockToPlayBounds
<1>2. CASE b # {}
  <2>1. PICK d \in Vec : clampBlockToPlayBounds(b) = translate(b, d)
    BY <1>2, ClampTranslates DEF Low
  <2> QED
    BY <2>1, LowTranslated
<1> QED
  BY <1>1, <1>2

LEMMA FallsSelf ==
  ASSUME NEW b \in SUBSET Vec, Low(b)
  PROVE  Falls(b, b) /\ (b # {} => boundsCenter(b).y \in Int)
<1>1. CASE b # {}
  <2>1. PICK u \in Vec, v \in Vec : IsBounds(b, u, v)
    BY <1>1 DEF Low
  <2>2. boundsCenter(b).y \in Int
    BY <2>1, CenterIs, VecType
  <2> QED
    BY <1>1, <2>2 DEF Falls
<1>2. CASE b = {}
  BY <1>2 DEF Falls
<1> QED
  BY <1>1, <1>2

LEMMA FallsOn ==
  ASSUME NEW b \in SUBSET Vec, NEW c \in SUBSET Vec, NEW d \in SUBSET Vec,
         Low(b), Low(c), Low(d), Falls(b, c), Falls(c, d)
  PROVE  Falls(b, d)
<1>1. CASE d = {}
  BY <1>1 DEF Falls
<1>2. CASE d # {}
  <2>1. c # {} /\ b # {}
    BY <1>2 DEF Falls
  <2> DEFINE yb == boundsCenter(b).y
             yc == boundsCenter(c).y
             yd == boundsCenter(d).y
  <2>2. yc >= yb /\ yd >= yc
    BY <1>2, <2>1 DEF Falls
  <2>3. yb \in Int /\ yc \in Int /\ yd \in Int
    BY <1>2, <2>1, FallsSelf
  <2> HIDE DEF yb, yc, yd
  <2>4. yd >= yb
    BY <2>2, <2>3
  <2> QED
    BY <2>1, <2>4 DEF Falls, yb, yd
<1> QED
  BY <1>1, <1>2

LEMMA FallsTranslated ==
  ASSUME NEW b \in SUBSET Vec, NEW d \in Vec, d.y >= 0, Low(b)
  PROVE  translate(b, d) \in SUBSET Vec /\ Falls(b, translate(b, d))
<1>1. CASE b = {}
  BY <1>1, EmptyBlock DEF Falls
<1>2. CASE b # {}
  <2>1. PICK u \in Vec, v \in Vec : IsBounds(b, u, v)
    BY <1>2 DEF Low
  <2> DEFINE tu == add(u, d)
             tv == add(v, d)
  <2>2. translate(b, d) \in SUBSET Vec /\ IsBounds(translate(b, d), tu, tv)
    BY <2>1, TranslateBounds
  <2>3. /\ tu \in Vec /\ tv \in Vec /\ tu.y = u.y + d.y /\ tv.y = v.y + d.y
        /\ u.y \in Int /\ v.y \in Int /\ d.y \in Int
    BY VecType
  <2> HIDE DEF tu, tv
  <2>4. boundsCenter(b).y = (v.y - u.y) \div 2 + u.y /\ v.y - u.y \in Nat
    BY <2>1, CenterIs
  <2>5. boundsCenter(translate(b, d)).y = (tv.y - tu.y) \div 2 + tu.y
    BY <2>2, <2>3, CenterIs
  <2>6. tv.y - tu.y = v.y - u.y
    BY <2>3
  <2> DEFINE half == (v.y - u.y) \div 2
  <2>7. half \in Int
    BY <2>4
  <2>8. /\ boundsCenter(b).y = half + u.y
        /\ boundsCenter(translate(b, d)).y = half + (u.y + d.y)
    BY <2>3, <2>4, <2>5, <2>6
  <2> HIDE DEF half
  <2>9. boundsCenter(translate(b, d)).y >= boundsCenter(b).y
    BY <2>3, <2>7, <2>8
  <2> QED
    BY <1>2, <2>2, <2>9 DEF Falls
<1> QED
  BY <1>1, <1>2

(* A turn keeps the centre, and the clamp after it moves a block down only.*)
LEMMA FallsTurned ==
  ASSUME NEW b \in SUBSET Vec, Low(b),
         NEW turned \in {rotateClockwise(b), rotateCounterClockwise(b)}
  PROVE  Falls(b, clampBlockToPlayBounds(turned))
<1>1. CASE b = {}
  <2>1. turned = {}
    BY <1>1, EmptyBlock DEF rotateClockwise, rotateCounterClockwise, rotate
  <2>2. clampBlockToPlayBounds({}) = {}
    BY EmptyBlock DEF clampBlockToPlayBounds
  <2>3. clampBlockToPlayBounds(turned) = {}
    BY <2>1, <2>2
  <2> QED
    BY <2>3 DEF Falls
<1>2. CASE b # {}
  <2>1. PICK u \in Vec, v \in Vec : IsBounds(b, u, v)
    BY <1>2 DEF Low
  <2>2. /\ turned \in SUBSET Vec /\ boundsCenter(turned) = boundsCenter(b)
        /\ \E tu, tv \in Vec : IsBounds(turned, tu, tv)
    BY <2>1, TurnKeepsCenter
  <2>3. PICK d \in Vec : d.y >= 0 /\ clampBlockToPlayBounds(turned) = translate(turned, d)
    BY <2>2, ClampTranslates
  <2>4. Low(turned)
    BY LowTurned
  <2>5. Falls(turned, translate(turned, d))
    BY <2>2, <2>3, <2>4, FallsTranslated
  <2> QED
    BY <1>2, <2>2, <2>3, <2>5 DEF Falls
<1> QED
  BY <1>1, <1>2

LEMMA LowTemplate ==
  ASSUME NEW t \in BlockPool
  PROVE  t \in SUBSET Vec /\ t # {} /\ Low(t)
<1>1. /\ t \in SUBSET [x : 0 .. PlayWidth - 2, y : 0 .. PlayWidth - 2] /\ t # {}
      /\ size(t).x + rangeEnd <= 2 * RowsPerLevel /\ size(t).y + rangeEnd <= 2 * RowsPerLevel
  BY BlockPoolAssumption, RowsPerLevelAssumption
<1>2. t \in SUBSET Vec
  BY <1>1, Sizes DEF Vec
<1>3. \A p \in t : 0 <= p.x /\ p.x <= PlayWidth - 2 /\ 0 <= p.y /\ p.y <= PlayWidth - 2
  BY <1>1, Sizes
<1>4. PICK u \in Vec, v \in Vec : IsBounds(t, u, v)
  <2>1. 0 \in Int /\ PlayWidth - 2 \in Int
    BY Sizes
  <2> QED
    BY <1>1, <1>2, <1>3, <2>1, BoundsExist
<1>5. min(t) = u /\ max(t) = v
  BY <1>2, <1>4, BoundsUnique
<1>6. size(t).x = v.x - u.x + 1 /\ size(t).y = v.y - u.y + 1
  <2>1. /\ subtract(v, u) \in Vec
        /\ subtract(v, u).x = v.x - u.x /\ subtract(v, u).y = v.y - u.y
    BY VecType
  <2>2. vec2(1, 1) \in Vec /\ vec2(1, 1).x = 1 /\ vec2(1, 1).y = 1
    BY VecType
  <2> QED
    BY <1>5, <2>1, <2>2, VecType DEF size
<1> QED
  BY <1>1, <1>2, <1>4, <1>6 DEF Low
-----------------------------------------------------------------------------
(* What each system does to the fields that the invariants are about.      *)

LEMMA LockShape ==
  ASSUME NEW m, DOMAIN m = DOMAIN newGame
  PROVE  LET r      == addBlockToDebris(m)
             debris == m.debris (+) SetToBag(m.block)
             rows   == {y \in rowsOf(m.block) : countPointsInRow(debris, y) = PlayWidth}
         IN  /\ r.block = {} /\ r.teleportDown = FALSE /\ r.state = m.state
             /\ r.debris = debris /\ r.rowsToDrop = rows
             /\ r.rowsCleared = m.rowsCleared + Cardinality(rows)
             /\ r.level = levelAfter(m.level, m.rowsCleared + Cardinality(rows))
             /\ r.input = m.input /\ r.score = scoreAfter(m, Cardinality(rows))
<1> DEFINE debris == m.debris (+) SetToBag(m.block)
           rows   == {y \in rowsOf(m.block) : countPointsInRow(debris, y) = PlayWidth}
           count  == Cardinality(rows)
<1>1. addBlockToDebris(m) =
        [m EXCEPT !.debris = debris, !.block = empty, !.teleportDown = FALSE,
                  !.rowsToDrop = rows, !.score = scoreAfter(m, count),
                  !.rowsCleared = m.rowsCleared + count,
                  !.level = levelAfter(m.level, m.rowsCleared + count)]
  BY DEF addBlockToDebris
<1> HIDE DEF debris, rows, count
<1>2. /\ addBlockToDebris(m).block = {} /\ addBlockToDebris(m).teleportDown = FALSE
      /\ addBlockToDebris(m).state = m.state
      /\ addBlockToDebris(m).debris = debris /\ addBlockToDebris(m).rowsToDrop = rows
      /\ addBlockToDebris(m).rowsCleared = m.rowsCleared + count
      /\ addBlockToDebris(m).level = levelAfter(m.level, m.rowsCleared + count)
      /\ addBlockToDebris(m).input = m.input
      /\ addBlockToDebris(m).score = scoreAfter(m, count)
  BY <1>1, Fields, EmptyBlock
<1> QED
  BY <1>2 DEF debris, rows, count

(* A move locks the block, leaves it where it is, or moves it to where it  *)
(* touches no debris.                                                      *)
LEMMA MoveShape ==
  ASSUME NEW m, Sound(m), NEW move \in Moves
  PROVE  LET r == moveBlock(m, move)
         IN  \/ r = addBlockToDebris(m) /\ m.block # {} /\ Supported(m.block, m.debris)
             \/ r = m
             \/ \E d \in Vec : /\ d.y >= 0
                               /\ translate(m.block, d) \cap DOMAIN m.debris = {}
                               /\ r = [m EXCEPT !.block = translate(m.block, d)]
<1> DEFINE d     == clampedMove(m.block, move)
           block == translate(m.block, d)
<1>1. Placed(m.block)
  BY DEF Sound
<1>2. CASE m.block = {}
  <2>1. block = {} /\ max(block).y = 0
    BY <1>2, EmptyBlock, MovesType
  <2>2. ~blockIntersectsDebris(block, m.debris) /\ ~(max(block).y > playMax.y)
    BY <2>1, Sizes DEF blockIntersectsDebris
  <2>3. moveBlock(m, move) = [m EXCEPT !.block = block]
    BY <2>2 DEF moveBlock
  <2>4. translate(m.block, zero) = {} /\ zero \in Vec /\ zero.y >= 0
    BY <1>2, EmptyBlock, MovesType
  <2>5. moveBlock(m, move) = [m EXCEPT !.block = translate(m.block, zero)]
    BY <2>1, <2>3, <2>4
  <2> QED
    BY <2>4, <2>5
<1>3. CASE m.block # {}
  <2>1. d \in Vec /\ d.y >= 0
    <3>1. d \in Vec /\ d.y = move.y /\ move.y \in {0, 1}
      BY <1>1, <1>3, ClampedMove
    <3> HIDE DEF d
    <3> QED
      BY <3>1
  <2>2. \/ /\ moveBlock(m, move) = addBlockToDebris(m)
           /\ \/ blockIntersectsDebris(block, m.debris) /\ move.y > 0
              \/ max(block).y > playMax.y
        \/ moveBlock(m, move) = m
        \/ /\ ~blockIntersectsDebris(block, m.debris)
           /\ moveBlock(m, move) = [m EXCEPT !.block = block]
    BY DEF moveBlock
  <2>3. move.y > 0 => d = down
    BY MovesType DEF clampedMove, Moves, down, vec2
  <2>4. d.y = move.y /\ move.y \in {0, 1}
    BY <1>1, <1>3, ClampedMove
  <2> HIDE DEF d
  <2>5. ASSUME blockIntersectsDebris(block, m.debris), move.y > 0
        PROVE  Supported(m.block, m.debris)
    BY <2>3, <2>5 DEF blockIntersectsDebris, translate, Supported
  <2>6. ASSUME max(block).y > playMax.y PROVE Supported(m.block, m.debris)
    <3>1. /\ m.block \in SUBSET Vec /\ IsBounds(m.block, min(m.block), max(m.block))
          /\ min(m.block) \in Vec /\ max(m.block) \in Vec /\ max(m.block).y <= PlayHeight - 1
      BY <1>1, <1>3, PlacedBounds
    <3>2. /\ block \in SUBSET Vec /\ add(min(m.block), d) \in Vec /\ add(max(m.block), d) \in Vec
          /\ IsBounds(block, add(min(m.block), d), add(max(m.block), d))
      BY <2>1, <3>1, TranslateBounds, VecType
    <3>3. max(block).y = max(m.block).y + d.y /\ max(m.block).y \in Int
      <4> HIDE DEF block
      <4>1. max(block) = add(max(m.block), d)
        BY <3>2, BoundsUnique
      <4> QED
        BY <2>1, <3>1, <4>1, VecType
    <3>4. max(m.block).y = PlayHeight - 1
      <4> HIDE DEF block
      <4> QED
        BY <2>4, <2>6, <3>1, <3>3, Sizes
    <3> QED
      BY <3>1, <3>4 DEF IsBounds, Supported
  <2> HIDE DEF block
  <2> QED
    BY <1>3, <2>1, <2>2, <2>5, <2>6 DEF blockIntersectsDebris, block
<1> QED
  BY <1>2, <1>3
-----------------------------------------------------------------------------
(* Rows and levels.                                                        *)

(* The next level requires as many rows more as it is levels high.         *)
LEMMA NextLevel ==
  ASSUME NEW level \in Nat \ {0}
  PROVE  /\ rowsRequiredForLevel(level) \in Nat
         /\ rowsRequiredForLevel(level) + 2 * RowsPerLevel <= rowsRequiredForLevel(level + 1)
<1> DEFINE k == level * (level + 1)
           h == k \div 2
           n == level + 1
<1>1. k \in Nat /\ n \in Nat /\ n >= 2 /\ RowsPerLevel \in Nat
  BY RangeEnd
<1>2. n * (n + 1) = k + 2 * n
  OBVIOUS
<1> HIDE DEF k, n
<1>3. h \in Nat /\ (k + 2 * n) \div 2 = h + n
  BY <1>1
<1> HIDE DEF h
<1>4. rowsRequiredForLevel(level) = RowsPerLevel * h
  BY DEF rowsRequiredForLevel, h, k
<1>5. rowsRequiredForLevel(n) = RowsPerLevel * (h + n)
  BY <1>2, <1>3 DEF rowsRequiredForLevel
<1>6. RowsPerLevel * (h + n) = RowsPerLevel * h + RowsPerLevel * n
  BY <1>1, <1>3
<1>7. RowsPerLevel * n >= RowsPerLevel * 2
  <2>1. RowsPerLevel * n = RowsPerLevel * 2 + RowsPerLevel * (n - 2)
    BY <1>1
  <2>2. RowsPerLevel * (n - 2) \in Nat
    BY <1>1
  <2> QED
    BY <1>1, <2>1, <2>2
<1>8. RowsPerLevel * h \in Nat /\ RowsPerLevel * n \in Nat
  BY <1>1, <1>3
<1> QED
  BY <1>1, <1>4, <1>5, <1>6, <1>7, <1>8 DEF n

(* A block fills at most as many rows as two levels take.                  *)
LEMMA RowsOfLow ==
  ASSUME NEW b, Placed(b), Low(b), b # {}, NEW rows \in SUBSET rowsOf(b)
  PROVE  Cardinality(rows) \in Nat /\ Cardinality(rows) <= 2 * RowsPerLevel
<1>1. PICK u \in Vec, v \in Vec : IsBounds(b, u, v) /\ v.y - u.y + 1 + rangeEnd <= 2 * RowsPerLevel
  BY DEF Low
<1>2. b \in SUBSET Vec
  BY PlacedBounds
<1>3. min(b) = u /\ max(b) = v
  BY <1>1, <1>2, BoundsUnique
<1>4. IsFiniteSet(rowsOf(b)) /\ Cardinality(rowsOf(b)) <= 2 * RowsPerLevel
  BY <1>1, <1>3, RowsOfPlaced
<1>5. /\ IsFiniteSet(rows) /\ Cardinality(rows) <= Cardinality(rowsOf(b))
  BY <1>4, FS_Subset
<1>6. Cardinality(rows) \in Nat /\ Cardinality(rowsOf(b)) \in Nat
  BY <1>4, <1>5, FS_CardinalityType
<1> QED
  BY <1>4, <1>5, <1>6, RangeEnd

LEMMA UpheldLock ==
  ASSUME NEW m, Sound(m), Upheld(m), m.block # {}
  PROVE  Upheld(addBlockToDebris(m))
<1> DEFINE r      == addBlockToDebris(m)
           debris == m.debris (+) SetToBag(m.block)
           rows   == {y \in rowsOf(m.block) : countPointsInRow(debris, y) = PlayWidth}
           count  == Cardinality(rows)
<1>1. IsModel(m) /\ DOMAIN m = DOMAIN newGame /\ Placed(m.block)
  BY DEF Sound, IsModel
<1>2. /\ r.block = {} /\ r.teleportDown = FALSE
      /\ r.debris = debris /\ r.rowsToDrop = rows
      /\ r.rowsCleared = m.rowsCleared + count
      /\ r.level = levelAfter(m.level, m.rowsCleared + count)
  BY <1>1, LockShape
<1>3. Pending(r)
  BY <1>2 DEF Pending
<1>4. count \in Nat /\ count <= 2 * RowsPerLevel
  BY <1>1, RowsOfLow DEF Upheld
<1> HIDE DEF r, debris, rows, count
<1>5. LevelAhead(r)
  <2>1. /\ m.level \in Nat \ {0} /\ m.rowsCleared \in Nat
        /\ m.rowsCleared < rowsRequiredForLevel(m.level)
    BY <1>1 DEF IsModel, Upheld, LevelAhead
  <2>2. /\ rowsRequiredForLevel(m.level) \in Nat
        /\ rowsRequiredForLevel(m.level) + 2 * RowsPerLevel <= rowsRequiredForLevel(m.level + 1)
        /\ rowsRequiredForLevel(m.level + 1) \in Nat
    BY <2>1, NextLevel
  <2>3. CASE m.rowsCleared + count >= rowsRequiredForLevel(m.level)
    <3>1. r.level = m.level + 1
      BY <1>2, <2>3 DEF levelAfter
    <3>2. m.rowsCleared + count < rowsRequiredForLevel(m.level + 1)
      BY <1>4, <2>1, <2>2, RangeEnd
    <3> QED
      BY <1>2, <3>1, <3>2 DEF LevelAhead
  <2>4. CASE ~(m.rowsCleared + count >= rowsRequiredForLevel(m.level))
    <3>1. r.level = m.level
      BY <1>2, <2>4 DEF levelAfter
    <3>2. m.rowsCleared + count < rowsRequiredForLevel(m.level)
      BY <1>4, <2>1, <2>2, <2>4
    <3> QED
      BY <1>2, <3>1, <3>2 DEF LevelAhead
  <2> QED
    BY <2>3, <2>4
<1> QED
  BY <1>2, <1>3, <1>5 DEF Upheld, Low, r

(* Rows below the one that is dropped keep their points.                   *)
LEMMA RowsBelowKept ==
  ASSUME NEW debris, DOMAIN debris \in SUBSET Cells, NEW r \in Rows, NEW y \in Rows, y > r
  PROVE  countPointsInRow(dropRow(debris, r), y) = countPointsInRow(debris, y)
<1> DEFINE fallen(p) == IF p.y < r THEN add(p, down) ELSE p
           origin(q) == IF q.y <= r THEN subtract(q, down) ELSE q
           kept      == {p \in DOMAIN debris : p.y # r}
           dropped   == [q \in {fallen(p) : p \in kept} |-> debris[origin(q)]]
           inRow(d)  == {p \in DOMAIN d : p.y = y}
<1>1. dropRow(debris, r) = dropped
  BY DEF dropRow
<1>2. y \in Int /\ r \in Int
  BY Sizes DEF Rows
<1>3. \A p \in kept : p \in Vec /\ p.y \in Int /\ p.y # r
  BY CellsType
<1>4. ASSUME NEW p \in kept PROVE fallen(p).y = y <=> p.y = y
  <2>1. CASE p.y < r
    <3>1. fallen(p).y = p.y + 1
      BY <1>3, <2>1, VecType, MovesType
    <3> HIDE DEF fallen
    <3> QED
      BY <1>2, <1>3, <2>1, <3>1
  <2>2. CASE ~(p.y < r)
    BY <2>2
  <2> QED
    BY <2>1, <2>2
<1>5. ASSUME NEW p \in DOMAIN debris, p.y = y
      PROVE  p \in kept /\ fallen(p) = p /\ origin(p) = p
  BY <1>2, <1>5
<1>6. ASSUME NEW p \in kept, fallen(p).y = y PROVE fallen(p) = p
  BY <1>4, <1>5, <1>6
<1>7. DOMAIN dropped = {fallen(p) : p \in kept}
  OBVIOUS
<1>8. inRow(dropped) = inRow(debris)
  <2>1. ASSUME NEW q \in inRow(dropped) PROVE q \in inRow(debris)
    <3>1. PICK p \in kept : q = fallen(p) /\ q.y = y
      BY <1>7
    <3>2. q = p
      BY <1>6, <3>1
    <3> QED
      BY <3>1, <3>2
  <2>2. ASSUME NEW p \in inRow(debris) PROVE p \in inRow(dropped)
    BY <1>5, <1>7
  <2> QED
    BY <2>1, <2>2
<1>9. \A p \in inRow(debris) : dropped[p] = debris[p]
  <2> SUFFICES ASSUME NEW p \in inRow(debris) PROVE dropped[p] = debris[p]
    OBVIOUS
  <2>1. p \in DOMAIN dropped /\ origin(p) = p
    BY <1>5, <1>8
  <2> QED
    BY <1>7, <2>1
<1> HIDE DEF fallen, origin, kept, dropped
<1>10. UNION {{p} \X (1..dropped[p]) : p \in inRow(dropped)}
         = UNION {{p} \X (1..debris[p]) : p \in inRow(debris)}
  BY <1>8, <1>9
<1> QED
  BY <1>1, <1>10 DEF countPointsInRow
-----------------------------------------------------------------------------
(* The systems of a frame uphold the invariant.                            *)

LEMMA UpheldNewBlock ==
  ASSUME NEW m, Sound(m), Upheld(m), NEW b, Low(b), m.block = {} <=> b = {}
  PROVE  /\ Upheld([m EXCEPT !.block = b])
         /\ b \cap DOMAIN m.debris = {} => Clear([m EXCEPT !.block = b])
<1> DEFINE r == [m EXCEPT !.block = b]
<1>1. /\ r.block = b /\ r.state = m.state /\ r.teleportDown = m.teleportDown
      /\ r.debris = m.debris /\ r.rowsToDrop = m.rowsToDrop
      /\ r.rowsCleared = m.rowsCleared /\ r.level = m.level
  BY Fields DEF Sound, IsModel
<1> HIDE DEF r
<1>2. Upheld(r) /\ (b \cap DOMAIN m.debris = {} => Clear(r))
  BY <1>1 DEF Upheld, LevelAhead, Pending, Clear
<1> QED
  BY <1>2 DEF r

LEMMA UpheldMove ==
  ASSUME NEW m, Sound(m), Upheld(m), NEW move \in Moves
  PROVE  /\ Upheld(moveBlock(m, move)) /\ (Clear(m) => Clear(moveBlock(m, move)))
         /\ Falls(m.block, moveBlock(m, move).block)
<1>1. CASE moveBlock(m, move) = addBlockToDebris(m) /\ m.block # {}
  <2>1. addBlockToDebris(m).block = {}
    BY LockShape DEF Sound, IsModel
  <2> QED
    BY <1>1, <2>1, UpheldLock DEF Clear, Falls
<1>2. CASE moveBlock(m, move) = m
  BY <1>2, FallsSelf DEF Sound, IsModel, Upheld
<1>3. ASSUME NEW d \in Vec, d.y >= 0, translate(m.block, d) \cap DOMAIN m.debris = {},
             moveBlock(m, move) = [m EXCEPT !.block = translate(m.block, d)]
      PROVE  /\ Upheld(moveBlock(m, move)) /\ Clear(moveBlock(m, move))
             /\ Falls(m.block, moveBlock(m, move).block)
  <2>1. m.block \in SUBSET Vec /\ Low(m.block)
    BY DEF Sound, IsModel, Upheld
  <2>2. Low(translate(m.block, d)) /\ (m.block = {} <=> translate(m.block, d) = {})
    BY <2>1, LowTranslated, EmptyBlock
  <2>3. moveBlock(m, move).block = translate(m.block, d)
    <3> DEFINE c == translate(m.block, d)
    <3>1. DOMAIN m = DOMAIN newGame /\ moveBlock(m, move) = [m EXCEPT !.block = c]
      BY <1>3 DEF Sound, IsModel
    <3> HIDE DEF c
    <3>2. [m EXCEPT !.block = c].block = c
      BY <3>1, Fields
    <3> QED
      BY <3>1, <3>2 DEF c
  <2> QED
    BY <1>3, <2>1, <2>2, <2>3, FallsTranslated, UpheldNewBlock
<1> QED
  BY <1>1, <1>2, <1>3, MoveShape

(* A block has appeared when the fast drop is looked at.                   *)
LEMMA UpheldSpawn ==
  ASSUME NEW m, Sound(m), Upheld(m), NEW t \in BlockPool, m.state = "Playing"
  PROVE  LET r == updateSpawnBlock(m, t)
         IN  /\ Upheld(r) /\ r.block # {}
             /\ r.debris = m.debris /\ r.rowsToDrop = m.rowsToDrop
             /\ IF m.block # {} THEN r = m ELSE Clear(r)
<1> DEFINE d     == vec2(playMin.x + PlayWidth \div 2 - (size(t).x + 1) \div 2, playMin.y)
           block == translate(t, d)
           state == IF blockIntersectsDebris(block, m.debris) THEN "GameOver" ELSE m.state
           r     == [m EXCEPT !.block = block, !.state = state]
<1>1. CASE m.block # {}
  BY <1>1, EmptyBlock DEF updateSpawnBlock
<1>2. CASE m.block = {}
  <2>1. updateSpawnBlock(m, t) = r
    BY <1>2, EmptyBlock DEF updateSpawnBlock
  <2>2. Low(block) /\ block # {}
    <3>1. d \in Vec
      <4>1. /\ PlayWidth \div 2 \in Int /\ playMin.x = 0 /\ playMin.y = 0
        BY Sizes
      <4>2. size(t).x \in Int
        <5>1. subtract(max(t), min(t)) \in Vec
          <6>1. t \in SUBSET Vec /\ t # {} /\ Low(t)
            BY LowTemplate
          <6>2. PICK u \in Vec, v \in Vec : IsBounds(t, u, v)
            BY <6>1 DEF Low
          <6> QED
            BY <6>1, <6>2, BoundsUnique, VecType
        <5> QED
          BY <5>1, VecType DEF size
      <4>3. (size(t).x + 1) \div 2 \in Int
        BY <4>2
      <4> QED
        BY <4>1, <4>3, VecType
    <3> HIDE DEF d
    <3> QED
      BY <3>1, LowTemplate, LowTranslated
  <2>3. state # "Intro" /\ (state = "GameOver" \/ block \cap DOMAIN m.debris = {})
    BY DEF blockIntersectsDebris
  <2> HIDE DEF block, state
  <2>4. /\ r.block = block /\ r.state = state /\ r.teleportDown = m.teleportDown
        /\ r.debris = m.debris /\ r.rowsToDrop = m.rowsToDrop
        /\ r.rowsCleared = m.rowsCleared /\ r.level = m.level
    BY Fields DEF Sound, IsModel
  <2> HIDE DEF r
  <2> QED
    BY <1>2, <2>1, <2>2, <2>3, <2>4 DEF Upheld, LevelAhead, Pending, Clear
<1> QED
  BY <1>1, <1>2

LEMMA UpheldDrop ==
  ASSUME NEW m, Sound(m), Upheld(m)
  PROVE  /\ Upheld(updateRowsToDrop(m)) /\ updateRowsToDrop(m).block = m.block
         /\ updateRowsToDrop(m).state = m.state
<1>1. CASE m.rowsToDrop = {}
  BY <1>1 DEF updateRowsToDrop
<1>2. CASE m.rowsToDrop # {}
  <2> DEFINE y == Min(m.rowsToDrop)
             debris == dropRow(m.debris, y)
             r == [m EXCEPT !.debris = debris, !.rowsToDrop = m.rowsToDrop \ {y}]
  <2>1. IsModel(m) /\ DOMAIN m = DOMAIN newGame /\ DOMAIN m.debris \in SUBSET Cells
    BY DEF Sound, IsModel
  <2>2. y \in Rows /\ \A row \in m.rowsToDrop : y <= row
    BY <1>2, <2>1, FirstRow
  <2>3. updateRowsToDrop(m) = r
    BY <1>2 DEF updateRowsToDrop
  <2> HIDE DEF y
  <2>4. \A row \in m.rowsToDrop \ {y} : countPointsInRow(debris, row) = PlayWidth
    <3> SUFFICES ASSUME NEW row \in m.rowsToDrop \ {y}
                 PROVE  countPointsInRow(debris, row) = PlayWidth
      OBVIOUS
    <3>1. row \in Rows /\ countPointsInRow(m.debris, row) = PlayWidth
      BY <2>1 DEF IsModel, Upheld, Pending
    <3>2. row > y
      BY <2>2, <3>1, Sizes DEF Rows
    <3> QED
      BY <2>1, <2>2, <3>1, <3>2, RowsBelowKept
  <2> HIDE DEF debris
  <2>5. /\ r.block = m.block /\ r.state = m.state /\ r.teleportDown = m.teleportDown
        /\ r.debris = debris /\ r.rowsToDrop = m.rowsToDrop \ {y}
        /\ r.rowsCleared = m.rowsCleared /\ r.level = m.level
    BY <2>1, Fields
  <2> HIDE DEF r
  <2> QED
    BY <2>3, <2>4, <2>5 DEF Upheld, LevelAhead, Pending
<1> QED
  BY <1>1, <1>2

LEMMA UpheldTeleport ==
  ASSUME NEW m, Sound(m), Upheld(m), m.block # {}
  PROVE  /\ Upheld(updateTeleportDown(m)) /\ (Clear(m) => Clear(updateTeleportDown(m)))
         /\ Falls(m.block, updateTeleportDown(m).block)
<1> DEFINE n     == [m EXCEPT !.teleportDown = m.teleportDown \/ m.input.teleportDown]
           score == n.score + scoreForEachRowTeleported
           moved == moveBlock(n, down)
           r     == [moved EXCEPT !.score = score]
<1>1. IsModel(m) /\ DOMAIN m = DOMAIN newGame
  BY DEF Sound, IsModel
<1>2. /\ DOMAIN n = DOMAIN newGame /\ n.block = m.block /\ n.state = m.state
      /\ n.input = m.input /\ n.teleportDown = (m.teleportDown \/ m.input.teleportDown)
      /\ n.moveTimer = m.moveTimer /\ n.debris = m.debris
      /\ n.rowsToDrop = m.rowsToDrop /\ n.rowsCleared = m.rowsCleared
      /\ n.level = m.level /\ n.score = m.score
  BY <1>1, Fields
<1> HIDE DEF n
<1>3. Sound(n)
  <2>1. (m.teleportDown \/ m.input.teleportDown) \in BOOLEAN
    OBVIOUS
  <2>2. IsModel(n)
    BY <1>1, <1>2, <2>1 DEF IsModel
  <2> QED
    BY <1>2, <2>2 DEF Sound
<1>4. Upheld(n) /\ (Clear(m) => Clear(n))
  BY <1>2 DEF Upheld, LevelAhead, Pending, Clear
<1>5. /\ Upheld(moved) /\ Sound(moved) /\ (Clear(n) => Clear(moved))
      /\ Falls(n.block, moved.block)
  BY <1>3, <1>4, UpheldMove, SoundMove DEF Moves
<1> HIDE DEF score, moved
<1>6. /\ r.block = moved.block /\ r.state = moved.state /\ r.teleportDown = moved.teleportDown
      /\ r.debris = moved.debris /\ r.rowsToDrop = moved.rowsToDrop
      /\ r.rowsCleared = moved.rowsCleared /\ r.level = moved.level
  BY <1>5, Fields DEF Sound, IsModel
<1> HIDE DEF r
<1>7. Upheld(r) /\ (Clear(moved) => Clear(r))
  BY <1>5, <1>6 DEF Upheld, LevelAhead, Pending, Clear
<1>8. updateTeleportDown(m) \in {r, n}
  BY DEF updateTeleportDown, r, moved, score, n
<1>9. Falls(m.block, m.block)
  BY FallsSelf DEF Sound, IsModel, Upheld
<1> QED
  BY <1>2, <1>4, <1>5, <1>6, <1>7, <1>8, <1>9

LEMMA UpheldRotate ==
  ASSUME NEW m, Sound(m), Upheld(m)
  PROVE  /\ Upheld(updateRotateBlock(m)) /\ (Clear(m) => Clear(updateRotateBlock(m)))
         /\ Falls(m.block, updateRotateBlock(m).block)
<1>1. m.block \in SUBSET Vec /\ Low(m.block) /\ DOMAIN m = DOMAIN newGame
  BY DEF Sound, IsModel, Upheld
<1>2. ASSUME NEW turned \in {rotateClockwise(m.block), rotateCounterClockwise(m.block)}
      PROVE  LET b == safeRotateBlock(m, turned)
             IN  /\ Low(b) /\ (m.block = {} <=> b = {})
                 /\ b = m.block \/ b \cap DOMAIN m.debris = {}
                 /\ Falls(m.block, b)
  <2> DEFINE clamped == clampBlockToPlayBounds(turned)
  <2>1. turned \in SUBSET Vec /\ Low(turned) /\ (m.block # {} => turned # {})
    BY <1>1, LowTurned
  <2>2. Low(clamped) /\ (m.block # {} => clamped # {})
    BY <2>1, LowClamped
  <2>3. m.block = {} => clamped = {}
    BY EmptyBlock DEF rotateClockwise, rotateCounterClockwise, rotate, clampBlockToPlayBounds
  <2>4. \/ safeRotateBlock(m, turned) = m.block
        \/ safeRotateBlock(m, turned) = clamped /\ clamped \cap DOMAIN m.debris = {}
    BY DEF safeRotateBlock, blockIntersectsWorld, blockIntersectsDebris
  <2>5. Falls(m.block, clamped) /\ Falls(m.block, m.block)
    BY <1>1, FallsTurned, FallsSelf
  <2> HIDE DEF clamped
  <2> QED
    BY <1>1, <2>2, <2>3, <2>4, <2>5
<1> DEFINE b == CASE m.input.rotate = 1  -> safeRotateBlock(m, rotateClockwise(m.block))
                  [] m.input.rotate = -1 -> safeRotateBlock(m, rotateCounterClockwise(m.block))
                  [] OTHER               -> m.block
<1>3. updateRotateBlock(m) = [m EXCEPT !.block = b]
  BY <1>1, Fields DEF updateRotateBlock
<1>4. \/ b = safeRotateBlock(m, rotateClockwise(m.block))
      \/ b = safeRotateBlock(m, rotateCounterClockwise(m.block))
      \/ b = m.block
  OBVIOUS
<1> HIDE DEF b
<1>5. /\ Low(b) /\ (m.block = {} <=> b = {}) /\ (b = m.block \/ b \cap DOMAIN m.debris = {})
      /\ Falls(m.block, b)
  BY <1>1, <1>2, <1>4, FallsSelf
<1>6. Upheld(updateRotateBlock(m)) /\ (b \cap DOMAIN m.debris = {} => Clear(updateRotateBlock(m)))
  BY <1>3, <1>5, UpheldNewBlock
<1>7. b = m.block => (Clear(m) => Clear(updateRotateBlock(m)))
  <2>1. /\ updateRotateBlock(m).block = b /\ updateRotateBlock(m).state = m.state
        /\ updateRotateBlock(m).debris = m.debris
    BY <1>1, <1>3, Fields
  <2> QED
    BY <2>1 DEF Clear
<1>8. updateRotateBlock(m).block = b
  BY <1>1, <1>3, Fields
<1> QED
  BY <1>5, <1>6, <1>7, <1>8

LEMMA UpheldPlayerMove ==
  ASSUME NEW m, Sound(m), Upheld(m)
  PROVE  /\ Upheld(updatePlayerMove(m)) /\ (Clear(m) => Clear(updatePlayerMove(m)))
         /\ Falls(m.block, updatePlayerMove(m).block)
<1>1. m.input.move \in Moves
  BY DEF Sound, IsModel, Moves
<1> QED
  BY <1>1, UpheldMove DEF updatePlayerMove

LEMMA UpheldTimer ==
  ASSUME NEW m, Sound(m), Upheld(m)
  PROVE  /\ Upheld(updateMoveTimer(m)) /\ (Clear(m) => Clear(updateMoveTimer(m)))
         /\ Falls(m.block, updateMoveTimer(m).block)
<1> DEFINE delta == TickDuration * moveTimerRateForLevel(m.level)
           timer == IF m.input.move.y > 0 THEN Timer!reset(m.moveTimer)
                    ELSE Timer!update(m.moveTimer, delta)
           n     == [m EXCEPT !.moveTimer = timer]
<1>1. IsModel(m) /\ DOMAIN m = DOMAIN newGame /\ m.moveTimer \in Timers
  BY DEF Sound, IsModel, Timers
<1>2. delta \in Nat /\ delta <= TimerDuration
  BY <1>1, FrameTime DEF IsModel
<1>3. timer \in Timers
  <2> HIDE DEF delta
  <2> QED
    BY <1>1, <1>2, TimerType DEF timer
<1>4. updateMoveTimer(m) \in {moveBlock(n, down), n}
  BY DEF updateMoveTimer
<1> HIDE DEF timer
<1>5. /\ DOMAIN n = DOMAIN newGame /\ n.block = m.block /\ n.state = m.state
      /\ n.input = m.input /\ n.teleportDown = m.teleportDown
      /\ n.moveTimer = timer /\ n.debris = m.debris
      /\ n.rowsToDrop = m.rowsToDrop /\ n.rowsCleared = m.rowsCleared
      /\ n.level = m.level /\ n.score = m.score
  BY <1>1, Fields
<1> HIDE DEF n
<1>6. Sound(n)
  <2>1. IsModel(n)
    BY <1>1, <1>3, <1>5 DEF IsModel, Timers
  <2> QED
    BY <1>5, <2>1 DEF Sound
<1>7. Upheld(n) /\ (Clear(m) => Clear(n))
  BY <1>5 DEF Upheld, LevelAhead, Pending, Clear
<1>8. /\ Upheld(moveBlock(n, down)) /\ (Clear(n) => Clear(moveBlock(n, down)))
      /\ Falls(n.block, moveBlock(n, down).block)
  BY <1>6, <1>7, UpheldMove DEF Moves
<1>9. Falls(m.block, m.block)
  BY FallsSelf DEF Sound, IsModel, Upheld
<1> QED
  BY <1>4, <1>5, <1>7, <1>8, <1>9
-----------------------------------------------------------------------------
(* The message Key, and a frame.                                           *)

LEMMA UpheldNewGame == Upheld(newGame)
<1>1. /\ newGame.state = "Intro" /\ newGame.teleportDown = FALSE /\ newGame.block = {}
      /\ newGame.rowsToDrop = {} /\ newGame.rowsCleared = 0 /\ newGame.level = 1
  BY EmptyBlock DEF newGame
<1>2. 0 < rowsRequiredForLevel(1)
  BY RangeEnd DEF rowsRequiredForLevel
<1> QED
  BY <1>1, <1>2 DEF Upheld, LevelAhead, Pending, Low

(* A key changes neither block nor rows, or starts a new game.             *)
LEMMA UpheldKey ==
  ASSUME NEW m, Sound(m), Upheld(m), NEW key
  PROVE  LET r == processInput(m, key)
         IN  /\ Upheld(r)
             /\ \/ r = newGame
                \/ r.block = m.block /\ r.debris = m.debris /\ r.rowsToDrop = m.rowsToDrop
<1> DEFINE Same(r) == r.block = m.block /\ r.debris = m.debris /\ r.rowsToDrop = m.rowsToDrop
<1>1. DOMAIN m = DOMAIN newGame /\ m.state \in {"Intro", "Playing", "GameOver"}
  BY DEF Sound, IsModel
<1>2. CASE m.state = "Intro"
  <2> DEFINE r == [m EXCEPT !.state = "Playing"]
  <2>1. /\ r.block = m.block /\ r.state = "Playing" /\ r.teleportDown = m.teleportDown
        /\ r.debris = m.debris /\ r.rowsToDrop = m.rowsToDrop
        /\ r.rowsCleared = m.rowsCleared /\ r.level = m.level
    BY <1>1, Fields
  <2>2. processInput(m, key) \in {m, r}
    BY <1>2 DEF processInput, updateStartGame
  <2> HIDE DEF r
  <2> QED
    BY <2>1, <2>2 DEF Upheld, LevelAhead, Pending
<1>3. CASE m.state = "Playing"
  <2> DEFINE n     == updateCheatLevel(m, key)
             input == [move |-> moveInput(key), rotate |-> IF key = "up" THEN 1 ELSE 0,
                       teleportDown |-> key = "spacebar"]
             r     == [n EXCEPT !.input = input]
  <2>1. /\ DOMAIN n = DOMAIN newGame /\ n.block = m.block /\ n.state = m.state
        /\ n.teleportDown = m.teleportDown /\ n.debris = m.debris
        /\ n.rowsToDrop = m.rowsToDrop /\ n.rowsCleared = m.rowsCleared
        /\ n.level \in {m.level, m.level + 1}
    BY <1>1, Fields DEF updateCheatLevel
  <2>2. processInput(m, key) = r
    BY <1>3 DEF processInput, updatePlayerInput
  <2> HIDE DEF n, input
  <2>3. /\ r.block = m.block /\ r.state = m.state /\ r.teleportDown = m.teleportDown
        /\ r.debris = m.debris /\ r.rowsToDrop = m.rowsToDrop
        /\ r.rowsCleared = m.rowsCleared /\ r.level = n.level
    BY <2>1, Fields
  <2> HIDE DEF r
  <2>4. m.rowsCleared < rowsRequiredForLevel(n.level)
    <3>1. m.level \in Nat \ {0} /\ m.rowsCleared \in Nat
      BY DEF Sound, IsModel
    <3>2. /\ rowsRequiredForLevel(m.level) \in Nat /\ rowsRequiredForLevel(m.level + 1) \in Nat
          /\ rowsRequiredForLevel(m.level) + 2 * RowsPerLevel <= rowsRequiredForLevel(m.level + 1)
      BY <3>1, NextLevel
    <3>3. m.rowsCleared < rowsRequiredForLevel(m.level)
      BY DEF Upheld, LevelAhead
    <3>4. m.rowsCleared < rowsRequiredForLevel(m.level + 1)
      BY <3>1, <3>2, <3>3, RangeEnd
    <3> QED
      BY <2>1, <3>3, <3>4
  <2> QED
    BY <2>2, <2>3, <2>4 DEF Upheld, LevelAhead, Pending
<1>4. CASE m.state = "GameOver"
  BY <1>4, UpheldNewGame DEF processInput, updateNewGame
<1> QED
  BY <1>1, <1>2, <1>3, <1>4

(* The moves of a frame, once the block has appeared and the row dropped.  *)
LEMMA UpheldTick ==
  ASSUME NEW m, Sound(m), Upheld(m), NEW t \in BlockPool, m.state = "Playing", tick(m, t)
  PROVE  /\ Upheld(model)'
         /\ Clear(updateRowsToDrop(updateSpawnBlock(m, t))) => Clear(model)'
         /\ Falls(updateSpawnBlock(m, t).block, model'.block)
<1> DEFINE spawned == updateSpawnBlock(m, t)
           dropped == updateRowsToDrop(spawned)
           teleported == updateTeleportDown(dropped)
           rotated == updateRotateBlock(teleported)
           moved   == updatePlayerMove(rotated)
<1>1. Sound(spawned) /\ Upheld(spawned) /\ spawned.block # {}
  BY SoundSpawn, UpheldSpawn
<1>2. model' = updateMoveTimer(moved)
  BY DEF tick
<1> HIDE DEF spawned
<1>3. Sound(dropped) /\ Upheld(dropped) /\ dropped.block = spawned.block
  BY <1>1, SoundDrop, UpheldDrop
<1> HIDE DEF dropped
<1>4. /\ Sound(teleported) /\ Upheld(teleported) /\ (Clear(dropped) => Clear(teleported))
      /\ Falls(dropped.block, teleported.block)
  BY <1>1, <1>3, SoundTeleport, UpheldTeleport
<1> HIDE DEF teleported
<1>5. /\ Sound(rotated) /\ Upheld(rotated) /\ (Clear(teleported) => Clear(rotated))
      /\ Falls(teleported.block, rotated.block)
  BY <1>4, SoundRotate, UpheldRotate
<1> HIDE DEF rotated
<1>6. /\ Sound(moved) /\ Upheld(moved) /\ (Clear(rotated) => Clear(moved))
      /\ Falls(rotated.block, moved.block)
  BY <1>5, SoundPlayerMove, UpheldPlayerMove
<1> HIDE DEF moved
<1>7. /\ Sound(model') /\ Upheld(model') /\ (Clear(moved) => Clear(model'))
      /\ Falls(moved.block, model'.block)
  BY <1>2, <1>6, SoundTimer, UpheldTimer
<1>8. Upheld(model') /\ (Clear(dropped) => Clear(model'))
  BY <1>4, <1>5, <1>6, <1>7
<1>9. Falls(dropped.block, model'.block)
  <2> DEFINE IsBlock(b) == b \in SUBSET Vec /\ Low(b)
  <2>1. /\ IsBlock(dropped.block) /\ IsBlock(teleported.block) /\ IsBlock(rotated.block)
        /\ IsBlock(moved.block) /\ IsBlock(model'.block)
    BY <1>3, <1>4, <1>5, <1>6, <1>7 DEF Sound, IsModel, Upheld
  <2>2. Falls(dropped.block, rotated.block)
    BY <1>4, <1>5, <2>1, FallsOn
  <2>3. Falls(dropped.block, moved.block)
    BY <1>6, <2>1, <2>2, FallsOn
  <2> QED
    BY <1>7, <2>1, <2>3, FallsOn
<1> QED
  BY <1>3, <1>8, <1>9 DEF dropped, spawned

LEMMA UpheldFrame ==
  ASSUME Sound(model), Upheld(model), NEW key, NEW template \in BlockPool,
         Frame(key, template)
  PROVE  Upheld(model)'
<1> DEFINE m == processInput(model, key)
<1>1. Sound(m) /\ Upheld(m) /\ tick(m, template)
  BY SoundKey, UpheldKey DEF Frame
<1> HIDE DEF m
<1>2. CASE m.state = "Playing"
  BY <1>1, <1>2, UpheldTick
<1>3. CASE m.state # "Playing"
  BY <1>1, <1>3 DEF tick
<1> QED
  BY <1>2, <1>3

(* The block gets into the debris by a row that drops, or by appearing.    *)
LEMMA OverlapFrame ==
  ASSUME Sound(model), Upheld(model), NEW key, NEW template \in BlockPool,
         Frame(key, template),
         model.block \cap DOMAIN debrisAfterDrop = {},
         model.block # empty \/ model.rowsToDrop = {},
         Overlap(model')
  PROVE  model'.state = "GameOver"
<1> DEFINE m       == processInput(model, key)
           spawned == updateSpawnBlock(m, template)
<1>1. /\ Sound(m) /\ Upheld(m) /\ tick(m, template)
      /\ \/ m = newGame
         \/ m.block = model.block /\ m.debris = model.debris /\ m.rowsToDrop = model.rowsToDrop
  BY SoundKey, UpheldKey DEF Frame
<1> HIDE DEF m
<1>2. CASE m.state = "Playing"
  <2>1. m.block = model.block /\ m.debris = model.debris /\ m.rowsToDrop = model.rowsToDrop
    BY <1>1, <1>2 DEF newGame
  <2>2. /\ spawned.debris = m.debris /\ spawned.rowsToDrop = m.rowsToDrop
        /\ IF m.block # {} THEN spawned = m ELSE Clear(spawned)
    BY <1>1, <1>2, UpheldSpawn
  <2>3. CASE m.block # {}
    <3>1. /\ updateRowsToDrop(m).block = m.block
          /\ updateRowsToDrop(m).debris = updateRowsToDrop(model).debris
      <4>1. DOMAIN m = DOMAIN newGame /\ DOMAIN model = DOMAIN newGame
        BY <1>1 DEF Sound, IsModel
      <4> QED
        BY <2>1, <4>1, Fields DEF updateRowsToDrop
    <3>2. Clear(updateRowsToDrop(spawned))
      BY <2>1, <2>2, <2>3, <3>1 DEF Clear, debrisAfterDrop
    <3> QED
      BY <1>1, <1>2, <3>2, UpheldTick DEF Clear, Overlap, blockIntersectsDebris
  <2>4. CASE m.block = {}
    <3>1. updateRowsToDrop(spawned) = spawned
      BY <2>1, <2>2, <2>4, EmptyBlock DEF updateRowsToDrop
    <3> QED
      BY <1>1, <1>2, <2>2, <2>4, <3>1, UpheldTick DEF Clear, Overlap, blockIntersectsDebris
  <2> QED
    BY <2>3, <2>4
<1>3. CASE m.state # "Playing"
  <2>1. model' = m /\ m.state \in {"Intro", "Playing", "GameOver"}
    BY <1>1, <1>3 DEF tick, Sound, IsModel
  <2> QED
    BY <1>1, <1>3, <2>1 DEF Upheld, Overlap, blockIntersectsDebris
<1> QED
  BY <1>2, <1>3

LEMMA FallFrame ==
  ASSUME Sound(model), Upheld(model), NEW key, NEW template \in BlockPool,
         Frame(key, template), model.block # empty, model'.block # empty
  PROVE  boundsCenter(model'.block).y >= boundsCenter(model.block).y
<1> DEFINE m == processInput(model, key)
<1>1. /\ Sound(m) /\ Upheld(m) /\ tick(m, template)
      /\ m = newGame \/ m.block = model.block
  BY SoundKey, UpheldKey DEF Frame
<1> HIDE DEF m
<1>2. CASE m.state = "Playing"
  <2>1. m.block = model.block /\ m.block # {}
    BY <1>1, <1>2, EmptyBlock DEF newGame
  <2>2. updateSpawnBlock(m, template).block = m.block
    BY <1>1, <1>2, <2>1, UpheldSpawn
  <2>3. Falls(m.block, model'.block)
    BY <1>1, <1>2, <2>2, UpheldTick
  <2> QED
    BY <2>1, <2>3, EmptyBlock DEF Falls
<1>3. CASE m.state # "Playing"
  <2>1. model' = m
    BY <1>1, <1>3 DEF tick
  <2>2. m.block = model.block
    BY <1>1, <2>1 DEF newGame
  <2>3. Falls(m.block, m.block)
    BY <1>1, FallsSelf DEF Sound, IsModel, Upheld
  <2> QED
    BY <2>1, <2>2, <2>3, EmptyBlock DEF Falls
<1> QED
  BY <1>2, <1>3
-----------------------------------------------------------------------------
LEMMA UpheldInvariant == Spec => []Upheld(model)
<1>1. Init => Upheld(model)
  BY UpheldNewGame DEF Init
<1>2. Sound(model) /\ Upheld(model) /\ [Next]_vars => Upheld(model)'
  <2> SUFFICES ASSUME Sound(model), Upheld(model), [Next]_vars PROVE Upheld(model)'
    OBVIOUS
  <2>1. CASE Next
    BY <2>1, UpheldFrame DEF Next
  <2>2. CASE UNCHANGED vars
    BY <2>2 DEF vars
  <2> QED
    BY <2>1, <2>2
<1> QED
  BY <1>1, <1>2, SoundInvariant, PTL DEF Spec

(* PendingRowsFull: whatever locks and drops come between, the row that is *)
(* dropped is full (updateRowsToDrop, addBlockToDebris).                   *)
THEOREM PendingStayFull == Spec => []PendingRowsFull
<1>1. Upheld(model) => PendingRowsFull
  BY DEF Upheld, PendingRowsFull
<1> QED
  BY <1>1, UpheldInvariant, PTL

(* LevelNotBehind: one level per lock is always enough, for every number   *)
(* of rows per level and every pool that fits (addBlockToDebris).          *)
THEOREM LevelKeepsUp == Spec => []LevelNotBehind
<1>1. Upheld(model) => LevelNotBehind
  BY DEF Upheld, LevelNotBehind
<1> QED
  BY <1>1, UpheldInvariant, PTL

(* TeleportNeedsBlock: in whichever of its moves the block locks, the fast *)
(* drop ends with it (updateTeleportDown, addBlockToDebris).               *)
THEOREM TeleportEnds == Spec => []TeleportNeedsBlock
<1>1. Upheld(model) => TeleportNeedsBlock
  BY EmptyBlock DEF Upheld, TeleportNeedsBlock
<1> QED
  BY <1>1, UpheldInvariant, PTL

(* NoOverlapByMoving: no turn, clamp, move or lapse of the timer takes the *)
(* block into the debris (moveBlock, safeRotateBlock).                     *)
THEOREM MovesStayClear == Spec => NoOverlapByMoving
<1> DEFINE Step == /\ model.block \cap DOMAIN debrisAfterDrop = {}
                   /\ model.block # empty \/ model.rowsToDrop = {}
                   /\ Overlap(model')
                   => model'.state = "GameOver"
<1>1. Sound(model) /\ Upheld(model) /\ [Next]_vars => [Step]_vars
  <2> SUFFICES ASSUME Sound(model), Upheld(model), Next PROVE Step
    OBVIOUS
  <2> QED
    BY OverlapFrame DEF Next
<1> QED
  BY <1>1, SoundInvariant, UpheldInvariant, PTL DEF Spec, NoOverlapByMoving

(* BlockNeverRises: a turn keeps the centre, what pushes a block back into *)
(* the playable area only pushes it down, and so do moves                  *)
(* (clampBlockToPlayBounds, moveBlock).                                    *)
THEOREM NeverRises == Spec => BlockNeverRises
<1> DEFINE Step == model.block # empty /\ model'.block # empty
                   => boundsCenter(model'.block).y >= boundsCenter(model.block).y
<1>1. Sound(model) /\ Upheld(model) /\ [Next]_vars => [Step]_vars
  <2> SUFFICES ASSUME Sound(model), Upheld(model), Next PROVE Step
    OBVIOUS
  <2> QED
    BY FallFrame DEF Next
<1> QED
  BY <1>1, SoundInvariant, UpheldInvariant, PTL DEF Spec, BlockNeverRises
=============================================================================
