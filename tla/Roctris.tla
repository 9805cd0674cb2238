------------------------------ MODULE Roctris ------------------------------
(***************************************************************************)
(* The rules of the game: the model of game/roctris.roc, the systems that  *)
(* update it and the order in which a frame runs them.                     *)
(*                                                                         *)
(* One step of the specification is one iteration of the game loop: the    *)
(* message Key (the key pressed, or none) and then the message Tick.  The  *)
(* random number that picks the next block is a free choice from the pool, *)
(* colours are left out, and the frame counter, which only seeds the       *)
(* random numbers, is left out with them.                                  *)
(***************************************************************************)
EXTENDS Block, Bags

CONSTANTS
  PlayWidth, PlayHeight,  \* the playable area, 10 by 20 cells in the game
  BlockPool,              \* the templates, seven tetrominoes in the game
  Keys,                   \* the keys that can be pressed, "none" among them
  RowsPerLevel,           \* 10 in the game
  TimerDuration,          \* one second, in time units
  TickDuration,           \* one frame at rate 1, in time units
  MaxRate,                \* of the timer, 10 in the game
  RangeIncludesEnd        \* does List.range {start: At a, end: At b} hold b?

ASSUME RangeAssumption == RangeIncludesEnd \in BOOLEAN

(* The rows below a block that the range of its rows holds.                *)
rangeEnd == IF RangeIncludesEnd THEN 1 ELSE 0

ASSUME PlayAssumption ==
  PlayWidth \in Nat \ {0} /\ PlayHeight \in Nat \ {0}

(* Templates lie at the origin, and are narrower than the playable area    *)
(* whichever way they are turned.                                          *)
ASSUME BlockPoolAssumption ==
  \A t \in BlockPool :
    /\ t \in SUBSET [x : 0 .. PlayWidth - 2, y : 0 .. PlayWidth - 2]
    /\ t # {} /\ min(t) = zero /\ size(t).y <= PlayHeight

(* No block is high enough to earn two levels at once.                     *)
ASSUME RowsPerLevelAssumption ==
  /\ RowsPerLevel \in Nat \ {0}
  /\ \A t \in BlockPool : size(t).x + rangeEnd <= 2 * RowsPerLevel
                       /\ size(t).y + rangeEnd <= 2 * RowsPerLevel

(* A frame never takes the time of more than one lapse of the timer.       *)
ASSUME TimerAssumption ==
  /\ TimerDuration \in Nat \ {0} /\ TickDuration \in Nat \ {0} /\ MaxRate \in Nat \ {0}
  /\ TickDuration * MaxRate <= TimerDuration

VARIABLE model

vars == <<model>>

Timer == INSTANCE Timer
-----------------------------------------------------------------------------
(* Configuration.                                                          *)

playMin == zero
playMax == vec2(PlayWidth - 1, PlayHeight - 1)

down  == vec2(0, 1)
left  == vec2(-1, 0)
right == vec2(1, 0)

scoreForRowsCleared(level, rows) ==
  level * (CASE rows = 4 -> 1200 [] rows = 3 -> 300 [] rows = 2 -> 100 [] OTHER -> 40)

scoreForEachRowTeleported == 1

(* The loop of the code adds RowsPerLevel * l for l from level down to 1.  *)
rowsRequiredForLevel(level) == RowsPerLevel * ((level * (level + 1)) \div 2)

(* Variant: the rate is not limited.                                       *)
moveTimerRateForLevel_Unlimited(level) == 1 + (level - 1)

moveTimerRateForLevel(level) ==
  IF 1 + (level - 1) <= MaxRate THEN 1 + (level - 1) ELSE MaxRate
-----------------------------------------------------------------------------
(* The model.  Block.empty is the empty set of points.  The points of all  *)
(* the blocks of the debris are one bag: a cell that two blocks cover is   *)
(* in it twice.  The rows of rowsToDrop are a set: the list of the code is *)
(* in descending order and always read from its end, the smallest row.     *)

emptyPlayerInput == [move |-> zero, rotate |-> 0, teleportDown |-> FALSE]

newGame ==
  [state |-> "Intro", input |-> emptyPlayerInput, teleportDown |-> FALSE,
   moveTimer |-> Timer!create(TimerDuration), block |-> empty, debris |-> EmptyBag,
   rowsToDrop |-> {}, rowsCleared |-> 0, level |-> 1, score |-> 0]
-----------------------------------------------------------------------------
(* The message Key.                                                        *)

moveInput(key) ==
  CASE key = "right" -> right
    [] key = "left"  -> left
    [] key = "down"  -> down
    [] OTHER         -> zero

updatePlayerInput(m, key) ==
  [m EXCEPT !.input = [move         |-> moveInput(key),
                       rotate       |-> IF key = "up" THEN 1 ELSE 0,
                       teleportDown |-> key = "spacebar"]]

updateCheatLevel(m, key) ==
  IF key = "ctrlUp" THEN [m EXCEPT !.level = @ + 1] ELSE m

updateNewGame(m, key) == IF key = "r" THEN newGame ELSE m

updateStartGame(m, key) ==
  IF key = "spacebar" THEN [m EXCEPT !.state = "Playing"] ELSE m

processInput(m, key) ==
  CASE m.state = "Intro"    -> updateStartGame(m, key)
    [] m.state = "Playing"  -> updatePlayerInput(updateCheatLevel(m, key), key)
    [] m.state = "GameOver" -> updateNewGame(m, key)
-----------------------------------------------------------------------------
(* Collisions.                                                             *)

blockIntersectsPlayBounds(block) ==
  \/ min(block).x < 0 \/ min(block).y < 0
  \/ max(block).x > playMax.x \/ max(block).y > playMax.y

blockIntersectsDebris(block, debris) == block \cap DOMAIN debris # {}

(* Variant: the debris is forgotten.                                       *)
blockIntersectsWorld_BoundsOnly(block, m) == blockIntersectsPlayBounds(block)

blockIntersectsWorld(block, m) ==
  blockIntersectsPlayBounds(block) \/ blockIntersectsDebris(block, m.debris)
-----------------------------------------------------------------------------
(* The systems that the message Tick runs while the game is played.        *)

(* A block without room to appear ends the game; the rest of the frame     *)
(* still runs with it.                                                     *)
updateSpawnBlock(m, template) ==
  LET x     == playMin.x + PlayWidth \div 2 - (size(template).x + 1) \div 2
      block == translate(template, vec2(x, playMin.y))
  IN  IF m.block # empty THEN m
      ELSE [m EXCEPT !.block = block,
                     !.state = IF blockIntersectsDebris(block, m.debris)
                               THEN "GameOver" ELSE @]

(* Row y is taken away and what lies above it moves down by one.           *)
dropRow(debris, y) ==
  LET fallen(p) == IF p.y < y THEN add(p, down) ELSE p
      origin(q) == IF q.y <= y THEN subtract(q, down) ELSE q
  IN  [q \in {fallen(p) : p \in {p \in DOMAIN debris : p.y # y}} |-> debris[origin(q)]]

(* Variants: the bottom row first; the row above.                          *)
updateRowsToDrop_BottomFirst(m) ==
  IF m.rowsToDrop = {} THEN m
  ELSE [m EXCEPT !.debris = dropRow(@, Max(m.rowsToDrop)), !.rowsToDrop = @ \ {Max(@)}]

updateRowsToDrop_RowAbove(m) ==
  IF m.rowsToDrop = {} THEN m
  ELSE [m EXCEPT !.debris = dropRow(@, Min(m.rowsToDrop) - 1), !.rowsToDrop = @ \ {Min(@)}]

updateRowsToDrop(m) ==
  IF m.rowsToDrop = {} THEN m
  ELSE LET r == Min(m.rowsToDrop)
       IN  [m EXCEPT !.debris = dropRow(@, r), !.rowsToDrop = @ \ {r}]

(* A cell counts as often as blocks of the debris cover it.                *)
countPointsInRow(debris, y) ==
  Cardinality(UNION {{p} \X (1..debris[p]) : p \in {p \in DOMAIN debris : p.y = y}})

(* Variant: the last row of the block is left out.                         *)
rowsOf_WithoutLast(block) == min(block).y .. max(block).y - 1

rowsOf(block) == min(block).y .. max(block).y + rangeEnd

(* Variants: the level rises a row late, or a row early.                   *)
levelAfter_Late(level, rowsCleared) ==
  IF rowsCleared > rowsRequiredForLevel(level) THEN level + 1 ELSE level

levelAfter_Early(level, rowsCleared) ==
  IF rowsCleared + 1 >= rowsRequiredForLevel(level) THEN level + 1 ELSE level

levelAfter(level, rowsCleared) ==
  IF rowsCleared >= rowsRequiredForLevel(level) THEN level + 1 ELSE level

(* Variant: the rows score at the level that they raise.                   *)
scoreAfter_Raised(m, dropCount) ==
  IF dropCount > 0
  THEN m.score + scoreForRowsCleared(levelAfter(m.level, m.rowsCleared + dropCount), dropCount)
  ELSE m.score

scoreAfter(m, dropCount) ==
  IF dropCount > 0 THEN m.score + scoreForRowsCleared(m.level, dropCount) ELSE m.score

(* The block locks where it is.  The rows it fills replace whatever rows   *)
(* are still waiting to be dropped.                                        *)
addBlockToDebris(m) ==
  LET debris      == m.debris (+) SetToBag(m.block)
      rowsToDrop  == {y \in rowsOf(m.block) : countPointsInRow(debris, y) = PlayWidth}
      dropCount   == Cardinality(rowsToDrop)
      rowsCleared == m.rowsCleared + dropCount
  IN  [m EXCEPT !.debris       = debris,
                !.block        = empty,
                !.teleportDown = FALSE,
                !.rowsToDrop   = rowsToDrop,
                !.score        = scoreAfter(m, dropCount),
                !.rowsCleared  = rowsCleared,
                !.level        = levelAfter(@, rowsCleared)]

(* Variant: the right side is forgotten.                                   *)
clampedMove_LeftOnly(block, move) ==
  vec2(IF min(block).x <= playMin.x /\ move.x < 0 THEN 0 ELSE move.x, move.y)

(* A move is kept from leaving the playable area on the side that the      *)
(* block touches, the left one when it touches both.                       *)
clampedMove(block, move) ==
  vec2(CASE min(block).x <= playMin.x /\ move.x < 0 -> 0
         [] min(block).x >  playMin.x /\ max(block).x >= playMax.x /\ move.x > 0 -> 0
         [] OTHER -> move.x,
       move.y)

(* A move down that is not possible locks the block.  Variant: any move    *)
(* that is not possible does.                                              *)
moveBlock_AnyLocks(m, move) ==
  LET block == translate(m.block, clampedMove(m.block, move))
  IN  IF blockIntersectsDebris(block, m.debris) \/ max(block).y > playMax.y
      THEN addBlockToDebris(m)
      ELSE [m EXCEPT !.block = block]

moveBlock(m, move) ==
  LET block == translate(m.block, clampedMove(m.block, move))
  IN  IF blockIntersectsDebris(block, m.debris)
      THEN IF move.y > 0 THEN addBlockToDebris(m) ELSE m
      ELSE IF max(block).y > playMax.y THEN addBlockToDebris(m)
      ELSE [m EXCEPT !.block = block]

(* The score is computed before the move, and replaces the score after it. *)
(* Variant: the fast drop is stale in the same way.                        *)
updateTeleportDown_Kept(m) ==
  LET teleportState == [m EXCEPT !.teleportDown = @ \/ m.input.teleportDown]
      score == teleportState.score + scoreForEachRowTeleported
  IN  IF teleportState.teleportDown
      THEN [moveBlock(teleportState, down) EXCEPT !.score = score, !.teleportDown = TRUE]
      ELSE teleportState

updateTeleportDown(m) ==
  LET teleportState == [m EXCEPT !.teleportDown = @ \/ m.input.teleportDown]
      score == teleportState.score + scoreForEachRowTeleported
  IN  IF teleportState.teleportDown
      THEN [moveBlock(teleportState, down) EXCEPT !.score = score]
      ELSE teleportState

(* What moves a block that was turned over a side or over the top back; a  *)
(* block is not moved up.  Variant: it is.                                 *)
clampBlockToPlayBounds_Up(block) ==
  translate(block, vec2((IF min(block).x < playMin.x THEN playMin.x - min(block).x ELSE 0)
                          + (IF max(block).x > playMax.x THEN playMax.x - max(block).x ELSE 0),
                        IF max(block).y > playMax.y THEN playMax.y - max(block).y ELSE 0))

clampBlockToPlayBounds(block) ==
  LET dxMin == IF min(block).x < playMin.x THEN playMin.x - min(block).x ELSE 0
      dxMax == IF max(block).x > playMax.x THEN playMax.x - max(block).x ELSE 0
      dyMin == IF min(block).y < playMin.y THEN playMin.y - min(block).y ELSE 0
  IN  translate(block, vec2(dxMin + dxMax, dyMin))

(* A block that collides when it is turned and moved back is not turned.   *)
safeRotateBlock(m, rotated) ==
  IF blockIntersectsWorld(clampBlockToPlayBounds(rotated), m)
  THEN m.block
  ELSE clampBlockToPlayBounds(rotated)

updateRotateBlock(m) ==
  [m EXCEPT !.block = CASE m.input.rotate = 1  -> safeRotateBlock(m, rotateClockwise(@))
                        [] m.input.rotate = -1 -> safeRotateBlock(m, rotateCounterClockwise(@))
                        [] OTHER               -> @]

updatePlayerMove(m) == moveBlock(m, m.input.move)

(* Variant: any move of the player resets the timer.                       *)
updateMoveTimer_AnyMove(m) ==
  LET moveTimer == IF m.input.move # zero THEN Timer!reset(m.moveTimer)
                   ELSE Timer!update(m.moveTimer,
                                     TickDuration * moveTimerRateForLevel(m.level))
      newModel == [m EXCEPT !.moveTimer = moveTimer]
  IN  IF moveTimer.lapsed THEN moveBlock(newModel, down) ELSE newModel

updateMoveTimer(m) ==
  LET moveTimer == IF m.input.move.y > 0 THEN Timer!reset(m.moveTimer)
                   ELSE Timer!update(m.moveTimer,
                                     TickDuration * moveTimerRateForLevel(m.level))
      newModel == [m EXCEPT !.moveTimer = moveTimer]
  IN  IF moveTimer.lapsed THEN moveBlock(newModel, down) ELSE newModel

(* Every system reads the model that the one before it returns.            *)
tick(m, template) ==
  IF m.state = "Playing"
  THEN \E spawned    \in {updateSpawnBlock(m, template)} :
       \E dropped    \in {updateRowsToDrop(spawned)} :
       \E teleported \in {updateTeleportDown(dropped)} :
       \E rotated    \in {updateRotateBlock(teleported)} :
       \E moved      \in {updatePlayerMove(rotated)} :
         model' = updateMoveTimer(moved)
  ELSE model' = m
-----------------------------------------------------------------------------
Init == model = newGame

(* One iteration of the game loop.                                         *)
Frame(key, template) == \E m \in {processInput(model, key)} : tick(m, template)

Next == \E key \in Keys, template \in BlockPool : Frame(key, template)

Spec == Init /\ [][Next]_vars

(* The loop runs a frame every thirtieth of a second until the player      *)
(* quits, whatever the player does.                                        *)
FairSpec == Spec /\ WF_vars(Next)
-----------------------------------------------------------------------------
(* Properties.                                                             *)

Columns == 0 .. PlayWidth - 1
Rows    == 0 .. PlayHeight - 1
Cells   == [x : Columns, y : Rows]

(* A well formed model: the input of updatePlayerInput, a timer of         *)
(* Timer.create, unsigned counters, and no point held zero times.          *)
IsModel(m) ==
  /\ DOMAIN m = DOMAIN newGame
  /\ m.state \in {"Intro", "Playing", "GameOver"}
  /\ m.input \in [move : {zero, down, left, right}, rotate : {0, 1}, teleportDown : BOOLEAN]
  /\ m.teleportDown \in BOOLEAN
  /\ m.moveTimer \in [duration : {TimerDuration}, elapsed : 0 .. TimerDuration - 1,
                      lapsed : BOOLEAN]
  /\ m.block \in SUBSET Vec /\ DOMAIN m.debris \in SUBSET Vec
  /\ m.debris \in [DOMAIN m.debris -> Nat \ {0}]
  /\ m.rowsToDrop \in SUBSET Rows
  /\ m.rowsCleared \in Nat /\ m.level \in Nat \ {0} /\ m.score \in Nat

Inside(m) == m.block \subseteq Cells /\ DOMAIN m.debris \subseteq Cells

Pending(m) == \A y \in m.rowsToDrop : countPointsInRow(m.debris, y) = PlayWidth

(* The model stays well formed; the time that a lapse leaves over is less  *)
(* than the duration of the timer, at any level.                           *)
TypeOK == IsModel(model)

(* Neither the moving block nor the debris ever leaves the playable area,  *)
(* though moveBlock checks only the bottom and leaves the sides to the     *)
(* clamp of the move, and the teleport, the turn, the player's move and    *)
(* the timer all move the block in one frame.                              *)
InBounds == Inside(model)

(* A row that waits to be dropped is full: dropping the rows one frame at  *)
(* a time, while blocks lock in between, never takes away a row that the   *)
(* earlier drops have moved (updateRowsToDrop, addBlockToDebris).          *)
PendingRowsFull == Pending(model)

(* The fast drop ends with the block it was asked for: it is never still   *)
(* on when the next block appears (updateTeleportDown, addBlockToDebris).  *)
TeleportNeedsBlock == model.teleportDown => model.block # empty

LevelAhead(m) == m.rowsCleared < rowsRequiredForLevel(m.level)

(* The level keeps up with the rows cleared, though a lock raises it by at *)
(* most one however many rows it clears, and a cheat may raise it too.     *)
LevelNotBehind == LevelAhead(model)

(* Without the cheat the level is exactly the one that the rows cleared    *)
(* call for: no lock raises it early and none leaves it behind.            *)
LevelFollowsRows ==
  /\ LevelAhead(model)
  /\ model.level > 1 => rowsRequiredForLevel(model.level - 1) <= model.rowsCleared

Overlap(m) == blockIntersectsDebris(m.block, m.debris)

(* The debris as the next frame finds it once it has dropped its row.      *)
debrisAfterDrop == updateRowsToDrop(model).debris

(* The moving block enters the debris only when a row that is dropped      *)
(* pushes debris into it, the block that appears in the same frame         *)
(* included, or when it has no room to appear, which ends the game: the    *)
(* turn, the moves and the timer of a frame never do it.                   *)
NoOverlapByMoving ==
  [][/\ model.block \cap DOMAIN debrisAfterDrop = {}
     /\ model.block # empty \/ model.rowsToDrop = {}
     /\ Overlap(model')
     => model'.state = "GameOver"]_vars

FullRows(m) == {y \in Rows : countPointsInRow(m.debris, y) = PlayWidth}

(* A full row is forgotten, and then stays for ever, only if a block locks *)
(* while at least two rows wait: addBlockToDebris replaces the rows that   *)
(* wait, and one that waits alone is dropped before anything can lock.     *)
FullRowsPending ==
  [][/\ FullRows(model) \subseteq model.rowsToDrop
     /\ Cardinality(model.rowsToDrop) <= 1 \/ model'.block # empty
     => FullRows(model') \subseteq model'.rowsToDrop]_vars

(* The points in play: a cell of the debris counts as in countPointsInRow. *)
held(debris) == UNION {{p} \X (1..debris[p]) : p \in DOMAIN debris}

pointsInPlay(m) == Cardinality(m.block) + Cardinality(held(m.debris))

(* Points only appear with a block of BlockPool and only vanish a full row *)
(* at a time: no turn, clamp, lock or drop loses or doubles one.           *)
PointsConserved ==
  [][model.state = "Playing"
     => \E template \in BlockPool :
          pointsInPlay(model') = pointsInPlay(model)
            + (IF model.block = empty THEN Cardinality(template) ELSE 0)
            - (IF model.rowsToDrop = {} THEN 0 ELSE PlayWidth)]_vars

(* A block never rises: turning it, or pushing it back into the playable   *)
(* area after a turn, cannot undo the fall.                                *)
BlockNeverRises ==
  [][model.block # empty /\ model'.block # empty
     => boundsCenter(model'.block).y >= boundsCenter(model.block).y]_vars

(* The game as FallingBlocks sees it.                                      *)
appears(template) == updateSpawnBlock(newGame, template).block

copies(debris) == [p \in Cells |-> IF p \in DOMAIN debris THEN debris[p] ELSE 0]

Rules == INSTANCE FallingBlocks WITH
  Width <- PlayWidth, Height <- PlayHeight,
  Pieces <- {appears(template) : template \in BlockPool},
  phase <- model.state, piece <- model.block, pile <- copies(model.debris),
  waiting <- model.rowsToDrop

(* Whatever the order of its systems makes of a frame, the game keeps the  *)
(* rules: a block locks only where something supports it, whole and clear  *)
(* of the debris, though the teleport, the player and the timer all move   *)
(* it and each of them may lock it; a row takes away exactly itself; the   *)
(* rows that a lock fills wait (tick, moveBlock, addBlockToDebris).        *)
KeepsRules == Rules!Spec

teleporting == model'.teleportDown \/ model.teleportDown \/ model'.input.teleportDown

(* The score for the rows that a frame clears, at the level that the game  *)
(* has after the key of the frame, the cheat or another, and before those  *)
(* rows raise it.                                                          *)
rowScore(key) ==
  LET dropCount == model'.rowsCleared - model.rowsCleared
      level     == IF key = "ctrlUp" THEN model.level + 1 ELSE model.level
  IN  IF dropCount = 0 THEN 0 ELSE scoreForRowsCleared(level, dropCount)

(* A frame without a fast drop gives exactly the score for the rows that   *)
(* it clears, once, in whichever of its moves the block locks, and at the  *)
(* level before they raise it (addBlockToDebris).                          *)
ScoreAccounted ==
  [][\A key \in Keys, template \in BlockPool :
       Frame(key, template) /\ model'.state # "Intro" /\ ~teleporting
       => model'.score - model.score = rowScore(key)]_vars

(* "score to give for clearing N rows at once": whatever made the block    *)
(* lock, clearing rows gives their score.                                  *)
ClearedRowsScore ==
  [][model'.rowsCleared > model.rowsCleared
     => model'.score - model.score
          >= scoreForRowsCleared(model.level, model'.rowsCleared - model.rowsCleared)]_vars

(* A block does not hang in the air: whatever keys the player presses, it  *)
(* locks, though the down key resets the timer and a turn moves the block. *)
BlockLands ==
  (model.state = "Playing" /\ model.block # empty)
    ~> (model.block = empty \/ model.state # "Playing")
=============================================================================
