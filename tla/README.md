# Roctris: specification, model checking and proofs

This directory specifies Roctris, a falling block game for the terminal, written
in Roc (`src/game`) on a platform whose host is written in Rust
(`src/platform`). The modules are written from the source. TLC checks them on
small instances; the theorems of `GridProofs`, `RoctrisProofs`, `PointsProofs`, `DrawProofs`,
`GameLoopProofs`, `RocMemoryProofs`, `RocBuffersProofs` and `AlgorithmsProofs` are checked by TLAPS for every value of
the constants.

## 1. Inventory

| Component | Source | State it keeps | Operations |
|---|---|---|---|
| Game rules | `game/roctris.roc` | `Model`: state, input, fast drop, timer, moving block, debris, rows to drop, rows cleared, level, score, frame, random state | `update` with the messages `Key` and `Tick`; one function per system |
| Blocks and vectors | `game/Block.roc`, `game/Vec2.roc` | none | bounds, centre, translate, rotate, intersects |
| Timer | `game/Timer.roc` | duration, elapsed, lapsed | create, update, reset |
| Game loop | `game/GameLoop.roc`, `game/Keys.roc` | the model and the view last drawn | set up the terminal, one iteration per frame, restore the terminal |
| View | `game/View.roc`, `game/Color.roc`, `game/Util.roc`, `draw` of `roctris.roc` | a grid of cells in one list | init, string, rect, points |
| Terminal renderer | `game/TerminalRender.roc` | cursor and colours, while one list of commands is built | render, renderDelta |
| Platform host | `platform/crates/roc_host`, `platform/*.roc` | the terminal: raw mode, cursor, colours, queue of events | one effect per task, panic handler, `rust_main` |
| Memory of Roc values | `platform/crates/roc_std` | allocations, reference counts and capacities of lists, strings and boxes; decimal numbers | make, clone, drop, grow, reserve, slice and terminate a value; convert a number |
| Generated glue | `platform/crates/roc_app`, `platform/main-glue.roc` | none | declarations, one copy per architecture |
| Build scripts | `platform/main-build.roc`, `*.sh` | none of the running system | commands |

How they interact. `main` hands the new game and the two functions `update` and
`draw` to `GameLoop.run`. Every iteration of the loop asks the host for one key
(the empty string when there is none), calls `update` with `Key`, then with
`Tick`, calls `draw` on the result, writes the difference to the view before
to the terminal, sleeps, and goes round unless the key was `q` or control-c.
There is one thread and no shared state: the hard behaviour is what a long
sequence of frames does to one record that seven functions update in turn, each
reading what the one before it wrote.

Hard behaviours, and the property of each component that they put at risk:

* **Rules.** A lock is computed in the middle of a frame, in any of four moves
  (fast drop, turn, player, timer), while the rows of an earlier lock still
  wait: one waiting row is dropped per frame, so debris sinks under a block that
  is already falling. Rows that wait must stay full, points must neither be lost
  nor doubled, blocks must stay in the playable area and out of the debris, the
  score must be given once, the level must keep up with the rows, and blocks
  must land in the end.
* **Blocks.** Turning about a centre that is rounded towards zero must not make
  a block drift, change its size or depend on where it is.
* **Timer.** One duration is taken off per update; the time left over must stay
  below the duration at every level.
* **View and renderer.** Positions outside of the grid are mapped to the first
  cell; the renderer tracks the cursor itself to save commands, so what it
  believes must be where the cursor is.
* **Memory.** Strings, lists and boxes share allocations and count their references in three
  separate pieces of code, not atomically; a count that overflows or is set to read-only must
  never be taken for a count again, and sharing must not be seen by anyone who reads a value. Lists and
  strings grow in place when nobody shares them, are copied or moved when they must be, and are cut into
  slices that keep the address of their allocation where others keep their capacity. Decimal numbers are
  read digit by digit with a check of each product and sum.
* **Loop and host.** The terminal must be given back as it was found, also when
  a task fails or the program panics. Keys are read one per frame.

Every such place is listed, at its line, under `hazards` in `PROJECT.json`.

## 2. Plan

1. `Vec2`, `Block`, `Timer`, `Roctris`: the operations without state, and the
   rules as one module over the variable `model`. *Done.* `MCAlgorithms` and
   `MCRoctris` instantiate them.
2. `GridProofs`, `RoctrisProofs`: what a turn keeps, type correctness and the bounds of the
   playable area. *Done.*
3. `Terminal`, `TerminalRender`, `Screen`: a renderer that drives a terminal
   (cursor, colours, cells), and the abstract screen that it implements; then
   the first part of `GameLoopProofs`. *Done.*
4. `View` and `Draw`: the grid and what the game draws on it, composed with
   `Roctris`; then `AlgorithmsProofs`, of turns, rectangles and decimal numbers, and `DrawProofs`, of what
   the game draws. *Done.*
5. `GameLoop`: the life of the program, composed with `TerminalRender`: set up,
   frames, quitting, failing writes, panics, the queue of keys; then
   `GameLoopProofs`. *Done.*
6. `Storage` and `RocMemory`: reference counts and ownership of the values of the support
   library, and `RocValues`, which it implements; then `RocMemoryProofs`. `RocBuffers`: capacities,
   growing and slices, and `RocSequences`, which it implements; then `RocBuffersProofs`. `RocDec`: decimal
   numbers, with their theorems in `AlgorithmsProofs`. *Done*, but for the operations named in section 7.
7. `FallingBlocks`: an abstract game, without keys, turns, the timer and the order of the
   systems, that `Roctris` implements: pieces appear, move and land; rows are cleared. *Done.*
8. The rules, in `RoctrisProofs`: that rows which wait are full, that the fast drop ends with its
   block, that the level keeps up, that blocks never rise, and that only a drop
   or a spawn makes the block overlap the debris. *Done.* Then `PointsProofs`: that
   points are conserved, full rows remembered and rows scored once, and that
   the level is fair. *Done.*

## 3. The modules and the code

**`Vec2`** and **`Block`** translate the operations of `Vec2.roc` and `Block.roc`.
A list of points is a set, because the points of a block are distinct and no
function depends on their order; the colour of a block is left out. `Block.empty`
is the empty set, and the bounds of the empty set are the zero vector, as the
`Result.withDefault (vec2 0 0)` of the code makes them. `DivTrunc` rounds towards zero
as `Num.divTruncChecked` does, which matters below zero, where a turn passes
through.

**`Timer`** counts whole units instead of floating point seconds. A duration of 30
units with 1 unit per frame is the one second and the thirtieth of a second of the
code; the sum of thirty binary fractions can reach one second a frame later
than this, which no property depends on.

**`Roctris`** has one variable, `model`, a record with the fields of `Model` except
the frame counter and the random state. The counter only seeds the random
numbers, and the random number that picks a block is a free choice
from `BlockPool`. The random numbers of the code are pseudorandom, so the model
allows more sequences of blocks than the code can produce; every sequence of
the code is among them. `processInput` and each system of `update` is one operator from a model to
a model with the name it has in the code, and `tick` composes them in the
order of lines 438-445. One step, `Frame`, is one iteration of the loop: the
message `Key`, with any of `Keys`, and the message `Tick`.

* The debris is a bag of points instead of a list of blocks: every reader of
  `debris` looks at points only, and a bag keeps a cell that two blocks cover
  counted twice, as `countPointsInRow` does.
* `rowsToDrop` is a set: the list is in descending order and only its last
  element, the smallest row, is ever taken.
* `rowsRequiredForLevel` is the closed form of the loop of the code.
* `RangeIncludesEnd` is a constant because the code relies on a `List.range` that
  does not do what its documentation says, and quotes it (line 363): with `FALSE` the rows of a
  block are its own, as the code expects, with `TRUE` the one below is checked
  too, as the documentation says. Both are explored and the proofs hold for both.
* The sizes are constants: `PlayWidth` by `PlayHeight` is 10 by 20 in the game,
  `RowsPerLevel` 10, `MaxRate` 10, and the pool has seven tetrominoes.

The assumptions on the constants are named in the module. `BlockPoolAssumption`
asks that blocks lie at the origin and are at least one cell narrower than the
playable area whichever way they are turned (4 against 10 in the game): without
it a block could touch both sides and the clamp of line 387 could push it out.
`RowsPerLevelAssumption` asks that no block clears the rows of two levels at
once, `TimerAssumption` that a frame at the highest rate takes no more than one
lapse of the timer (10/30 against 1 second in the game).

**`FallingBlocks`** is the abstract game that `Roctris` implements (`KeepsRules`, by the instance `Rules` at the end of `Roctris`).
Its frame, `Play`, is a relation: a piece appears once there is none, the highest row that waits goes, and the
piece either is somewhere else in the area, clear of the pile if it was clear before (`Move`), or lands (`Land`): as many cells as it
has get one more piece, one of them stands on the floor or on the pile, and the rows that this fills wait. Which of the systems moves it, how often and
how far, is left open. The pile is a
function from every cell to a count, and `Without` says what each cell holds after a row went by the cell it looks up to, where `dropRow` says
where each point goes. The rows that wait lie between what the landing filled and all full rows, because a `List.range` that
holds its end may find a full row below the block again. Not part of it: levels, scores and the height of a move, which `BlockNeverRises` covers.

**`Terminal`** has one operator per effect that the host has on the terminal, from
a terminal to a terminal: cells, cursor, colours, raw mode and the visibility of the
cursor. What a terminal does with the bytes (a line feed that scrolls in the last
row, a grapheme that wraps behind the last column, a clear in the current
background) is outside of the program and marked external; it is modelled as
terminals with delayed wrapping do it. `goto` stops at the last column and row.

**`TerminalRender`** is the renderer, with the variables of the code: `state`
is the record that `addViewCommands` threads through the cells, `oldView` and `view`
the two arguments of `renderDelta`, `idx` the cell the fold has come to. The code
builds a list of commands and runs it; because the list of a cell depends
on nothing that running it changes, a step of the module builds and runs the commands of one cell. `Fail`
is a write that fails, between any two cells. The commands are kept apart where a property can tell: moving the cursor,
the colours, the grapheme, the end of a line. `FirstChangeAssumption` says
what `renderDelta` relies on without saying so: it starts from a cursor
at cell (0,0) that is in fact elsewhere, which goes wrong only if cell (1,0) is the first
to change. The game draws a blank first row in every view, which is `EdgesBlank` of `Draw`, so the
assumption holds for it. The terminal must have two rows more than the view:
a smaller one scrolls, and then nothing is promised.

**`Screen`** is what the renderer is for: the game hands over a view, the screen
shows it, the game hands over the next. `ShowsEveryView` is the refinement: the screen
shows the new view when the rendering is done and the old one until then.

**`View`** is the grid. Positions are natural numbers (the code has integers, but
`draw` goes neither left of nor above the grid) and a string is a sequence of
graphemes. `rectColumns` gives in closed form what the recursion of the code does, which `MCAlgorithms`
states as `RectIsRecursion` with the recursion written out.

**`Draw`** is `draw` of `roctris.roc` and what it calls, over a model of `Roctris`. Numbers are
printed by `intToStr` digit by digit; any other text is as many
letters as it has, and the colour of a block is one name: no property reads them.

**`GameLoop`** is `run` and `loop` of `GameLoop.roc` inside `rust_main` of the host. It
extends `TerminalRender`, whose actions run the rendering of a frame, and takes the game as two constant
operators `Update` and `Draw`, as the code takes two functions. `pc` is the task
that is next, `queue` the events that wait in the terminal; `pressed` and `handled` are
histories. `readNothing` covers a poll that times out, and a poll or a read
that fails, which the host maps to the empty string. The ways out are `cleanUp` (the player quit), a write that
fails and with it every task up to `rust_main`, `roc_panic`, and `abort`: the mode of the terminal
cannot be set and the `expect` of the host panics where panics abort. The other
terminal commands ignore their errors, so once a write failed they may do nothing.

`Roctris` is the instance of this loop in which one `Frame` is `Key` followed by `Tick`.
The two modules are checked apart, since the loop uses of a game no more than `GameAssumption` and
the rules nothing of a loop but the order of the two messages.

**`Storage`** is what all values of `roc_std` share: an allocation with its count, and the counting.
The counts are the `isize` of the code, with
`isize::MIN` as `-MaxRefs`: a single reference is counted as `-MaxRefs`, and 0 is read-only. The code counts in three
places: lists and boxes, which use `storage.rs`, stop at 0, and `BigString` adds one to whatever it finds, so that the
count of a read-only string goes on to 1 and beyond; `BigString_clone` and `BigString_dec` translate it as it
is.

**`RocMemory`** is the part of `roc_std` that the host uses, or may use, on the values that go to and come from the
game. `heap` has one cell per address of the allocator and `owned` the value that each variable of the host owns. A value is
at an address, or within its variable (a short string, an empty list: `onHeap`). What a value holds is a text, which no operation of this module looks into;
the capacity, which only growing a value reads, is left to `RocBuffers`. A conversion (`RocResult::ok`, `into_payload`, wrapping for another thread and back) consumes its
argument, so the value keeps its variable. A failing allocation, for which the code has a `todo!` or a null
pointer, is left out.

**`RocValues`** is what that promises: every variable has a value of its own. `ValuesKept` is the refinement, with what each variable
reads, through its address, as the value of the variable.

**`RocBuffers`** looks into the texts. An allocation is a sequence of cells, as many as were asked for, and a cell
that was never written holds `Uninit`; a list or a `BigString` is an address, a first cell, a length and
a capacity, and a short string is its characters (`SmallCapacity` is the 23 bytes of the code). `reserve`, `push`, `extend_from_slice`,
`from_iter`, cloning, dropping, `try_slice_range`, `split_once` and the two families of terminated copies are
one action each. What a call may do depends on the allocator, which may move a reallocation or not and puts an allocation
anywhere that is free, so a function that grows a value yields a set of outcomes, each a heap and the value that the variable has
then, and `becomes` chooses one. A write beyond the last cell is lost, and a read there finds `Uninit`: both are errors
of the program, and `AllocatedForCapacity` says that neither happens.

The module translates three things in the library that deserve care.

* A count may hold anything: `BigString::reserve` allocates without writing a count, and `with_utf8_terminator` shifts a string
  over its count before it drops it. What is then read is any of `UninitCounts`. The module asks that these are
  no smaller than the count of a single reference, which is the smallest number an `isize` has, so this is no restriction.
* A slice keeps in place of its capacity the address of the first element of what it was cut from, and finds the count before it. A
  slice of a slice would look for the count in the middle of the allocation; `sliceable` leaves those calls out, as there
  is nothing that the library says of them.
* The library is wrong for some calls of its own interface. `Careful` names the functions that the host uses only where
  they are right; the calls of the others are all there. `pushWellUsed`: `push` writes into spare room without asking whether the list is shared, so two clones of a
  list with room to spare write the same cell. `extendWellUsed`: a list that is shared, or a slice that does not begin at the
  start, is copied to an allocation with room for the new elements alone. `reserveWellUsed`: a unique list is reallocated to
  its length and the number asked for, also when that is less than its capacity, which it keeps if it is not moved
  (section 6). `from_iter` fills a list element by element; when it is full it grows by half of its capacity, which is nothing at
  a capacity of one or none, so an iterator must not have more elements than its hint promised. The host of the game makes none of
  these calls: it only makes strings from text.

**`RocSequences`** adds to `RocValues` what growing and cutting promise: the sequence of a variable grows at its end, a part of it can be
taken, and no call changes what another variable reads. `SequencesKept` is the refinement.

**`RocDec`** translates the conversions of decimal numbers, with integers of `-MAX - 1 .. MAX` for the `i128` and `DecimalPlaces`
for the 18 places; an `Option` is a set of at most one element. It keeps the ways in which `from_str`
differs from what one would write down: a text without digits before the point is read as 0, the empty text too; a point must be
followed by digits, of which those beyond the decimal places are dropped unread; underscores are skipped before the
point only; a sign is accepted after the point, where `1.-5` is a half. `to_str` prints the sign as one of the
characters of its fixed width, so that -0.5 is `-.5`.

The MC modules hold the small instances: **`MCRoctris`** the pools of blocks, the sets of keys, the
bounds and the views; **`MCLevels`** adds the history whether the player cheated; **`MCAlgorithms`** runs the
parts without state on all inputs of a small instance: a block that is turned and moved at will, a grid on which anything
may have been drawn, a text that is typed, a number; **`MCRender`** has a few views of two sizes; **`MCDraw`** games at
the size of the program; **`MCGameLoop`** a light that a key switches and every tick moves; **`MCRocMemory`** and
**`MCRocBuffers`** three variables.

Operators named `X_Variant` next to an operator `X` are what a plausible mistake in that
code would make of it; no specification uses them. Each property is violated
when a variant of the code replaces the original, so none holds whatever
the code does.

## 4. The runs

| Run | Instance | Checks |
|---|---|---|
| `algorithms` | all 512 subsets of a 3 by 3 grid, moved about; every rectangle and string on a grid of 4 by 2; all texts of up to 5 of nine characters, all numbers of 8 bits with two decimal places | `TurnsReturn`, `TurnKeepsPlace`, `TurnCommutesWithMove`; `RectIsRecursion`, `RectExact`; `DecimalRoundTrip`, `DecimalExact` |
| `tetrominoes` | 5 by 4 cells; stick, left L and square of the game | `InBounds`, `NoOverlapByMoving`, `PointsConserved`, `BlockNeverRises` |
| `rows` | 4 by 4; corners, which fill one row or two at once; all keys, the cheat too; `FairSpec` | `PendingRowsFull`, `TeleportNeedsBlock`, `FullRowsPending`, `ScoreAccounted`, `BlockLands`, `KeepsRules` |
| `levels` | 3 by 4; cheat key; rate limit reached at level 2; range with its end | `TypeOK`, `LevelNotBehind`, `FairLevel` |
| `render` | views of 3 by 2 cells with three kinds of cells, and one of 2 by 1; a terminal of 4 by 4 | `ScreenShowsView`, `NoFlicker`, `OnlyViewTouched`, `ShowsEveryView` |
| `drawing` | 10 by 20, the size of the program; numbers of one to six digits | `EdgesBlank`, `FieldShown`, `NumbersShown` |
| `loop` | four keys, three events in the queue, views of 2 by 2; `FairLoopSpec` | `LoopTypeOK`, `TerminalRestored`, `FrameShown`, `KeysInOrder`, `QuitKeyEnds` |
| `memory` | three variables and addresses, three texts, two countable references | `ReferencesCounted`, `SendSafeAlone`, `StaysReadonly`, `ValuesKept` |
| `buffers` | three variables, two addresses, sequences of up to two of two elements, strings of one character are short, two countable references | `NotFreedEarly`, `AllocatedForCapacity`, `ListsNotLeaked`, `SequencesKept` |
| three violations | one of the rules, 3 by 4; two of a single list | see section 6 |

What the less obvious ones say:

* `NoOverlapByMoving`. The block *can* overlap the debris in this game: a row
  dropped after a block has appeared moves debris down into it. The property
  says that this, and having no room to appear, are the only ways: no turn, clamp,
  move or lapse of the timer does it.
* `PointsConserved`. From one frame to the next the number of points, of block and
  debris together, changes exactly by the template that appears and by one
  playable width if a row waited. It fails if a row number is stale when its turn
  comes, or if a lock loses or doubles a point.
* `PendingRowsFull` and `FullRowsPending` are the two directions of "the rows that
  wait are the full rows". The first always holds: rows are dropped from the top,
  so those left to drop do not move. The second holds only while fewer than
  two rows wait when a block locks, because `addBlockToDebris` replaces the rows that wait; with two it is
  possible, by pressing the fast drop, to lose a full row for ever. The antecedent of the property
  names exactly that case, and the property says that it is the only one; the loss itself contradicts nothing that the repository says.
* `KeepsRules`. Three moves of a frame may lock a block and a fourth may turn it, a row may drop under it, and
  the frame that ends the game runs on: whatever comes of it is a move or a landing of `FallingBlocks`. A block that a move to the side
  locked would hang in the air, which no other property notices.
* `ScoreAccounted`. A frame without the fast drop gives exactly the score of the rows it
  clears, once, at the level before those rows raised it: the level of the state before the frame, or one more if the key
  of the frame is the cheat, which `processInput` handles before the tick. It fails if a lock scores at the level it raises.
  It says nothing of frames with the fast drop, where a lock loses the score of its rows: that is `ClearedRowsScore`.
* `FairLevel`, `LevelNotBehind`. A lock raises the level by one at most; by
  `RowsPerLevelAssumption` that is always enough. Without the cheat the level is
  exactly the one the rows call for; with it, it may be ahead, never behind.
* `NoFlicker` is why the renderer draws a difference: a cell never shows
  anything but its old or its new content, also after a write failed half way.
* `RectExact` says that a rectangle which fits changes its own cells only, and `EdgesBlank` that what
  `draw` draws fits, with one exception that the property shows to be harmless: the background of the
  end of the game counts its columns twice and spills blanks over the end of its rows.
* `NumbersShown` reads the number back from the cells of the panel.
* `TerminalRestored` separates what each way out can promise: raw mode is left unless the mode
  could not be set, cursor and colours come back unless writing failed, and the screen is
  cleared (in the terminal's own colours: they are reset first) when the player quits.
* `KeysInOrder` is a conservation law over the whole run: the keys pressed are the keys handled, then the one in
  the hands of the loop, then those in the queue.

* `ReferencesCounted` is exact while an allocation is counted at all: its count is the number of variables that refer to it, it is freed
  with the last of them, and nothing that was freed is referred to. It says nothing of the references to what is read-only,
  which is leaked on purpose.
* `StaysReadonly` relates the two ways of counting: a count beyond 0 comes down to 0 again and stops there, whoever
  drops the references.
* `SendSafeAlone` is why `SendSafeRocStr` and `SendSafeRocList` copy: the counts are plain integers, so an allocation that
  is counted may be referred to from one thread only.
* `NotFreedEarly` is what counting is for, stated as an inequality: a count may be too high (a slice without
  elements is counted when it is cut and, as a string, not when it is dropped; a count that was never written may be anything), which leaks, but never too low.
  `ListsNotLeaked` is the other direction for lists, whose counting has none of these leaks.
* `AllocatedForCapacity` is two of the four things that the library asks of the callers of `RocList::from_raw_parts`, here of the
  values it makes itself, after any sequence of growing, moving, sharing and cutting: the allocation has room for the capacity, and
  the elements are written. The third, that a count stands before the elements, is what `NotFreedEarly` and
  `ListsNotLeaked` rest on. The fourth, that the capacity is no less than the length, is `LengthWithinCapacity`, which the code breaks (section 6).
* `SequencesKept` shows that growing in place is not seen by others. It fails when
  `"push"` is left out of `Careful`, and `AllocatedForCapacity` when one of the others is.
* `DecimalExact` compares `from_str` with the value of the numeral, read as one integer: overflow on the way must
  be noticed and no number that fits may be refused. `DecimalRoundTrip` covers the smallest number, which has no opposite.

Bounds. The playable areas are the smallest on which every branch is taken: two
blocks fit next to each other, a turn reaches a side, a stack reaches the top, two
rows can be full at once. `MaxLevel = 3` and `MaxRowsCleared = 6` bound
the runs in which the level matters: the second is what level 2 requires, and the rate of
the timer reaches its limit at level 2. The other runs
have no bound on the length of the game. Instead they use a `VIEW`:

* `PlayView` leaves out the score, which nothing reads, and the input, which the
  next `Key` overwrites before anything reads it (in states other than `Playing`
  nothing reads it).
* `EndlessView` also leaves out the level and the rows cleared. With `MaxRate = 1`
  the rate of the timer is 1 at every level, so the level and the rows cleared influence nothing but
  themselves and the score. No property checked under this view compares them
  across steps other than as the difference that one step makes, and the
  score of that step is compared with the level of that same state. The cheat raises
  the level without a bound, which this view does not see.

`BoardView` of the run `drawing` leaves out input and score: what is drawn depends on the score only
in the panel, and the initial states bring scores of one, four and six digits. Its one
large template ends a game after a few blocks, so that all states of a game are drawn.

The views of `render` are chosen so that colours, graphemes and the length of unchanged stretches
vary, within a row and over the end of a row, and that the size changes once; the terminal is
larger than each of them, so that a cell outside could be hit. Three kinds of cells, which differ in the
grapheme, one colour or both, give every combination of what the tracked state can be wrong about. In `loop` four keys, three places in the
queue and a key that is no key make every order of reading, failing and quitting possible; renderings
have four cells, so a failure finds a first, a middle and a last one. In `memory` the third reference to one allocation
makes its count overflow, a string that is set to read-only and cloned is counted beyond 0, and with three addresses
memory is freed and used again while two others are referred to. Variables, addresses and the two texts that are
not empty are interchangeable, hence the symmetry; all its properties are safety.

In `buffers` three variables are the fewest in which two share what a third was cut from, and
two addresses the fewest in which a reallocation moves. Sequences of two elements (`MaxLength`) are longer than a
short string (`SmallCapacity = 1`), have a proper slice and leave room to spare after one element. A count that was never written is right
or one too high (`AnyCount`). `NothingLeaked` cuts off states in which memory was leaked: nothing refers to it any
more, so it only takes an address away from the allocator. `CountsBounded` cuts off counts beyond the read-only one, which slices without elements
raise for ever; `memory` checks those. In `algorithms` numbers of 8 bits with two places
(`MAX = 127`, `DecimalPlaces = 2`) overflow in the product, in the sum and in the last step, within the five characters of `MaxTyped`.

Deadlock is checked for the rules, which never stop: quitting belongs to the loop. `CHECK_DEADLOCK FALSE` is said of
`render` (after a failed write nothing more is rendered), `algorithms` (drawing ends after
`MaxDrawn` and typing after `MaxTyped`) and `loop` (the program ends).

Fairness. `FairSpec` adds `WF_vars(Next)`: the loop goes on running frames. The
code justifies it: nothing in an iteration blocks (the host polls for a key for
one millisecond) and the loop ends only when the player quits. Which key is
pressed is left entirely free: `BlockLands` holds whatever the player does, although `down` resets the timer (it
also moves the block) and `up` may turn the block in every frame.

`FairLoopSpec` is weak fairness of the program, for the same reason, and strong fairness of
`readEvent`: a poll with an event waiting returns it, so that it cannot fail in every iteration for
ever. Weak fairness would not do, because reading is enabled at one place of the
loop only. Nothing is assumed of the player.

## 5. The proofs

`GridProofs` holds what the other proofs need of the game's two grids, the points of blocks and the cells of views, and the
inductions they use. About sets of points: minimum and maximum of a
bounded set of integers exist and are what `Min` and `Max` of the community modules choose
(`MinIs`, `MaxIs`), bounds exist and are unique (`BoundsExist`,
`BoundsUnique`), translating moves them (`TranslateBounds`), halving
towards zero is exact enough that the centre moved back is the centre
(`DivTruncHalf`, `CenterIs`, `Recentered`), and
`TurnKeepsCenter`: a turn of any block keeps its rounded centre and
exchanges its width and height. `TurnedIs` says what a turn does to the points: it turns them about the origin
and moves them all by one vector, so that it loses none (`TurnedCount`) and two turns compose (`TurnsCompose`). A block
that is moved, and has the centre that it had, is where it was (`SamePlace`); with it follow
`TurnsUndo` (a turn and the turn back, and four turns, return the block) and `TurnCommutes` (a block that is moved and
turned is the block that is turned and moved). `MCAlgorithms` checks the same on small blocks.

About views: `StringIs` and `TextIs` say what a string does to each cell, in the list and by its position, `RectIs` what a
rectangle that fits does, `PointsAre` what a string at each of a set of points does, whatever their order, and `BackgroundStays`
which cells a rectangle that does not fit leaves alone. About recursion: `Recursion` and `SetRecursion` say when a recursive function over `0 .. n`
or over the subsets of a finite set exists (when its step is a function on a set of values), `Induction` and `SetInduction` are
induction over the members of a set, from the least one outside it; none takes an operator as a parameter.

`RoctrisProofs` proves

* `TypeCorrect`: `Spec => []TypeOK`, and
* `StaysInBounds`: `Spec => []InBounds`,

for every playable area, pool, set of keys, timer and both ranges that the
assumptions of `Roctris` allow. `TypeOK` and `InBounds` are not inductive, alone or together:
that a moved block stays inside needs that it does not touch
both sides, which is a fact about its size. The inductive invariant `Sound`
adds what `Placed` says: the moving block is empty or a finite set of cells
within the playable area whose width and height both stay below the width of
the area, as the templates' do. That is kept by a turn because a turn
exchanges the two (`TurnedBounds`), and it is what makes the clamp after
a turn and the clamp of a move right. The proof goes system by system: one lemma per function of
`update` says that it takes a sound model to a sound model (`SoundSpawn`,
`SoundDrop`, `SoundTeleport`, `SoundRotate`, `SoundPlayerMove`, `SoundTimer`, over
`SoundMove` and `SoundLock`), `SoundFrame` composes them in the order of `tick`, and
`SoundInvariant` closes the induction.

`RoctrisProofs` goes on from there to the rules, again with one lemma per system:

* `PendingStayFull`: `Spec => []PendingRowsFull`, and `LevelKeepsUp`, `TeleportEnds` for `LevelNotBehind` and
  `TeleportNeedsBlock`;
* the action properties `MovesStayClear` (`NoOverlapByMoving`) and `NeverRises` (`BlockNeverRises`).

Next to `Sound` the invariant is `Upheld`, the three properties and two facts they rest on: the block is `Low`, so
that whichever way it is turned a lock fills no more rows than two levels require, and no block is there before the game
begins. That the level keeps up is then arithmetic (`NextLevel`: the next level requires
as many rows more as it is levels high); that a row stays full while one above it is dropped is `RowsBelowKept`.
Two relations carry the action properties through a frame: `Clear` (the block is not in the debris, unless it had no room to
appear) is kept by the turn, the moves and the timer, and `Falls` relates the block before such a system to the one
after, the centre no higher: a turn keeps the centre, and the clamp after it only ever moves the block down (`FallsTurned`).

`PointsProofs` proves the action properties `PointsKept` (`PointsConserved`), `RowsRemembered`
(`FullRowsPending`) and `ScoresOnce` (`ScoreAccounted`) from the same invariants. Once the block has appeared and a row is
dropped, what the rest of a frame can do is one of two relations between models, whichever of its four
moves does it: `Same` (the block is at most moved and turned) or `Locked` (it was moved and turned, and then locked);
`Effect` is their disjunction, one lemma per system shows it and `EffectOn` composes it, because a locked block cannot be
locked again. `Scored` is what such a step adds to the score; the fast drop is the one system that does not keep
it. The level that a lock scores at is the one the key left (`KeyLevel`). Points are counted with bijections: a translation, a turn (`TurnCount`) and the fall of the rows above a dropped one
(`HeldMoved`) each map points to points one to one, and `HeldParts` splits what the debris holds into rows. `FullAfterDrop` and
`OtherRowsKept` say which rows can be full after a drop and after a lock.

`ImplementsRules` (`Spec => KeepsRules`) rests on the same two relations: `Same` is a `Move` of `FallingBlocks` and `Locked` a `Land`
(`RulesMove`). What it needs beyond them is that a block locks only where it is `Supported`, which `MoveShape` reads off the guards of
`moveBlock`, and three facts about the pile as a function: `CopiesAre` (its cells and its full rows), `CopiesDropped` (`dropRow` is
`Without`) and `CopiesLocked`.

`PointsProofs` also proves `LevelsAreFair`: `LevelsSpec => []FairLevel`, over the history `cheated` of `MCLevels`. Its invariant adds
`Reached` (the rows cleared are enough for the level before); a key keeps it unless it is the cheat, and `EffectReaches`
shows that a lock does.

`GameLoopProofs` first proves of the renderer alone, for every terminal, every set of views and all colours that satisfy the
assumptions: `ShowsView`, `NeverFlickers`, `StaysInView` and, with the mapping of
`ShowsEveryView`, `ImplementsScreen`. The inductive invariant `RInv` has four parts. `Typed` is the shape of the
state. `RenderInv` says that during a full rendering the cursor is at the cell
that comes next and the cells before it are drawn. `DeltaInv` says that during a difference the cells before
`idx` show the new view and the others the old one, and that the tracked
colours are the terminal's; about the cursor it needs two cases, `CursorFresh` (nothing is drawn yet, so the
tracked position is not where the cursor is, and by `FirstChangeAssumption` the
next change will move it) and `CursorBehind` (the cursor is one cell behind the tracked position). `FailedInv`
keeps what a failure must keep. Each action has one step per part that it can disturb.

It goes on to prove `LoopTypeCorrect`, `RestoresTerminal` and `ShowsGame` for every game. Its invariant `LoopInv` uses `RInv` for
the rendering within a frame (`RunningInv`) and adds what the terminal's modes are at each place (`EndingInv`): that the
way out restores them needs to know only that nothing but `reset_terminal`, `cleanUp` and `roc_panic` leads to the end.
`LoopTypeCorrect` covers the variables of the loop and those of the renderer and the terminal within it (`RenderTypeOK`): while the loop runs
`RInv` gives the latter, and `RenderTypesKept` shows them for the tasks on the way out, where `RInv` need not hold.
`KeepsOrder` proves `KeysInOrder`, which compares whole histories. It needs what `keysOf`, a recursive function over the queue of
events, returns for a queue that grows at its end or loses its head: that the recursion is well defined, and `KeysAppended`
and `KeysShifted`, each shown by the least position at which it would fail. Then each action moves one key from
one part of the history to the next, or none.

`DrawProofs` proves the three properties of `draw`, for every size of the playable area that `DrawAssumption` allows (the texts need 8
columns and 9 rows; the game has 10 and 20), every pool and every reachable state of `Roctris`:

* `EdgesStayBlank`: `Spec => [](NumbersFit => EdgesBlank)`,
* `FieldStaysShown`: `Spec => [](NumbersFit => FieldShown)`, if `PlayWidth <= 10`, and
* `NumbersStayShown`: `Spec => [](NumbersFit => NumbersShown)`.

No inductive invariant is needed but `Sound`, which keeps the block and the debris where the grid has cells for them; the work is in `draw` itself, one lemma
for each view that it draws on the one before. `FieldView` and `PlayView` are the area and the squares on it;
`Square` says which cells of the view a cell of the game is, and that no two cells share one. `OverFramed` adds the
message: its texts lie in the area (`TextFramed`), and its background, which is too wide and runs on into the next row, is blank, as what it reaches outside of the area is
(`BackgroundFramed`). `NumberView` and `ListedKeeps` add the panel, a number at a time. `NumberLength` and `NumberReads` are
about `intToStr`: a number below 10^8 has at most eight digits, and reading them gives the number. `IntroEdged` is
about the other branch: the seven texts of the intro fit, in whatever order they are written.

Both hypotheses are needed and say where the code stops being right. `NumbersFit`: score, rows cleared and level are below 10^8
each. The panel has room for seven letters and eight digits before the last column; the ninth digit would be on the edge and the tenth on
the next row. Nothing in the code bounds the score, so the hypothesis is part of what is proved instead of an assumption. `PlayWidth <= 10`:
the background of the message is four cells wide for each column of the game (`drawGameOver` doubles the width that is
doubled already) and wraps; at 11 columns it would come back into the area in the row below the message. The game has 10.
The theorems are about `Spec`; `DrawSpec` of `MCDraw` adds games that start in the middle, to reach large numbers quickly.

`RocMemoryProofs` proves all four properties of `memory` (`CountsReferences`, `SendsAlone`, `KeepsReadonly`, `ImplementsValues`) for any
number of variables, addresses, texts and countable references. `ReferencesCounted` and `SendSafeAlone` are inductive together once the types
are known, and `TextKept` (an allocation still holds the text that its values were made from) is what the refinement
needs; `MemoryInv` is their conjunction. Two lemmas about a single allocation, `CountedClone` and `CountedDec`, cover the counting of all three
types at once and are where the numbers are: `Counted` relates a count to the set of variables that refer to it, which grows
or shrinks by one. The lemmas that follow lift them to the heap for the few things an operation can do: place a value, allocate one, share one,
give one up, copy and give up, change one where it is.

`RocBuffersProofs` proves, for any number of variables, addresses and elements and any capacities:

* without a hypothesis, `FreedInTime` (`NotFreedEarly`) and `ListsFreed` (`ListsNotLeaked`). `CountInv` is inductive: an allocation
  that variables refer to is live and its count, unless it is constant, says at least how many they are (`Counted`), for lists
  exactly how many (`Exact`). `Effect` says what a call that grows a value does to the heap, whichever of the functions it is:
  the allocation `Stays`, or `Moves` to another address, or the value `Leaves` it for a new one. One lemma per function shows it, and
  `GrowKeeps` carries the invariant over it;
* under `UsedWell`, `AlwaysReadable`, `ElementsWritten` (`AllocatedForCapacity`; not `LengthWithinCapacity`, which is false, section 6) and the refinement `ImplementsSequences`
  (`SequencesKept`). `ContentInv` adds that the cells a value refers to are allocated and written; `Reads` and `ReadsMore` say which elements
  the value of a growing call reads, and that no other value reads anything else. `UsedWell` is that all four functions are in `Careful`, as in the run
  `buffers`: the library is wrong for the other calls (section 6), so that the statements are false without it.

What the loop of `collected` returns is shown for every number of elements, once more by the least number for which it would fail.

`AlgorithmsProofs` proves the seven properties of `MCAlgorithms`, five of them about blocks and views, for blocks, moves, views and rectangles of every size;
`InputTypes` says which inputs there are. Those about turns (`TurnsAlwaysReturn`, `AlwaysTurnKeepsPlace`, `AlwaysTurnCommutes`) follow from
`GridProofs`. For the rectangles each drawing operation is described cell by cell: `StringIs` (a string paints the cells from an
index on), `ColumnsAre` (a row paints its band, and the copies that do not fit spill over into the cells that
`SpillIs` names), `RowsAre` and `RectIs` (a rectangle is its rows, one after another). `AlwaysRecursion` is that the recursion of `View.roc`, which goes from copy to copy
and row to row, draws what `View` writes down with folds, and `AlwaysExact` that a rectangle that fits marks its cells and no
others.

The module also proves the two properties of decimal numbers, for every width of a number (`MAX`), every number of decimal places
and texts of every length. `FoldedIs` unfolds a recursion over a sequence once for all, `SeqInduction` is the induction that goes with it; with them
`NumberIs`, `KeptIs`, `HiIs` and `DecimalIs` say what `number`, `withoutUnderscores`, `adjust_hi` and `decimal` make of one more
digit. `AlwaysReadExactly` then rests on `CheckedNext` and `CheckedSum`, that what overflows in a product overflows in the end too,
so that checking each step refuses exactly the numbers that do not fit (`HiValue` for the digits before the point), and on
`FirstPoint`, `BeforePoint` and `AfterPoint`, where `from_str` cuts a text. `AlwaysRoundTrip` adds what `to_str`
writes (`NumberWritten`): the digits of the number, cut at the decimal places, without the zeros at the end. The theorems need
`DecAssumption`: one, scaled, fits into the number, and there is at least one decimal place (the code has 18). Without
a place `from_str` would drop the digit of `1.5` and refuse what is left, and `DecimalExact` would be false.

Only model-checked: liveness (`BlockLands`, `QuitKeyEnds`) and everything with `ENABLED`, which are out of the reach of the
provers. Every invariant and every action property that a run checks is also a theorem.

## 6. Where the code and its comments disagree

* `ClearedRowsScore` (run `cleared_rows_score`). `updateTeleportDown` computes the
  score before `moveBlock` and writes it over the result (lines 273-275). Rows
  that a fast drop clears therefore score 1 point instead of what line 37, "score to
  give for clearing N rows at once", promises.
  Read, not run: the same lines give the point also in the frame in which the block cannot fall and
  locks, though line 47 says "score to give for each row that the player fast-drops".
* `AllocatedForCapacity` (run `reserve_capacity`, without `"reserve"` in `Careful`). `RocList::reserve` says "Increase a RocList's capacity by at
  least the requested number of elements (possibly more)" and `from_raw_parts` that the allocation must have the capacity. A unique list
  with room to spare is reallocated to its length and that number (`roc_list.rs:454`): with 2 cells, none written,
  asking for one leaves an allocation of 1 cell and, when it was not moved, a list that takes it to have 2. The same run without `"from_iter"`
  instead shows a list that is filled by an iterator without a promised length, which the comment of line 804 provides for: its first element
  has no room.
* `LengthWithinCapacity` (run `push_capacity`, with all four functions in `Careful`). The same line, 454, also leaves the capacity behind when the
  allocation grew: a list that `from_slice` made of one element has capacity 1, `push` reserves room for one more, `realloc` does not move
  the list, and `reserve` returns. After the push the list has length 2 and capacity 1, where line 296 asks of what is handed to `from_raw_parts` that
  "`cap` >= `len`" and line 432 promises to increase the capacity. The element that was pushed has room, and the next push asks for room
  again, so within the library nothing else goes wrong.

Read, and shown by `FairLevel` of the run `levels` rather than by a run of its own: line 50 of `roctris.roc` says how many rows a player has
to have cleared "to achieve the given level", but `addBlockToDebris` leaves level n once `rowsRequiredForLevel n` rows are
cleared (line 376), so level 2 is achieved with the 10 rows of level 1 and not with 30.

## 7. Not modelled

* Floating point time, the generation of random numbers, the wording of texts, and which colour a block has.
* Overflow of the unsigned 64 bit counters, out of a player's reach. Numbers of more than six digits are not
  drawn by any run; one of more than eight digits would reach the edge of the view.
* A terminal that is smaller than the view and two rows.
* An abort that leaves the terminal raw (`lib.rs:338`): it is modelled as an end of the program, `aborted`, of which no property
  promises anything, because the code does not.
* In the host: `roc_alloc` and its relatives, which call libc, and the backtrace that a panic prints.
* In the support library `roc_std`: a slice of a slice, which finds no count; `RocRefcounted::inc`, which adds a reference that no variable owns; lists
  and boxes of values that are counted themselves, whose elements would be counted in the same way one by one; `into_inner` and
  `leak` of boxes; the bytes of a terminator and the
  buffer on the stack that copies without room use; comparison, hashing, printing and serializing of values, and the 128 bit
  integers that glue for other architectures needs.
* The build scripts, and the generated glue, which has no behaviour of its own.
