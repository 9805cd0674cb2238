------------------------------ MODULE GameLoop ------------------------------
(***************************************************************************)
(* The life of the program: run and loop of game/GameLoop.roc within       *)
(* rust_main of the host, on a terminal whose events wait in a queue.  The *)
(* game is given by the operators Update and Draw, as it is to             *)
(* GameLoop.run; a frame is rendered cell by cell, by TerminalRender.      *)
(*                                                                         *)
(* The program ends when the player quits, when a write to the standard    *)
(* output fails, when the game panics (roc_panic), or when the mode of the *)
(* terminal cannot be set, which aborts it.  The other commands for the    *)
(* terminal do not report an error: once a write has failed they may be    *)
(* without effect.                                                         *)
(***************************************************************************)
EXTENDS TerminalRender, Sequences

CONSTANTS Models, InitModel, Update(_, _), Draw(_),  \* the game
          Keys, QuitKeys,       \* the keys; Keys.q and Keys.exit
          OtherEvents,          \* events that are no keys, a resize for one
          NoKey,                \* the empty string
          MaxPressed, MaxQueue  \* bounds of the keys pressed and of the queue

Key(k) == [type |-> "Key", key |-> k]
Tick   == [type |-> "Tick", key |-> NoKey]

ASSUME KeysAssumption ==
  NoKey \notin Keys /\ QuitKeys \subseteq Keys /\ OtherEvents \cap Keys = {}

ASSUME GameAssumption ==
  /\ InitModel \in Models
  /\ \A m \in Models :
       /\ Draw(m) \in Views
       /\ \A msg \in {Key(k) : k \in Keys \cup {NoKey}} \cup {Tick} : Update(m, msg) \in Models

VARIABLES pc,       \* where run, loop and rust_main are
          model,    \* the model of the game
          key,      \* the key that this iteration has read
          failure,  \* "none", or what failed: "write", "panic" or "mode"
          queue,    \* the events that wait in the terminal
          pressed,  \* the keys pressed since the start,
          handled   \* and those given to the game

loopVars == <<pc, model, key, failure, queue, pressed, handled>>
allVars  == <<vars, loopVars>>
-----------------------------------------------------------------------------
(* The terminal of the shell.                                              *)
shellTerminal ==
  [newTerminal EXCEPT !.foreColor = Default, !.backColor = Default,
                      !.raw = FALSE, !.cursorVisible = TRUE]

(* The mode of the terminal cannot be set: expect aborts the program.      *)
abort(t) ==
  /\ pc' = "aborted" /\ failure' = "mode" /\ term' = t
  /\ UNCHANGED <<oldView, view, idx, state, mode, model, key, queue, pressed, handled>>

(* The first three tasks of run.                                           *)
setUp ==
  /\ pc = "run"
  /\ \/ /\ term' = setCursorVisible(setRawMode(clear(term), TRUE), FALSE)
        /\ pc' = "draw"
        /\ UNCHANGED <<oldView, view, idx, state, mode, model, key, failure,
                       queue, pressed, handled>>
     \/ abort(clear(term))

(* The first view is drawn in full.                                        *)
drawFirst ==
  /\ pc = "draw" /\ Begin(NoView, Draw(model), term)
  /\ pc' = "render" /\ UNCHANGED <<model, key, failure, queue, pressed, handled>>

rendering == pc \in {"render", "renderDelta"}

renderCell ==
  rendering /\ (addNextViewCommands \/ renderDeltaLoop) /\ UNCHANGED loopVars

rendered ==
  /\ rendering /\ Finish
  /\ pc' = IF pc = "render" THEN "getNextKey" ELSE "sleep"
  /\ UNCHANGED <<model, key, failure, queue, pressed, handled>>

(* Every task that waits for the rendering fails with it, up to rust_main. *)
writeFails ==
  /\ rendering /\ Fail
  /\ pc' = "rust_main" /\ failure' = "write"
  /\ UNCHANGED <<model, key, queue, pressed, handled>>

(* One event is read; it may be no key.  Variant: it is taken for one.     *)
readEvent_Any ==
  /\ pc = "getNextKey" /\ queue # <<>>
  /\ key' = Head(queue) /\ queue' = Tail(queue) /\ pc' = "update"
  /\ UNCHANGED <<vars, model, failure, pressed, handled>>

readEvent ==
  /\ pc = "getNextKey" /\ queue # <<>>
  /\ key' = IF Head(queue) \in Keys THEN Head(queue) ELSE NoKey
  /\ queue' = Tail(queue) /\ pc' = "update"
  /\ UNCHANGED <<vars, model, failure, pressed, handled>>

(* No event waits, or the poll or the read fails.                          *)
readNothing ==
  /\ pc = "getNextKey" /\ key' = NoKey /\ pc' = "update"
  /\ UNCHANGED <<vars, model, failure, queue, pressed, handled>>

handledNow ==
  IF pc = "update" /\ key # NoKey THEN Append(handled, key) ELSE handled

(* Variant: the view is drawn before the tick.                             *)
frame_DrawsEarly ==
  LET m == Update(model, Key(key))
  IN  /\ pc = "update" /\ model' = Update(m, Tick) /\ Begin(view, Draw(m), term)
      /\ handled' = handledNow /\ pc' = "renderDelta"
      /\ UNCHANGED <<key, failure, queue, pressed>>

(* updateInput, tick and draw; the empty key is a message, too.            *)
frame ==
  LET m == Update(Update(model, Key(key)), Tick)
  IN  /\ pc = "update" /\ model' = m /\ Begin(view, Draw(m), term)
      /\ handled' = handledNow /\ pc' = "renderDelta"
      /\ UNCHANGED <<key, failure, queue, pressed>>

(* Variants: a key that waits is thrown away; keys are read before the     *)
(* program quits.                                                          *)
sleep_Flushes ==
  /\ pc = "sleep" /\ pc' = IF key \in QuitKeys THEN "quit" ELSE "getNextKey"
  /\ queue' = <<>> /\ UNCHANGED <<vars, model, key, failure, pressed, handled>>

sleep_Drains ==
  /\ pc = "sleep"
  /\ pc' = IF key \in QuitKeys /\ queue = <<>> THEN "quit" ELSE "getNextKey"
  /\ UNCHANGED <<vars, model, key, failure, queue, pressed, handled>>

sleep ==
  /\ pc = "sleep" /\ pc' = IF key \in QuitKeys THEN "quit" ELSE "getNextKey"
  /\ UNCHANGED <<vars, model, key, failure, queue, pressed, handled>>

(* The last five tasks of run.                                             *)
cleanUp ==
  LET cleared == clear(resetForecolor(resetBackcolor(term)))
  IN  /\ pc = "quit"
      /\ \/ /\ term' = setCursorVisible(setRawMode(cleared, FALSE), TRUE)
            /\ pc' = "rust_main"
            /\ UNCHANGED <<oldView, view, idx, state, mode, model, key, failure,
                           queue, pressed, handled>>
         \/ abort(cleared)

(* Variant: the cursor is forgotten.                                       *)
reset_terminal_Hidden(t) == resetBackcolor(resetForecolor(setRawMode(t, FALSE)))

reset_terminal(t) ==
  setCursorVisible(resetBackcolor(resetForecolor(setRawMode(t, FALSE))), TRUE)

(* reset_terminal ignores errors: what it does where all commands work, if *)
(* the commands other than the mode do not, and if the mode cannot be set. *)
reset(t) ==
  \/ term' = reset_terminal(t) /\ failure' = failure
  \/ failure = "write" /\ term' = setRawMode(t, FALSE) /\ failure' = failure
  \/ term' = [reset_terminal(t) EXCEPT !.raw = t.raw] /\ failure' = "mode"
  \/ failure = "write" /\ term' = t /\ failure' = "mode"

(* The game panics, in update or in draw.                                  *)
roc_panic ==
  /\ pc \in {"draw", "update"} /\ pc' = "ended"
  /\ \/ term' = reset_terminal(term) /\ failure' = "panic"
     \/ term' = [reset_terminal(term) EXCEPT !.raw = term.raw] /\ failure' = "mode"
  /\ handled' = handledNow
  /\ UNCHANGED <<oldView, view, idx, state, mode, model, key, queue, pressed>>

(* rust_main resets the terminal, however the tasks of the game ended.     *)
rust_main ==
  /\ pc = "rust_main" /\ pc' = "ended" /\ reset(term)
  /\ UNCHANGED <<oldView, view, idx, state, mode, model, key, queue, pressed, handled>>

(* The terminal: in raw mode every key is an event, control-c too.         *)
press ==
  /\ term.raw /\ pc \notin {"ended", "aborted"} /\ Len(queue) < MaxQueue
  /\ \E event \in Keys \cup OtherEvents :
       /\ queue' = Append(queue, event)
       /\ IF event \in Keys
          THEN Len(pressed) < MaxPressed /\ pressed' = Append(pressed, event)
          ELSE UNCHANGED pressed
  /\ UNCHANGED <<vars, pc, model, key, failure, handled>>
-----------------------------------------------------------------------------
LoopInit ==
  /\ term = shellTerminal /\ view = NoView /\ oldView = NoView /\ idx = 0
  /\ state = newState /\ mode = "done"
  /\ pc = "run" /\ model = InitModel /\ key = NoKey /\ failure = "none"
  /\ queue = <<>> /\ pressed = <<>> /\ handled = <<>>

program ==
  \/ setUp \/ drawFirst \/ renderCell \/ rendered \/ writeFails \/ readEvent \/ readNothing
  \/ frame \/ sleep \/ cleanUp \/ roc_panic \/ rust_main

LoopNext == program \/ press

LoopSpec == LoopInit /\ [][LoopNext]_allVars

(* No task of an iteration blocks: the poll gives up after a millisecond,  *)
(* and it cannot fail for ever while an event waits.                       *)
FairLoopSpec == LoopSpec /\ WF_allVars(program) /\ SF_allVars(readEvent)
-----------------------------------------------------------------------------
(* Properties.                                                             *)

ended == pc \in {"ended", "aborted"}

(* The loop, the terminal and the renderer within it are well formed,      *)
(* wherever the program is and whichever way it ends; the queue and the    *)
(* two histories hold events and keys only (getNextKey, loop, run).        *)
LoopTypeOK ==
  /\ RenderTypeOK
  /\ pc \in {"run", "draw", "render", "renderDelta", "getNextKey", "update", "sleep",
             "quit", "rust_main", "ended", "aborted"}
  /\ model \in Models /\ key \in Keys \cup {NoKey}
  /\ failure \in {"none", "write", "panic", "mode"}
  /\ queue \in Seq(Keys \cup OtherEvents) /\ pressed \in Seq(Keys) /\ handled \in Seq(Keys)

(* The terminal goes back to the shell as it came, on whichever of its     *)
(* ways the program ends: out of raw mode unless the mode could not be     *)
(* set, with its colours and its cursor unless writing failed, and empty   *)
(* if the player quit (run, reset_terminal, roc_panic, rust_main).         *)
TerminalRestored ==
  pc = "ended" =>
    /\ failure # "mode" => ~term.raw
    /\ failure \in {"none", "panic"} =>
         term.cursorVisible /\ term.foreColor = Default /\ term.backColor = Default
    /\ failure = "none" => term.cells = shellTerminal.cells

(* Whenever the loop sleeps or waits for a key, the screen shows the game  *)
(* as it is: the view that was drawn last, in full or as a difference to   *)
(* the one before, is the view of the model after its tick (loop).         *)
FrameShown ==
  pc \in {"getNextKey", "update", "sleep"} =>
    \A i \in Indices(Draw(model)) :
      term.cells[position(Draw(model), i)] = Draw(model).cells[i]

(* The keys among events, in their order.                                  *)
withKey(keys, event) == IF event \in Keys THEN Append(keys, event) ELSE keys

keysOf(events) ==
  LET keys[i \in 0 .. Len(events)] ==
        IF i = 0 THEN <<>> ELSE withKey(keys[i - 1], events[i])
  IN  keys[Len(events)]

(* No key is lost, doubled or overtaken between the terminal and the game, *)
(* though one event is read per frame, events that are no keys come        *)
(* between, and polls fail: the keys pressed are those the game was given, *)
(* then the one just read, then those that wait (getNextKey, loop).        *)
KeysInOrder ==
  pressed = handled \o (IF pc = "update" /\ key # NoKey THEN <<key>> ELSE <<>>)
                    \o keysOf(queue)

(* Whatever waits before it, a key that quits ends the program.            *)
QuitKeyEnds == (\E i \in DOMAIN queue : queue[i] \in QuitKeys) ~> ended
=============================================================================
