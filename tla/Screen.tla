------------------------------- MODULE Screen -------------------------------
(***************************************************************************)
(* What the renderer promises: the game hands over one view after another, *)
(* and each is on the screen, whole, before the next is handed over.       *)
(***************************************************************************)
CONSTANTS Views,   \* what the game may draw
          NoView   \* what is shown before the first view

VARIABLES view,    \* the view handed over last
          shown    \* the view on the screen

vars == <<view, shown>>

Init == view \in Views /\ shown = NoView

Show == shown' = view /\ view' = view

HandOver == shown = view /\ view' \in Views /\ shown' = shown

Next == Show \/ HandOver

Spec == Init /\ [][Next]_vars
=============================================================================
