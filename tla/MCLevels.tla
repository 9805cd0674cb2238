------------------------------ MODULE MCLevels ------------------------------
(***************************************************************************)
(* The small instances with a history: whether the player ever cheated.    *)
(***************************************************************************)
EXTENDS MCRoctris

VARIABLE cheated

LevelsInit == Init /\ cheated = FALSE

LevelsNext ==
  \E key \in Keys, template \in BlockPool :
    /\ Frame(key, template)
    /\ cheated' = (cheated \/ (key = "ctrlUp" /\ model.state = "Playing"))

LevelsSpec == LevelsInit /\ [][LevelsNext]_<<model, cheated>>

LevelsView == <<PlayView, cheated>>

(* Without the cheat the level is exactly the one that the rows cleared    *)
(* call for: no lock raises it early and none leaves it behind.            *)
FairLevel == ~cheated => LevelFollowsRows
=============================================================================
