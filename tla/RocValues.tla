----------------------------- MODULE RocValues -----------------------------
(***************************************************************************)
(* What the values of roc_std promise the host: a variable owns a value of *)
(* its own, and nothing that is done to another variable changes it.       *)
(***************************************************************************)
CONSTANTS Variables, Texts,
          Nothing   \* what a variable holds that owns no value

VARIABLE values

Init == values = [v \in Variables |-> Nothing]

Create == \E v \in Variables, text \in Texts :
            values[v] = Nothing /\ values' = [values EXCEPT ![v] = text]

Copy == \E v, w \in Variables :
          /\ values[v] # Nothing /\ values[w] = Nothing
          /\ values' = [values EXCEPT ![w] = values[v]]

Drop == \E v \in Variables :
          values[v] # Nothing /\ values' = [values EXCEPT ![v] = Nothing]

Next == Create \/ Copy \/ Drop

Spec == Init /\ [][Next]_values
=============================================================================
