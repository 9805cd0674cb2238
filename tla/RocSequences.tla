---------------------------- MODULE RocSequences ----------------------------
(***************************************************************************)
(* What lists and strings that grow and are cut promise the host: the      *)
(* sequence of a variable grows at its end, a part of it can be taken, and *)
(* none of this changes the sequence of another variable.                  *)
(***************************************************************************)
EXTENDS RocValues, Naturals, Sequences

Grow == \E v \in Variables, text \in Texts :
          values[v] # Nothing /\ values' = [values EXCEPT ![v] = @ \o text]

Cut == \E v, w \in Variables :
         /\ values[v] # Nothing /\ values[w] = Nothing
         /\ \E from \in 0 .. Len(values[v]) : \E to \in from .. Len(values[v]) :
              values' = [values EXCEPT ![w] = SubSeq(values[v], from + 1, to)]

Split == \E v, w, u \in Variables :
           /\ values[v] # Nothing /\ values[w] = Nothing /\ values[u] = Nothing /\ w # u
           /\ \E i \in 0 .. Len(values[v]) : \E j \in i .. Len(values[v]) :
                values' = [values EXCEPT ![w] = SubSeq(values[v], 1, i),
                                         ![u] = SubSeq(values[v], j + 1, Len(values[v]))]

SequencesSpec == Init /\ [][Next \/ Grow \/ Cut \/ Split]_values
=============================================================================
