---------------------------- MODULE MCRocBuffers ----------------------------
(***************************************************************************)
(* Three variables, so that two can share what a third was cut from, and   *)
(* two addresses, so that what moves can take the place of what was freed. *)
(* A count that was never written may be right or too high.                *)
(***************************************************************************)
EXTENDS RocBuffers, TLC

AnyCount == {REFCOUNT_1, REFCOUNT_1 + 1}

(* Bound: what was leaked only takes up an address, for nothing refers to  *)
(* it again.                                                               *)
NothingLeaked == \A address \in Addresses : heap[address].live => references(address) # {}

(* Bound: slices without elements raise a count for ever.                  *)
CountsBounded == \A address \in Addresses : heap[address].rc <= 0

Symmetry == Permutations(Variables) \cup Permutations(Addresses) \cup Permutations(Elements)
=============================================================================
