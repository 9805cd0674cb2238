---------------------------- MODULE MCRocMemory ----------------------------
(***************************************************************************)
(* Three variables for two countable references: an allocation can have    *)
(* more references than can be counted.  Three addresses, so that memory   *)
(* is freed and used again while others refer to theirs.                   *)
(***************************************************************************)
EXTENDS RocMemory, TLC

Symmetry ==
  Permutations(Variables) \cup Permutations(Addresses) \cup Permutations(Texts \ {Empty})
=============================================================================
