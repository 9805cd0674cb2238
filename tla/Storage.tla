------------------------------ MODULE Storage ------------------------------
(***************************************************************************)
(* Allocations and their reference counts: crates/roc_std/src/storage.rs   *)
(* and the functions of lists, boxes and strings that count.               *)
(*                                                                         *)
(* A reference count is the isize of the code: it starts at isize::MIN and *)
(* is 0 for an allocation that is never freed; here isize::MIN is          *)
(* -MaxRefs.                                                               *)
(***************************************************************************)
EXTENDS Integers

CONSTANTS Garbage,     \* the contents of memory that was freed
          Nothing,     \* no value, and no address
          MaxRefs      \* the references that can be counted
-----------------------------------------------------------------------------
(* Storage: the count that stands before the elements of an allocation.    *)

REFCOUNT_1 == -MaxRefs

increment_reference_count(rc) == IF rc = 0 THEN 0 ELSE rc + 1

is_unique(rc) == rc = REFCOUNT_1

is_readonly(rc) == rc = 0

(* Memory that roc_dealloc gave back.                                      *)
free == [live |-> FALSE, rc |-> 0, text |-> Garbage]

decrease(a) == IF is_unique(a.rc) THEN free ELSE [a EXCEPT !.rc = @ - 1]
-----------------------------------------------------------------------------
(* The counts of a list, of a box, and of a string, which counts by        *)
(* itself: adding one makes a count of 0 another one.                      *)

RocList_clone(a) == [a EXCEPT !.rc = increment_reference_count(@)]

RocList_dec(a) == IF is_readonly(a.rc) THEN a ELSE decrease(a)

RocBox_clone(a) == [a EXCEPT !.rc = increment_reference_count(@)]

RocBox_dec(a) == IF is_readonly(a.rc) THEN a ELSE decrease(a)

(* Variant: the new reference is not counted.                              *)
BigString_clone_Uncounted(a) == a

BigString_clone(a) == [a EXCEPT !.rc = @ + 1]

(* Variant: the count of an allocation that is never freed is taken down.  *)
BigString_dec_Readonly(a) ==
  IF is_unique(a.rc) THEN free ELSE [a EXCEPT !.rc = @ - 1]

BigString_dec(a) ==
  CASE is_unique(a.rc)   -> free
    [] is_readonly(a.rc) -> a
    [] OTHER             -> [a EXCEPT !.rc = @ - 1]
-----------------------------------------------------------------------------
(* The allocation of a value; one without an address has none.             *)

onHeap(v) == v.address # Nothing

elems_with_capacity(h, address, text) ==
  [h EXCEPT ![address] = [live |-> TRUE, rc |-> REFCOUNT_1, text |-> text]]

clone(h, v) ==
  IF ~onHeap(v) THEN h
  ELSE [h EXCEPT ![v.address] = CASE v.type = "RocStr"  -> BigString_clone(@)
                                  [] v.type = "RocList" -> RocList_clone(@)
                                  [] v.type = "RocBox"  -> RocBox_clone(@)]

dec(h, v) ==
  IF ~onHeap(v) THEN h
  ELSE [h EXCEPT ![v.address] = CASE v.type = "RocStr"  -> BigString_dec(@)
                                  [] v.type = "RocList" -> RocList_dec(@)
                                  [] v.type = "RocBox"  -> RocBox_dec(@)]
=============================================================================
