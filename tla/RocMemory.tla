----------------------------- MODULE RocMemory -----------------------------
(***************************************************************************)
(* The values of crates/roc_std that the host owns: strings (RocStr),      *)
(* lists and boxes of plain elements (RocList, RocBox), strings within a   *)
(* RocResult, and strings and lists that may be sent to another thread     *)
(* (SendSafeRocStr, SendSafeRocList).                                      *)
(*                                                                         *)
(* What a value holds is a text; alignment and capacity, which is the      *)
(* length of what a value was made from, are left out: RocBuffers has the  *)
(* values that grow and are cut.                                           *)
(***************************************************************************)
EXTENDS Storage, FiniteSets

CONSTANTS Variables,   \* the variables of the host
          Addresses,   \* where the allocator puts an allocation
          Texts,       \* the contents of values;
          SmallTexts,  \* those that are short enough for a SmallString
          Empty        \* and the one without elements

ASSUME MemoryAssumption ==
  /\ IsFiniteSet(Variables) /\ MaxRefs \in Nat \ {0}
  /\ Empty \in SmallTexts /\ SmallTexts \subseteq Texts
  /\ Garbage \notin Texts /\ Nothing \notin Texts \cup Addresses

VARIABLES heap,   \* the allocations
          owned   \* the value that each variable owns

vars == <<heap, owned>>

Types == {"RocStr", "RocList", "RocBox"}

(* A value of a variable: at no address it is within the variable itself.  *)
Values ==
  [type : Types, address : Addresses \cup {Nothing}, text : Texts,
   tag : {"none", "RocOk", "RocErr"}, sendSafe : BOOLEAN]

NoValue == [type |-> "none"]
-----------------------------------------------------------------------------
(* Values.                                                                 *)

(* A value without an allocation is unique and not read-only.              *)
sendable(h, v) ==
  onHeap(v) => is_unique(h[v.address].rc) \/ is_readonly(h[v.address].rc)

contents(h, v) == IF onHeap(v) THEN h[v.address].text ELSE v.text

(* The memory that the allocator has.                                      *)
unused == {address \in Addresses : ~heap[address].live}

value(type, address, text) ==
  [type |-> type, address |-> address, text |-> text, tag |-> "none", sendSafe |-> FALSE]
-----------------------------------------------------------------------------
(* A value whose elements are in the variable, or in a new allocation.     *)
inPlace(x, type, text) ==
  owned' = [owned EXCEPT ![x] = value(type, Nothing, text)] /\ UNCHANGED heap

allocated(x, type, text) ==
  \E address \in unused :
    /\ heap' = elems_with_capacity(heap, address, text)
    /\ owned' = [owned EXCEPT ![x] = value(type, address, text)]

RocStr_from(x, text) ==
  /\ owned[x] = NoValue
  /\ \/ text \in SmallTexts /\ inPlace(x, "RocStr", text)
     \/ text \notin SmallTexts /\ allocated(x, "RocStr", text)

RocList_from_slice(x, text) ==
  /\ owned[x] = NoValue
  /\ \/ text = Empty /\ inPlace(x, "RocList", text)
     \/ text # Empty /\ allocated(x, "RocList", text)

RocBox_new(x, text) == owned[x] = NoValue /\ allocated(x, "RocBox", text)

(* A value that was wrapped for another thread has a clone of its own.     *)
Clone(x, y) ==
  /\ owned[x] # NoValue /\ ~owned[x].sendSafe /\ owned[y] = NoValue
  /\ heap' = clone(heap, owned[x])
  /\ owned' = [owned EXCEPT ![y] = owned[x]]

Drop(x) ==
  /\ owned[x] # NoValue
  /\ heap' = dec(heap, owned[x])
  /\ owned' = [owned EXCEPT ![x] = NoValue]

set_readonly(x) ==
  /\ owned[x] # NoValue /\ owned[x].type \in {"RocStr", "RocList"} /\ onHeap(owned[x])
  /\ ~owned[x].sendSafe /\ owned[x].tag = "none"
  /\ heap' = [heap EXCEPT ![owned[x].address].rc = 0]
  /\ UNCHANGED owned

(* Variant: a value is sent whoever shares it.                             *)
SendSafe_Shared(x) ==
  /\ owned[x] # NoValue /\ owned[x].type \in {"RocStr", "RocList"}
  /\ ~owned[x].sendSafe /\ owned[x].tag = "none"
  /\ owned' = [owned EXCEPT ![x].sendSafe = TRUE] /\ UNCHANGED heap

(* A value that others share is copied, and dropped.                       *)
SendSafe(x) ==
  /\ owned[x] # NoValue /\ owned[x].type \in {"RocStr", "RocList"}
  /\ ~owned[x].sendSafe /\ owned[x].tag = "none"
  /\ \/ /\ sendable(heap, owned[x])
        /\ owned' = [owned EXCEPT ![x].sendSafe = TRUE] /\ UNCHANGED heap
     \/ /\ ~sendable(heap, owned[x])
        /\ \E address \in unused :
             /\ heap' = dec(elems_with_capacity(heap, address, contents(heap, owned[x])), owned[x])
             /\ owned' = [owned EXCEPT ![x].sendSafe = TRUE, ![x].address = address]

SendSafeClone(x, y) ==
  /\ owned[x] # NoValue /\ owned[x].sendSafe /\ owned[y] = NoValue
  /\ \/ /\ onHeap(owned[x]) => is_readonly(heap[owned[x].address].rc)
        /\ heap' = clone(heap, owned[x])
        /\ owned' = [owned EXCEPT ![y] = owned[x]]
     \/ /\ onHeap(owned[x]) /\ ~is_readonly(heap[owned[x].address].rc)
        /\ \E address \in unused :
             /\ heap' = elems_with_capacity(heap, address, contents(heap, owned[x]))
             /\ owned' = [owned EXCEPT ![y] = [owned[x] EXCEPT !.address = address]]

Unwrap(x) ==
  /\ owned[x] # NoValue /\ owned[x].sendSafe
  /\ owned' = [owned EXCEPT ![x].sendSafe = FALSE] /\ UNCHANGED heap

(* RocResult::ok and err.                                                  *)
RocResult(x, tag) ==
  /\ owned[x] # NoValue /\ ~owned[x].sendSafe /\ owned[x].tag = "none"
  /\ owned' = [owned EXCEPT ![x].tag = tag] /\ UNCHANGED heap

(* Variant: the result is dropped although its payload was moved.          *)
into_payload_Dropped(x) ==
  /\ owned[x] # NoValue /\ owned[x].tag # "none"
  /\ owned' = [owned EXCEPT ![x].tag = "none"] /\ heap' = dec(heap, owned[x])

(* The payload moves; the result is forgotten, not dropped.                *)
into_payload(x) ==
  /\ owned[x] # NoValue /\ owned[x].tag # "none"
  /\ owned' = [owned EXCEPT ![x].tag = "none"] /\ UNCHANGED heap
-----------------------------------------------------------------------------
Init ==
  /\ heap = [address \in Addresses |-> free]
  /\ owned = [x \in Variables |-> NoValue]

Next ==
  \/ \E x \in Variables, text \in Texts :
       RocStr_from(x, text) \/ RocList_from_slice(x, text) \/ RocBox_new(x, text)
  \/ \E x, y \in Variables : Clone(x, y) \/ SendSafeClone(x, y)
  \/ \E x \in Variables :
       Drop(x) \/ set_readonly(x) \/ SendSafe(x) \/ Unwrap(x) \/ into_payload(x)
  \/ \E x \in Variables : RocResult(x, "RocOk") \/ RocResult(x, "RocErr")

Spec == Init /\ [][Next]_vars
-----------------------------------------------------------------------------
(* Properties.                                                             *)

references(address) ==
  {x \in Variables : owned[x] # NoValue /\ owned[x].address = address}

(* An allocation is freed with its last reference, not before and not      *)
(* later; until then its count is the number of the variables that refer   *)
(* to it.  One that is read-only, or had more references than can be       *)
(* counted, is never freed (Storage, BigString, Clone and Drop).           *)
ReferencesCounted ==
  \A address \in Addresses :
    IF heap[address].live
    THEN \/ heap[address].rc >= 0
         \/ /\ references(address) # {}
            /\ heap[address].rc = REFCOUNT_1 + Cardinality(references(address)) - 1
    ELSE references(address) = {}

(* No other variable of this thread refers to what was wrapped for another *)
(* thread, whose counts are not atomic, unless it is never freed           *)
(* (SendSafeRocStr, SendSafeRocList).                                      *)
SendSafeAlone ==
  \A x \in Variables :
    owned[x] # NoValue /\ owned[x].sendSafe /\ onHeap(owned[x]) =>
      \/ references(owned[x].address) = {x}
      \/ heap[owned[x].address].rc >= 0

(* What is read-only is leaked, as set_readonly says: it is neither freed  *)
(* nor ever counted again, though strings count on from 0.                 *)
StaysReadonly ==
  [][\A address \in Addresses :
       heap[address].live /\ heap[address].rc >= 0 =>
         heap'[address].live /\ heap'[address].rc >= 0]_vars

(* The contents that each variable reads.                                  *)
RocValues == INSTANCE RocValues
  WITH values <- [x \in Variables |->
                    IF owned[x] = NoValue THEN Nothing ELSE contents(heap, owned[x])]

(* Sharing cannot be seen: what a variable reads is what it was made from, *)
(* whatever is cloned, dropped, sent and allocated elsewhere.              *)
ValuesKept == RocValues!Spec
=============================================================================
