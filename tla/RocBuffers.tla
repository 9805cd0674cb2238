----------------------------- MODULE RocBuffers -----------------------------
(***************************************************************************)
(* Lists and strings of crates/roc_std that are made with room to spare,   *)
(* grown, shared, cut and handed to C: RocList of plain elements, RocStr   *)
(* and its BigString.                                                      *)
(*                                                                         *)
(* The text of an allocation is the sequence of its cells, whose number is *)
(* its size.  A list or a BigString refers to some of them: length cells   *)
(* after the first start ones.  A slice has no capacity of its own; in its *)
(* place it keeps where the allocation starts.  Sizes in bytes, alignment  *)
(* and elements that are counted themselves are left out.                  *)
(***************************************************************************)
EXTENDS Storage, FiniteSets, Sequences

CONSTANTS Variables,     \* the variables of the host
          Addresses,     \* where the allocator puts an allocation
          Elements,      \* the elements of lists and the characters of strings
          Uninit,        \* a cell that was never written
          SmallCapacity, \* SmallString::CAPACITY
          UninitCounts,  \* what may stand where a count was never or over-written
          MaxLength,     \* bound of the capacity that is asked for
          Careful        \* the functions that the host uses well

ASSUME BuffersAssumption ==
  /\ IsFiniteSet(Variables) /\ MaxRefs \in Nat \ {0}
  /\ SmallCapacity \in Nat /\ MaxLength \in Nat
  /\ UninitCounts \subseteq {rc \in Int : rc >= REFCOUNT_1}
  /\ Uninit \notin Elements /\ Nothing \notin Addresses \cup Seq(Elements)

VARIABLES heap,   \* the allocations
          owned   \* the value that each variable owns

vars == <<heap, owned>>

NoValue == [type |-> "none"]

Texts == UNION {[1 .. n -> Elements] : n \in 0 .. MaxLength}
-----------------------------------------------------------------------------
(* Cells and the allocator.                                                *)

uninit(n) == [i \in 1 .. n |-> Uninit]

resized(cells, n) == [i \in 1 .. n |-> IF i \in DOMAIN cells THEN cells[i] ELSE Uninit]

(* What is written beyond the last cell is lost.                           *)
written(cells, at, s) ==
  [i \in DOMAIN cells |-> IF i - at \in DOMAIN s THEN s[i - at] ELSE cells[i]]

unused(h) == {address \in Addresses : ~h[address].live}

roc_alloc(h, address, rc, cells) ==
  [h EXCEPT ![address] = [live |-> TRUE, rc |-> rc, text |-> cells]]

(* In place, or at an address that was free.                               *)
roc_realloc(h, address, n) ==
  LET allocation == [h[address] EXCEPT !.text = resized(@, n)]
  IN  {[heap |-> [h EXCEPT ![address] = free, ![to] = allocation], address |-> to] :
         to \in unused(h) \cup {address}}
-----------------------------------------------------------------------------
(* Values.                                                                 *)

small(s) ==
  [type |-> "RocStr", address |-> Nothing, text |-> s,
   start |-> 0, length |-> Len(s), capacity |-> SmallCapacity, slice |-> FALSE]

emptyList ==
  [type |-> "RocList", address |-> Nothing, text |-> <<>>,
   start |-> 0, length |-> 0, capacity |-> 0, slice |-> FALSE]

big(type, address, length, capacity) ==
  [type |-> type, address |-> address, text |-> <<>>,
   start |-> 0, length |-> length, capacity |-> capacity, slice |-> FALSE]

capacity(v) == IF v.slice THEN v.length ELSE v.capacity

cells(h, v) == IF h[v.address].live THEN h[v.address].text ELSE <<>>

as_slice(h, v) ==
  IF ~onHeap(v) THEN v.text
  ELSE [i \in 1 .. v.length |-> resized(cells(h, v), v.start + i)[v.start + i]]

(* A BigString without capacity has no count, a list without an allocation *)
(* is unique.                                                              *)
unique(h, v) ==
  CASE ~onHeap(v) -> TRUE
    [] v.type = "RocStr" /\ capacity(v) = 0 -> FALSE
    [] OTHER -> is_unique(h[v.address].rc)

(* Variant: a list without capacity is not counted either.                 *)
dropped_NoCapacity(h, v) == IF capacity(v) = 0 THEN h ELSE dec(h, v)

dropped(h, v) == IF v.type = "RocStr" /\ capacity(v) = 0 THEN h ELSE dec(h, v)
-----------------------------------------------------------------------------
(* Growing.  A call leaves one of several outcomes: a heap and the value   *)
(* that the variable has then.                                             *)

same(h, v) == {[heap |-> h, value |-> v]}

(* Variant: the cells at the start of the allocation are copied.           *)
copied_FromStart(h, v, address, rc, n) ==
  LET from == IF onHeap(v) THEN resized(cells(h, v), v.length) ELSE v.text
  IN  dropped(roc_alloc(h, address, rc, written(uninit(n), 0, from)), v)

(* Elements of v that are copied to a new allocation of n cells.           *)
copied(h, v, address, rc, n) ==
  dropped(roc_alloc(h, address, rc, written(uninit(n), 0, as_slice(h, v))), v)

(* A list that is reallocated in place keeps the capacity that it had.     *)
RocList_reserve(h, v, n) ==
  LET new_len == n + v.length
  IN  IF onHeap(v) /\ unique(h, v) /\ ~v.slice
      THEN {[heap |-> r.heap,
             value |-> IF r.address = v.address THEN v
                       ELSE big("RocList", r.address, v.length, new_len)] :
              r \in roc_realloc(h, v.address, new_len)}
      ELSE {[heap |-> copied(h, v, address, REFCOUNT_1, new_len),
             value |-> big("RocList", address, v.length, new_len)] : address \in unused(h)}

BigString_reserve(h, v, n) ==
  LET desired_cap == v.length + n
  IN  IF onHeap(v) /\ unique(h, v) /\ ~v.slice
      THEN IF capacity(v) >= desired_cap THEN same(h, v)
           ELSE {[heap |-> r.heap, value |-> big("RocStr", r.address, v.length, desired_cap)] :
                   r \in roc_realloc(h, v.address, desired_cap)}
      ELSE {[heap |-> copied(h, v, address, rc, desired_cap),
             value |-> big("RocStr", address, v.length, desired_cap)] :
              address \in unused(h), rc \in UninitCounts}

RocStr_reserve(h, v, n) ==
  IF ~onHeap(v) /\ v.length + n <= SmallCapacity THEN same(h, v) ELSE BigString_reserve(h, v, n)

append(o, s) ==
  [heap |-> [o.heap EXCEPT ![o.value.address].text = written(@, o.value.start + o.value.length, s)],
   value |-> [o.value EXCEPT !.length = @ + Len(s)]]

(* Variant: a list that is full does not grow.                             *)
RocList_push_Full(h, v, e) ==
  {append(o, <<e>>) :
     o \in IF capacity(v) < v.length THEN RocList_reserve(h, v, 1) ELSE same(h, v)}

RocList_push(h, v, e) ==
  {append(o, <<e>>) :
     o \in IF capacity(v) <= v.length THEN RocList_reserve(h, v, 1) ELSE same(h, v)}

(* A list that is shared leaves room for the new elements alone.           *)
extended(h, v, n) ==
  CASE onHeap(v) /\ unique(h, v) /\ capacity(v) >= v.length + n -> same(h, v)
    [] onHeap(v) /\ unique(h, v) /\ capacity(v) < v.length + n ->
         {[heap |-> r.heap, value |-> big("RocList", r.address, v.length, v.length + n)] :
            r \in roc_realloc(h, v.address, v.length + n)}
    [] OTHER ->
         {[heap |-> copied(h, v, address, REFCOUNT_1, n),
           value |-> big("RocList", address, v.length, n)] : address \in unused(h)}

extend_from_slice(h, v, s) ==
  IF s = <<>> THEN same(h, v) ELSE {append(o, s) : o \in extended(h, v, Len(s))}
-----------------------------------------------------------------------------
(* The calls of the host.                                                  *)

owns(x, type) == owned[x] # NoValue /\ owned[x].type = type

becomes(x, outcomes) ==
  \E o \in outcomes : heap' = o.heap /\ owned' = [owned EXCEPT ![x] = o.value]

makes(x, outcomes) == owned[x] = NoValue /\ becomes(x, outcomes)

RocList_with_capacity(x, n) == makes(x, RocList_reserve(heap, emptyList, n))

RocList_from_slice(x, s) == makes(x, extend_from_slice(heap, emptyList, s))

(* The next element of an iterator; a list that is full grows by half.     *)
yielded(outcomes, e) ==
  {append(o, <<e>>) :
     o \in UNION {IF o.value.length = capacity(o.value)
                  THEN RocList_reserve(o.heap, o.value, capacity(o.value) \div 2) ELSE {o} :
                    o \in outcomes}}

(* Elements one by one; the iterator promised up to hint of them.          *)
collected(h, s, hint) ==
  LET list[i \in 0 .. Len(s)] ==
        IF i = 0 THEN RocList_reserve(h, emptyList, hint) ELSE yielded(list[i - 1], s[i])
  IN  list[Len(s)]

from_iter(x, s, hint) == makes(x, collected(heap, s, hint))

RocStr_with_capacity(x, n) == makes(x, RocStr_reserve(heap, small(<<>>), n))

RocStr_from(x, s) ==
  makes(x, IF Len(s) <= SmallCapacity THEN same(heap, small(s))
           ELSE {[o EXCEPT !.value.type = "RocStr"] : o \in extend_from_slice(heap, emptyList, s)})

Clone(x, y) ==
  /\ owned[x] # NoValue /\ owned[y] = NoValue
  /\ heap' = clone(heap, owned[x])
  /\ owned' = [owned EXCEPT ![y] = owned[x]]

Drop(x) ==
  /\ owned[x] # NoValue
  /\ heap' = dropped(heap, owned[x])
  /\ owned' = [owned EXCEPT ![x] = NoValue]

push(x, e) == owns(x, "RocList") /\ becomes(x, RocList_push(heap, owned[x], e))

extend(x, s) == owns(x, "RocList") /\ becomes(x, extend_from_slice(heap, owned[x], s))

reserve(x, n) ==
  \/ owns(x, "RocList") /\ becomes(x, RocList_reserve(heap, owned[x], n))
  \/ owns(x, "RocStr")  /\ becomes(x, RocStr_reserve(heap, owned[x], n))

(* The part of v from from to to: it refers to the allocation of v.        *)
sliced(v, from, to) ==
  IF ~onHeap(v) THEN small(SubSeq(v.text, from + 1, to))
  ELSE [v EXCEPT !.start = @ + from, !.length = to - from, !.capacity = 0, !.slice = TRUE]

(* A slice finds the count before the first element of what it was cut     *)
(* from; that must be the start of an allocation.                          *)
sliceable(v) == IF onHeap(v) THEN v.start = 0 ELSE v.type = "RocStr"

(* Variant: the slice is not counted.                                      *)
try_slice_range_Uncounted(x, y, from, to) ==
  /\ owned[x] # NoValue /\ owned[y] = NoValue
  /\ sliceable(owned[x]) /\ to <= owned[x].length
  /\ UNCHANGED heap
  /\ owned' = [owned EXCEPT ![y] = sliced(owned[x], from, to)]

try_slice_range(x, y, from, to) ==
  /\ owned[x] # NoValue /\ owned[y] = NoValue
  /\ sliceable(owned[x]) /\ to <= owned[x].length
  /\ heap' = clone(heap, owned[x])
  /\ owned' = [owned EXCEPT ![y] = sliced(owned[x], from, to)]

(* The delimiter stands from i to j; an empty one is found at the start.   *)
split_once(x, y, z, i, j) ==
  /\ i = j => i = 0
  /\ owns(x, "RocStr") /\ owned[y] = NoValue /\ owned[z] = NoValue /\ y # z
  /\ sliceable(owned[x]) /\ j <= owned[x].length
  /\ heap' = clone(clone(heap, owned[x]), owned[x])
  /\ owned' = [owned EXCEPT ![y] = sliced(owned[x], 0, i),
                            ![z] = sliced(owned[x], j, owned[x].length)]

(* Without room for the terminator, the string is shifted over its count,  *)
(* which the drop that follows reads.                                      *)
with_utf8_terminator(x) ==
  LET v == owned[x]
  IN  /\ owns(x, "RocStr") /\ owned' = [owned EXCEPT ![x] = NoValue]
      /\ IF onHeap(v) /\ unique(heap, v) /\ v.length >= capacity(v)
         THEN \E rc \in UninitCounts :
                heap' = dropped([heap EXCEPT ![v.address].rc = rc], v)
         ELSE heap' = dropped(heap, v)

(* Within the allocation of the string, if there is room, which is freed   *)
(* without its count; otherwise in a copy.                                 *)
with_terminator(x) ==
  LET v == owned[x]
  IN  /\ owns(x, "RocStr") /\ owned' = [owned EXCEPT ![x] = NoValue]
      /\ \/ onHeap(v) /\ unique(heap, v) /\ heap' = [heap EXCEPT ![v.address] = free]
         \/ heap' = dropped(heap, v)
-----------------------------------------------------------------------------
Init ==
  /\ heap = [address \in Addresses |-> free]
  /\ owned = [x \in Variables |-> NoValue]

(* Where the library is right: what a list writes in place is its own,     *)
(* room that a list has is not asked for again, and an iterator has no     *)
(* more elements than it promised.                                         *)
pushWellUsed(v) == capacity(v) > v.length => unique(heap, v)

extendWellUsed(v) == onHeap(v) => unique(heap, v) /\ v.start = 0

reserveWellUsed(v, n) ==
  v.type = "RocList" /\ onHeap(v) /\ unique(heap, v) /\ ~v.slice =>
    v.length + n >= v.capacity

usesWell(function, condition) == function \in Careful => condition

(* A variable whose sequence has room within the bound for n more.         *)
grows(x, n) == owned[x] # NoValue /\ owned[x].length + n <= MaxLength

Make(x) ==
  \/ \E s \in Texts : RocList_from_slice(x, s) \/ RocStr_from(x, s)
  \/ \E n \in 0 .. MaxLength : RocList_with_capacity(x, n) \/ RocStr_with_capacity(x, n)
  \/ \E s \in Texts, hint \in 0 .. MaxLength :
       usesWell("from_iter", Len(s) <= hint) /\ from_iter(x, s, hint)

Grow(x) ==
  \/ \E e \in Elements :
       grows(x, 1) /\ usesWell("push", pushWellUsed(owned[x])) /\ push(x, e)
  \/ \E s \in Texts :
       grows(x, Len(s)) /\ usesWell("extend", extendWellUsed(owned[x])) /\ extend(x, s)
  \/ \E n \in 0 .. MaxLength :
       grows(x, n) /\ usesWell("reserve", reserveWellUsed(owned[x], n)) /\ reserve(x, n)

Share(x) ==
  \E y \in Variables :
    \/ Clone(x, y)
    \/ \E from \in 0 .. MaxLength : \E to \in from .. MaxLength : try_slice_range(x, y, from, to)
    \/ \E z \in Variables, i \in 0 .. MaxLength : \E j \in i .. MaxLength :
         split_once(x, y, z, i, j)

Next ==
  \E x \in Variables :
    Make(x) \/ Grow(x) \/ Share(x) \/ Drop(x) \/ with_utf8_terminator(x) \/ with_terminator(x)

Spec == Init /\ [][Next]_vars
-----------------------------------------------------------------------------
(* Properties.                                                             *)

references(address) ==
  {x \in Variables : owned[x] # NoValue /\ owned[x].address = address}

(* No allocation is freed while a variable refers to it: its count says at *)
(* least how many do, even where a count was never written or a slice      *)
(* without elements was dropped (dec, reserve, try_slice_range).           *)
NotFreedEarly ==
  \A address \in Addresses :
    references(address) # {} =>
      /\ heap[address].live
      /\ \/ heap[address].rc >= 0
         \/ heap[address].rc >= REFCOUNT_1 + Cardinality(references(address)) - 1

(* Two of the things that from_raw_parts asks of its callers hold of what  *)
(* the library makes itself: the allocation has room for the capacity, and *)
(* the elements are written (reserve, extend_from_slice, push).            *)
AllocatedForCapacity ==
  \A x \in Variables :
    owned[x] # NoValue /\ onHeap(owned[x]) =>
      /\ owned[x].start + capacity(owned[x]) <= Len(cells(heap, owned[x]))
      /\ as_slice(heap, owned[x]) \in Seq(Elements)

(* "`cap` >= `len`": the capacity of what was pushed to, extended or       *)
(* reserved is up to date and covers its elements (reserve, push).         *)
LengthWithinCapacity ==
  \A x \in Variables :
    owned[x] # NoValue /\ onHeap(owned[x]) => owned[x].length <= capacity(owned[x])

(* The last list that refers to an allocation frees it, unless it had more *)
(* references than can be counted (RocList::dec and reserve).              *)
ListsNotLeaked ==
  [][\A address \in Addresses :
       /\ \E x \in references(address) : owned[x].type = "RocList"
       /\ references(address)' = {}
       => ~heap'[address].live \/ heap[address].rc >= 0]_vars

(* The sequences that the variables read.                                  *)
RocSequences == INSTANCE RocSequences
  WITH values <- [x \in Variables |->
                    IF owned[x] = NoValue THEN Nothing ELSE as_slice(heap, owned[x])]

(* Growing in place cannot be seen: a variable reads what it was made from *)
(* and what was appended to it, whoever shares its allocation.             *)
SequencesKept == RocSequences!SequencesSpec
=============================================================================
