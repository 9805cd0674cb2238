-------------------------- MODULE RocBuffersProofs --------------------------
(***************************************************************************)
(* Proofs about lists and strings that grow and are cut.  Effect says what *)
(* a call that grows a value does to the heap, Reads and ReadsMore what    *)
(* the value reads then; CountInv and ContentInv are the invariants, of    *)
(* the counts and of the cells.                                            *)
(***************************************************************************)
EXTENDS RocBuffers, SequenceTheorems, FiniteSetTheorems, WellFoundedInduction, TLAPS

AnyCell == Elements \cup {Uninit}

Allocation == [live : {TRUE}, rc : Int, text : Seq(AnyCell)] \cup {free}

Heap == [Addresses -> Allocation]

Fields ==
  [type : {"RocList", "RocStr"}, address : Addresses \cup {Nothing}, text : Seq(Elements),
   start : Nat, length : Nat, capacity : Nat, slice : BOOLEAN]

(* What has no allocation is a small string or a list without elements.    *)
Value == {v \in Fields : onHeap(v) \/ v = emptyList \/ v = small(v.text)}

Outcome == [heap : Heap, value : Value]
-----------------------------------------------------------------------------
(* Cells.                                                                  *)

LEMMA AllocationIs ==
  ASSUME NEW a \in Allocation
  PROVE  /\ a.live \in BOOLEAN /\ a.rc \in Int
         /\ a.live => a.text \in Seq(AnyCell)
         /\ ~a.live => a = free
         /\ a.rc = REFCOUNT_1 => a.live
         /\ REFCOUNT_1 \in Int /\ REFCOUNT_1 < 0
<1>1. REFCOUNT_1 \in Int /\ REFCOUNT_1 < 0
  BY BuffersAssumption DEF REFCOUNT_1, BuffersAssumption
<1>2. CASE a \in [live : {TRUE}, rc : Int, text : Seq(AnyCell)]
  BY <1>1, <1>2
<1>3. CASE a = free
  BY <1>1, <1>3 DEF free
<1> QED
  BY <1>2, <1>3 DEF Allocation

LEMMA FreeIs == free \in Allocation /\ ~free.live /\ free.rc = 0
BY DEF Allocation, free

LEMMA AllocationMade ==
  ASSUME NEW rc \in Int, NEW s \in Seq(AnyCell)
  PROVE  LET a == [live |-> TRUE, rc |-> rc, text |-> s]
         IN  a \in Allocation /\ a.live /\ a.rc = rc /\ a.text = s
BY DEF Allocation

LEMMA ElementsAreCells ==
  ASSUME NEW s \in Seq(Elements)
  PROVE  s \in Seq(AnyCell)
BY SeqMonotonic DEF AnyCell

LEMMA UninitCells ==
  ASSUME NEW n \in Nat
  PROVE  uninit(n) \in Seq(AnyCell) /\ Len(uninit(n)) = n
<1>1. uninit(n) \in [1 .. n -> AnyCell]
  BY DEF uninit, AnyCell
<1> QED
  BY <1>1

LEMMA ResizedCells ==
  ASSUME NEW s \in Seq(AnyCell), NEW n \in Nat
  PROVE  /\ resized(s, n) \in Seq(AnyCell) /\ Len(resized(s, n)) = n
         /\ \A i \in 1 .. n : resized(s, n)[i] = IF i <= Len(s) THEN s[i] ELSE Uninit
<1>1. DOMAIN s = 1 .. Len(s) /\ Len(s) \in Nat /\ \A i \in 1 .. Len(s) : s[i] \in AnyCell
  BY LenProperties, ElementOfSeq
<1>2. resized(s, n) \in [1 .. n -> AnyCell]
  BY <1>1 DEF resized, AnyCell
<1> QED
  BY <1>1, <1>2 DEF resized

LEMMA WrittenCells ==
  ASSUME NEW s \in Seq(AnyCell), NEW at \in Nat, NEW t \in Seq(AnyCell)
  PROVE  /\ written(s, at, t) \in Seq(AnyCell) /\ Len(written(s, at, t)) = Len(s)
         /\ \A i \in 1 .. Len(s) :
              written(s, at, t)[i] = IF at < i /\ i <= at + Len(t) THEN t[i - at] ELSE s[i]
<1>1. /\ DOMAIN s = 1 .. Len(s) /\ Len(s) \in Nat /\ \A i \in 1 .. Len(s) : s[i] \in AnyCell
      /\ DOMAIN t = 1 .. Len(t) /\ Len(t) \in Nat /\ \A i \in 1 .. Len(t) : t[i] \in AnyCell
  BY LenProperties, ElementOfSeq
<1>2. \A i \in 1 .. Len(s) : i - at \in DOMAIN t <=> at < i /\ i <= at + Len(t)
  BY <1>1
<1>3. \A i \in 1 .. Len(s) :
        written(s, at, t)[i] = IF at < i /\ i <= at + Len(t) THEN t[i - at] ELSE s[i]
  BY <1>1, <1>2 DEF written
<1>4. written(s, at, t) \in [1 .. Len(s) -> AnyCell]
  BY <1>1 DEF written
<1> QED
  BY <1>1, <1>3, <1>4
-----------------------------------------------------------------------------
(* What a value refers to.                                                 *)

LEMMA ValueIs ==
  ASSUME NEW v \in Value
  PROVE  /\ v # NoValue /\ v.type \in {"RocList", "RocStr"}
         /\ v.address \in Addresses \cup {Nothing}
         /\ onHeap(v) => v.address \in Addresses
         /\ v.text \in Seq(Elements) /\ v.slice \in BOOLEAN
         /\ v.start \in Nat /\ v.length \in Nat /\ v.capacity \in Nat /\ capacity(v) \in Nat
         /\ ~onHeap(v) /\ v.type = "RocList" => v = emptyList
         /\ ~onHeap(v) /\ v.type = "RocStr" => v = small(v.text)
<1>1. v.type # "none" /\ v \in Fields
  BY DEF Value, Fields
<1>2. ~onHeap(v) => v = emptyList \/ v = small(v.text)
  BY DEF Value
<1>3. v = emptyList => v.type = "RocList"
  BY DEF emptyList
<1>4. v = small(v.text) => v.type = "RocStr"
  BY DEF small
<1> QED
  BY <1>1, <1>2, <1>3, <1>4 DEF Fields, NoValue, onHeap, capacity

LEMMA CellsRead ==
  ASSUME NEW h \in Heap, NEW v \in Value, onHeap(v)
  PROVE  /\ cells(h, v) \in Seq(AnyCell)
         /\ h[v.address].live => cells(h, v) = h[v.address].text
<1>1. h[v.address] \in Allocation
  BY ValueIs DEF Heap
<1> QED
  BY <1>1, AllocationIs DEF cells

LEMMA AsSliceIs ==
  ASSUME NEW h \in Heap, NEW v \in Value
  PROVE  /\ as_slice(h, v) \in Seq(AnyCell)
         /\ ~onHeap(v) => as_slice(h, v) = v.text
         /\ onHeap(v) =>
              /\ Len(as_slice(h, v)) = v.length
              /\ \A i \in 1 .. v.length :
                   as_slice(h, v)[i] = IF v.start + i <= Len(cells(h, v))
                                       THEN cells(h, v)[v.start + i] ELSE Uninit
<1>1. CASE ~onHeap(v)
  BY <1>1, ValueIs, ElementsAreCells DEF as_slice
<1>2. CASE onHeap(v)
  <2>1. cells(h, v) \in Seq(AnyCell) /\ v.start \in Nat /\ v.length \in Nat
    BY <1>2, CellsRead, ValueIs
  <2> DEFINE c == cells(h, v)
             read(i) == resized(c, v.start + i)[v.start + i]
  <2>2. as_slice(h, v) = [i \in 1 .. v.length |-> read(i)]
    BY <1>2 DEF as_slice
  <2> HIDE DEF c
  <2>3. ASSUME NEW i \in 1 .. v.length
        PROVE  /\ read(i) = IF v.start + i <= Len(c) THEN c[v.start + i] ELSE Uninit
               /\ read(i) \in AnyCell
    <3>1. v.start + i \in Nat /\ v.start + i \in 1 .. v.start + i
      BY <2>1
    <3>2. /\ resized(c, v.start + i) \in Seq(AnyCell)
          /\ Len(resized(c, v.start + i)) = v.start + i
          /\ read(i) = IF v.start + i <= Len(c) THEN c[v.start + i] ELSE Uninit
      BY <2>1, <3>1, ResizedCells DEF c
    <3> QED
      BY <3>1, <3>2, ElementOfSeq
  <2> HIDE DEF read
  <2>4. as_slice(h, v) \in [1 .. v.length -> AnyCell]
    BY <2>2, <2>3
  <2> QED
    BY <1>2, <2>1, <2>2, <2>3, <2>4, SMTT(30) DEF c
<1> QED
  BY <1>1, <1>2
-----------------------------------------------------------------------------
(* What a call makes of the counts.                                        *)

(* The calls need an allocation where a value says that there is one.      *)
Grounded(h, v) == onHeap(v) => h[v.address].live

(* An allocation after one reference was given up.                         *)
lessOne(a) ==
  IF a.rc = REFCOUNT_1 THEN free ELSE IF a.rc = 0 THEN a ELSE [a EXCEPT !.rc = @ - 1]

SameCount(a, b) == b.live = a.live /\ b.rc = a.rc

(* The value stays in its allocation, or takes it to another address, or   *)
(* gives it up for a new one.                                              *)
Stays(h, v, o) ==
  /\ o.value.address = v.address
  /\ onHeap(v) => SameCount(h[v.address], o.heap[v.address])

Moves(h, v, o) ==
  /\ onHeap(v) /\ h[v.address].rc = REFCOUNT_1
  /\ o.value.address \in unused(h)
  /\ o.heap[v.address] = free
  /\ o.heap[o.value.address].live /\ o.heap[o.value.address].rc = REFCOUNT_1

Leaves(h, v, o) ==
  /\ o.value.address \in unused(h)
  /\ o.heap[o.value.address].live /\ o.heap[o.value.address].rc >= REFCOUNT_1
  /\ o.value.type = "RocList" => o.heap[o.value.address].rc = REFCOUNT_1
  /\ onHeap(v) => o.heap[v.address] = dropped(h, v)[v.address]

(* Nothing else changes.                                                   *)
Effect(h, v, o) ==
  /\ Stays(h, v, o) \/ Moves(h, v, o) \/ Leaves(h, v, o)
  /\ \A b \in Addresses : b # v.address /\ b # o.value.address => o.heap[b] = h[b]
  /\ onHeap(v) => o.value.type = v.type

LEMMA LessOneIs ==
  ASSUME NEW a \in Allocation
  PROVE  RocList_dec(a) = lessOne(a) /\ BigString_dec(a) = lessOne(a) /\ lessOne(a) \in Allocation
<1>1. REFCOUNT_1 \in Int /\ REFCOUNT_1 < 0 /\ a.rc \in Int
  BY AllocationIs
<1>2. RocList_dec(a) = lessOne(a) /\ BigString_dec(a) = lessOne(a)
  BY <1>1 DEF RocList_dec, BigString_dec, lessOne, decrease, is_unique, is_readonly
<1>3. CASE a = free
  BY <1>1, <1>2, <1>3, FreeIs DEF lessOne
<1>4. CASE a \in [live : {TRUE}, rc : Int, text : Seq(AnyCell)]
  <2> DEFINE rc == a.rc - 1
  <2>1. rc \in Int
    BY <1>1
  <2> HIDE DEF rc
  <2>2. [a EXCEPT !.rc = rc] \in [live : {TRUE}, rc : Int, text : Seq(AnyCell)]
    BY <1>4, <2>1
  <2>3. [a EXCEPT !.rc = @ - 1] \in Allocation
    BY <2>2 DEF Allocation, rc
  <2> QED
    BY <1>2, <2>3, FreeIs DEF lessOne
<1> QED
  BY <1>3, <1>4, <1>2 DEF Allocation

LEMMA DroppedIs ==
  ASSUME NEW h \in Heap, NEW v \in Value
  PROVE  /\ dropped(h, v) \in Heap
         /\ ~onHeap(v) => dropped(h, v) = h
         /\ onHeap(v) =>
              /\ \A b \in Addresses \ {v.address} : dropped(h, v)[b] = h[b]
              /\ v.type = "RocList" => dropped(h, v)[v.address] = lessOne(h[v.address])
              /\ dropped(h, v)[v.address] \in {h[v.address], lessOne(h[v.address])}
<1>1. CASE ~onHeap(v)
  BY <1>1 DEF dropped, dec
<1>2. CASE onHeap(v)
  <2>1. v.address \in Addresses /\ v.type \in {"RocList", "RocStr"}
    BY <1>2, ValueIs
  <2>2. h[v.address] \in Allocation
    BY <2>1 DEF Heap
  <2> DEFINE a == lessOne(h[v.address])
  <2>3. a \in Allocation /\ RocList_dec(h[v.address]) = a /\ BigString_dec(h[v.address]) = a
    BY <2>2, LessOneIs
  <2>4. dec(h, v) = [h EXCEPT ![v.address] = a]
    BY <1>2, <2>1, <2>3 DEF dec
  <2>5. dropped(h, v) \in {h, [h EXCEPT ![v.address] = a]}
    BY <2>4 DEF dropped
  <2>6. v.type = "RocList" => dropped(h, v) = [h EXCEPT ![v.address] = a]
    BY <2>4 DEF dropped
  <2> HIDE DEF a
  <2> QED
    BY <1>2, <2>1, <2>3, <2>5, <2>6 DEF Heap, a
<1> QED
  BY <1>1, <1>2

LEMMA BigIs ==
  ASSUME NEW type \in {"RocList", "RocStr"}, NEW address \in Addresses,
         NEW length \in Nat, NEW cap \in Nat
  PROVE  LET v == big(type, address, length, cap)
         IN  /\ v \in Value /\ v.type = type /\ v.address = address
             /\ v.start = 0 /\ v.length = length /\ v.capacity = cap /\ ~v.slice
             /\ capacity(v) = cap /\ onHeap(v)
<1>1. <<>> \in Seq(Elements)
  BY EmptySeq
<1>2. address # Nothing
  BY BuffersAssumption DEF BuffersAssumption
<1> QED
  BY <1>1, <1>2 DEF big, Value, Fields, capacity, onHeap

LEMMA ReallocIs ==
  ASSUME NEW h \in Heap, NEW address \in Addresses, h[address].live, NEW n \in Nat,
         NEW r \in roc_realloc(h, address, n)
  PROVE  /\ r.heap \in Heap /\ r.address \in unused(h) \cup {address}
         /\ SameCount(h[address], r.heap[r.address])
         /\ r.heap[r.address].text = resized(h[address].text, n)
         /\ r.address # address => r.heap[address] = free
         /\ \A b \in Addresses \ {address, r.address} : r.heap[b] = h[b]
<1> DEFINE old == h[address]
           a   == [old EXCEPT !.text = resized(@, n)]
<1>1. old \in Allocation /\ old.live
  BY DEF Heap
<1>2. old \in [live : {TRUE}, rc : Int, text : Seq(AnyCell)]
  BY <1>1, FreeIs DEF Allocation
<1>3. resized(old.text, n) \in Seq(AnyCell)
  BY <1>2, ResizedCells
<1>4. a \in Allocation /\ SameCount(old, a) /\ a.text = resized(old.text, n)
  BY <1>2, <1>3 DEF Allocation, SameCount
<1>5. PICK to \in unused(h) \cup {address} :
        r = [heap |-> [h EXCEPT ![address] = free, ![to] = a], address |-> to]
  BY DEF roc_realloc
<1>6. to \in Addresses /\ r.heap = [h EXCEPT ![address] = free, ![to] = a] /\ r.address = to
  BY <1>5 DEF unused
<1> HIDE DEF a, old
<1>7. r.heap \in Heap
  BY <1>4, <1>6, FreeIs DEF Heap
<1>8. /\ r.heap[to] = a
      /\ to # address => r.heap[address] = free
      /\ \A b \in Addresses \ {address, to} : r.heap[b] = h[b]
  BY <1>6 DEF Heap
<1>9. SameCount(h[address], r.heap[to]) /\ r.heap[to].text = resized(h[address].text, n)
  BY <1>4, <1>8 DEF old
<1> QED
  BY <1>6, <1>7, <1>8, <1>9

LEMMA DroppedAt ==
  ASSUME NEW h \in Heap, NEW g \in Heap, NEW v \in Value, onHeap(v),
         h[v.address] = g[v.address]
  PROVE  dropped(h, v)[v.address] = dropped(g, v)[v.address]
<1>1. v.address \in Addresses /\ v.type \in {"RocList", "RocStr"}
  BY ValueIs
<1>2. dec(h, v)[v.address] = dec(g, v)[v.address]
  BY <1>1 DEF dec, Heap
<1> QED
  BY <1>2 DEF dropped

LEMMA CopiedIs ==
  ASSUME NEW h \in Heap, NEW v \in Value, Grounded(h, v), NEW address \in unused(h),
         NEW rc \in Int, NEW n \in Nat, NEW g \in {copied(h, v, address, rc, n)}
  PROVE  /\ g \in Heap
         /\ g[address].live /\ g[address].rc = rc
         /\ g[address].text = written(uninit(n), 0, as_slice(h, v))
         /\ onHeap(v) => /\ v.address # address
                         /\ g[v.address] = dropped(h, v)[v.address]
         /\ \A b \in Addresses \ {address, v.address} : g[b] = h[b]
<1> DEFINE s == written(uninit(n), 0, as_slice(h, v))
           a == roc_alloc(h, address, rc, s)
<1>1. s \in Seq(AnyCell)
  BY UninitCells, AsSliceIs, WrittenCells
<1>2. address \in Addresses /\ ~h[address].live
  BY DEF unused
<1>3. g = dropped(a, v)
  BY DEF copied
<1> HIDE DEF s
<1>4. /\ a \in Heap /\ a[address].live /\ a[address].rc = rc /\ a[address].text = s
      /\ \A b \in Addresses \ {address} : a[b] = h[b]
  <2> DEFINE b == [live |-> TRUE, rc |-> rc, text |-> s]
  <2>1. b \in Allocation /\ b.live /\ b.rc = rc /\ b.text = s
    BY <1>1, AllocationMade
  <2> HIDE DEF b
  <2>2. a = [h EXCEPT ![address] = b]
    BY DEF roc_alloc, b
  <2> HIDE DEF a
  <2> QED
    BY <1>2, <2>1, <2>2 DEF Heap
<1> HIDE DEF a
<1>5. /\ g \in Heap
      /\ ~onHeap(v) => g = a
      /\ onHeap(v) => \A b \in Addresses \ {v.address} : g[b] = a[b]
  <2>1. /\ dropped(a, v) \in Heap
        /\ ~onHeap(v) => dropped(a, v) = a
        /\ onHeap(v) => \A b \in Addresses \ {v.address} : dropped(a, v)[b] = a[b]
    BY <1>4, DroppedIs
  <2> QED
    BY <1>3, <2>1
<1>6. ASSUME onHeap(v)
      PROVE  v.address \in Addresses /\ v.address # address
             /\ g[v.address] = dropped(h, v)[v.address]
  <2>1. v.address \in Addresses /\ v.address # address
    BY <1>2, <1>6, ValueIs DEF Grounded
  <2>2. a[v.address] = h[v.address]
    BY <1>4, <2>1
  <2> QED
    BY <1>3, <1>4, <1>6, <2>1, <2>2, DroppedAt
<1> QED
  BY <1>2, <1>3, <1>4, <1>5, <1>6 DEF s

LEMMA CopiedEffect ==
  ASSUME NEW h \in Heap, NEW v \in Value, Grounded(h, v), NEW address \in unused(h),
         NEW rc \in Int, rc >= REFCOUNT_1, v.type = "RocList" => rc = REFCOUNT_1,
         NEW n \in Nat, NEW length \in Nat, NEW cap \in Nat,
         NEW o, o = [heap |-> copied(h, v, address, rc, n),
                     value |-> big(v.type, address, length, cap)]
  PROVE  o \in Outcome /\ Effect(h, v, o) /\ Leaves(h, v, o)
<1>1. address \in Addresses /\ v.type \in {"RocList", "RocStr"}
  BY ValueIs DEF unused
<1>2. o.value \in Value /\ o.value.address = address /\ o.value.type = v.type
  BY <1>1, BigIs
<1> DEFINE g == copied(h, v, address, rc, n)
<1>3. /\ g \in Heap
      /\ g[address].live /\ g[address].rc = rc
      /\ onHeap(v) => g[v.address] = dropped(h, v)[v.address]
      /\ \A b \in Addresses \ {address, v.address} : g[b] = h[b]
  <2>1. g \in {copied(h, v, address, rc, n)}
    OBVIOUS
  <2> HIDE DEF g
  <2> QED
    BY <2>1, CopiedIs
<1>4. o.heap = g
  OBVIOUS
<1> HIDE DEF g
<1>5. o \in Outcome
  BY <1>2, <1>3, <1>4 DEF Outcome
<1>6. Leaves(h, v, o)
  BY <1>2, <1>3, <1>4 DEF Leaves
<1> QED
  BY <1>2, <1>3, <1>4, <1>5, <1>6 DEF Effect

(* What is taken to another address, or grows where it is.                 *)
LEMMA ReallocEffect ==
  ASSUME NEW h \in Heap, NEW v \in Value, onHeap(v), h[v.address].rc = REFCOUNT_1, NEW n \in Nat,
         NEW r \in roc_realloc(h, v.address, n),
         NEW w \in Value, w.address = r.address, w.type = v.type,
         NEW o, o = [heap |-> r.heap, value |-> w]
  PROVE  o \in Outcome /\ Effect(h, v, o)
<1>1. v.address \in Addresses
  BY ValueIs
<1>2. h[v.address].live
  BY <1>1, AllocationIs DEF Heap
<1>3. /\ r.heap \in Heap /\ r.address \in unused(h) \cup {v.address}
      /\ SameCount(h[v.address], r.heap[r.address])
      /\ r.address # v.address => r.heap[v.address] = free
      /\ \A b \in Addresses \ {v.address, r.address} : r.heap[b] = h[b]
  BY <1>1, <1>2, ReallocIs
<1>4. o.heap = r.heap /\ o.value = w
  OBVIOUS
<1>5. o \in Outcome
  BY <1>3, <1>4 DEF Outcome
<1>6. CASE r.address = v.address
  BY <1>3, <1>4, <1>5, <1>6 DEF Effect, Stays
<1>7. CASE r.address # v.address
  BY <1>2, <1>3, <1>4, <1>5, <1>7 DEF Effect, Moves, SameCount
<1> QED
  BY <1>5, <1>6, <1>7

LEMMA SameEffect ==
  ASSUME NEW h \in Heap, NEW v \in Value, NEW o \in same(h, v)
  PROVE  o \in Outcome /\ Effect(h, v, o) /\ o.heap = h /\ o.value = v
<1>1. o = [heap |-> h, value |-> v]
  BY DEF same
<1>2. o.heap = h /\ o.value = v
  BY <1>1
<1> QED
  BY <1>1, <1>2 DEF Outcome, Effect, Stays, SameCount

LEMMA UniqueIs ==
  ASSUME NEW h \in Heap, NEW v \in Value, onHeap(v), unique(h, v)
  PROVE  /\ v.address \in Addresses /\ h[v.address].rc = REFCOUNT_1 /\ h[v.address].live
<1>1. h[v.address].rc = REFCOUNT_1
  BY DEF unique, is_unique
<1> QED
  BY <1>1, ValueIs, AllocationIs DEF Heap

LEMMA ListReserveEffect ==
  ASSUME NEW h \in Heap, NEW v \in Value, Grounded(h, v), v.type = "RocList", NEW n \in Nat,
         NEW o \in RocList_reserve(h, v, n)
  PROVE  o \in Outcome /\ Effect(h, v, o) /\ onHeap(o.value)
<1> DEFINE new_len == n + v.length
<1>1. new_len \in Nat /\ v.length \in Nat
  BY ValueIs
<1> HIDE DEF new_len
<1>2. CASE onHeap(v) /\ unique(h, v) /\ ~v.slice
  <2>1. PICK r \in roc_realloc(h, v.address, new_len) :
          o = [heap |-> r.heap,
               value |-> IF r.address = v.address THEN v
                         ELSE big("RocList", r.address, v.length, new_len)]
    BY <1>2 DEF RocList_reserve, new_len
  <2>2. v.address \in Addresses /\ h[v.address].rc = REFCOUNT_1 /\ h[v.address].live
    BY <1>2, UniqueIs
  <2>3. r.address \in Addresses
    BY <1>1, <2>2, ReallocIs DEF unused
  <2>4. /\ o.value \in Value /\ o.value.address = r.address /\ o.value.type = v.type
        /\ onHeap(o.value)
    BY <1>1, <1>2, <2>1, <2>3, BigIs
  <2>5. o = [heap |-> r.heap, value |-> o.value]
    BY <2>1
  <2> QED
    BY <1>1, <1>2, <2>2, <2>4, <2>5, ReallocEffect
<1>3. CASE ~(onHeap(v) /\ unique(h, v) /\ ~v.slice)
  <2>1. PICK address \in unused(h) :
          o = [heap |-> copied(h, v, address, REFCOUNT_1, new_len),
               value |-> big("RocList", address, v.length, new_len)]
    BY <1>3 DEF RocList_reserve, new_len
  <2>2. REFCOUNT_1 \in Int /\ REFCOUNT_1 >= REFCOUNT_1
    BY FreeIs, AllocationIs
  <2>3. onHeap(o.value)
    BY <1>1, <2>1, BigIs DEF unused
  <2> QED
    BY <1>1, <2>1, <2>2, <2>3, CopiedEffect
<1> QED
  BY <1>2, <1>3

LEMMA StrReserveEffect ==
  ASSUME NEW h \in Heap, NEW v \in Value, Grounded(h, v), v.type = "RocStr", NEW n \in Nat,
         NEW o \in RocStr_reserve(h, v, n)
  PROVE  o \in Outcome /\ Effect(h, v, o)
<1> DEFINE desired_cap == v.length + n
<1>1. desired_cap \in Nat /\ v.length \in Nat
  BY ValueIs
<1> HIDE DEF desired_cap
<1>2. CASE o \in same(h, v)
  BY <1>2, SameEffect
<1>3. CASE onHeap(v) /\ unique(h, v) /\ ~v.slice /\ o \notin same(h, v)
  <2>1. PICK r \in roc_realloc(h, v.address, desired_cap) :
          o = [heap |-> r.heap, value |-> big("RocStr", r.address, v.length, desired_cap)]
    BY <1>3 DEF RocStr_reserve, BigString_reserve, desired_cap
  <2>2. v.address \in Addresses /\ h[v.address].rc = REFCOUNT_1 /\ h[v.address].live
    BY <1>3, UniqueIs
  <2>3. r.address \in Addresses
    BY <1>1, <2>2, ReallocIs DEF unused
  <2>4. o.value \in Value /\ o.value.address = r.address /\ o.value.type = v.type
    BY <1>1, <2>1, <2>3, BigIs
  <2>5. o = [heap |-> r.heap, value |-> o.value]
    BY <2>1
  <2> QED
    BY <1>1, <1>3, <2>2, <2>4, <2>5, ReallocEffect
<1>4. CASE ~(onHeap(v) /\ unique(h, v) /\ ~v.slice) /\ o \notin same(h, v)
  <2>1. PICK address \in unused(h), rc \in UninitCounts :
          o = [heap |-> copied(h, v, address, rc, desired_cap),
               value |-> big("RocStr", address, v.length, desired_cap)]
    BY <1>4 DEF RocStr_reserve, BigString_reserve, desired_cap
  <2>2. rc \in Int /\ rc >= REFCOUNT_1
    BY BuffersAssumption DEF BuffersAssumption
  <2> QED
    BY <1>1, <2>1, <2>2, CopiedEffect
<1> QED
  BY <1>2, <1>3, <1>4

(* Elements that are added at the end.                                     *)
LEMMA AppendIs ==
  ASSUME NEW o \in Outcome, onHeap(o.value), Grounded(o.heap, o.value), NEW s \in Seq(Elements),
         NEW p \in {append(o, s)}
  PROVE  /\ p \in Outcome
         /\ p.value = [o.value EXCEPT !.length = @ + Len(s)]
         /\ p.value.address = o.value.address /\ p.value.type = o.value.type
         /\ \A b \in Addresses \ {o.value.address} : p.heap[b] = o.heap[b]
         /\ SameCount(o.heap[o.value.address], p.heap[o.value.address])
         /\ p.heap[o.value.address].text =
              written(o.heap[o.value.address].text, o.value.start + o.value.length, s)
<1> DEFINE v  == o.value
           h  == o.heap
           at == v.start + v.length
           w  == [v EXCEPT !.length = @ + Len(s)]
           g  == [h EXCEPT ![v.address].text = written(@, at, s)]
<1>1. o.value \in Value /\ o.heap \in Heap
  BY DEF Outcome
<1>2. at \in Nat /\ s \in Seq(AnyCell) /\ Len(s) \in Nat /\ v.length \in Nat
  BY <1>1, ValueIs, ElementsAreCells, LenProperties
<1>3. p.heap = g /\ p.value = w
  BY DEF append
<1> HIDE DEF at
<1>4. w \in Value /\ w.address = v.address /\ w.type = v.type
  <2> DEFINE length == v.length + Len(s)
  <2>1. length \in Nat
    BY <1>2
  <2> HIDE DEF length
  <2>2. w = [v EXCEPT !.length = length]
    BY DEF length
  <2>3. v \in Fields /\ onHeap(v)
    BY <1>1 DEF Value
  <2>4. w \in Fields /\ w.address = v.address /\ w.type = v.type
    BY <2>1, <2>2, <2>3 DEF Fields
  <2> QED
    BY <2>3, <2>4 DEF Value, onHeap
<1>6. QED
  <2> DEFINE a == h[v.address]
             t == written(a.text, at, s)
  <2>1. v.address \in Addresses
    BY <1>1, ValueIs
  <2>2. a \in Allocation /\ a.live
    BY <1>1, <2>1 DEF Heap, Grounded
  <2>3. a \in [live : {TRUE}, rc : Int, text : Seq(AnyCell)]
    BY <2>2, FreeIs DEF Allocation
  <2>4. t \in Seq(AnyCell)
    BY <1>2, <2>3, WrittenCells
  <2> HIDE DEF t
  <2>5. [a EXCEPT !.text = t] \in Allocation /\ SameCount(a, [a EXCEPT !.text = t])
        /\ [a EXCEPT !.text = t].text = t
    BY <2>3, <2>4 DEF Allocation, SameCount
  <2>6. g = [h EXCEPT ![v.address] = [a EXCEPT !.text = t]]
    BY DEF t
  <2> DEFINE c == [a EXCEPT !.text = t]
  <2> HIDE DEF c, a
  <2>7. g \in Heap /\ g[v.address] = c /\ \A b \in Addresses \ {v.address} : g[b] = h[b]
    BY <1>1, <2>1, <2>5, <2>6 DEF Heap, c
  <2> HIDE DEF g
  <2>8. p \in Outcome
    BY <1>3, <1>4, <2>7 DEF Outcome, append
  <2>9. SameCount(a, g[v.address]) /\ g[v.address].text = t
    BY <2>5, <2>7 DEF c
  <2> QED
    BY <1>3, <1>4, <2>7, <2>8, <2>9 DEF a, t, at

LEMMA EffectGrounded ==
  ASSUME NEW h \in Heap, NEW v \in Value, Grounded(h, v), NEW o \in Outcome, Effect(h, v, o)
  PROVE  Grounded(o.heap, o.value)
BY DEF Effect, Stays, Moves, Leaves, Grounded, SameCount, onHeap

LEMMA AppendEffect ==
  ASSUME NEW h \in Heap, NEW v \in Value, Grounded(h, v), NEW o \in Outcome, Effect(h, v, o),
         onHeap(o.value), NEW s \in Seq(Elements), NEW p \in {append(o, s)}
  PROVE  p \in Outcome /\ Effect(h, v, p)
<1>1. /\ p \in Outcome
      /\ p.value.address = o.value.address /\ p.value.type = o.value.type
      /\ \A b \in Addresses \ {o.value.address} : p.heap[b] = o.heap[b]
      /\ SameCount(o.heap[o.value.address], p.heap[o.value.address])
  <2>1. Grounded(o.heap, o.value)
    BY EffectGrounded
  <2> QED
    BY <2>1, AppendIs
<1>2. onHeap(v) => v.address \in Addresses /\ h[v.address].live
  BY ValueIs DEF Grounded
<1>3. \A b \in Addresses : b # v.address /\ b # p.value.address => p.heap[b] = h[b]
  BY <1>1 DEF Effect
<1>4. CASE Stays(h, v, o)
  <2>1. Stays(h, v, p)
    BY <1>1, <1>4 DEF Stays, SameCount, onHeap
  <2> QED
    BY <1>1, <1>3, <2>1 DEF Effect
<1>5. CASE Moves(h, v, o) \/ Leaves(h, v, o)
  <2>1. o.value.address \in Addresses /\ ~h[o.value.address].live
    BY <1>5 DEF Moves, Leaves, unused
  <2>2. onHeap(o.value) /\ (onHeap(v) => v.address # o.value.address)
    BY <1>2, <2>1, BuffersAssumption DEF onHeap, BuffersAssumption
  <2>3. onHeap(v) => p.heap[v.address] = o.heap[v.address]
    BY <1>1, <1>2, <2>2
  <2>4. Moves(h, v, o) => Moves(h, v, p)
    BY <1>1, <2>2, <2>3 DEF Moves, SameCount
  <2>5. Leaves(h, v, o) => Leaves(h, v, p)
    BY <1>1, <2>2, <2>3 DEF Leaves, SameCount
  <2> QED
    BY <1>1, <1>3, <1>5, <2>4, <2>5 DEF Effect
<1> QED
  BY <1>4, <1>5 DEF Effect

LEMMA PushEffect ==
  ASSUME NEW h \in Heap, NEW v \in Value, Grounded(h, v), v.type = "RocList",
         NEW e \in Elements, NEW p \in RocList_push(h, v, e)
  PROVE  p \in Outcome /\ Effect(h, v, p)
<1>1. PICK o \in (IF capacity(v) <= v.length THEN RocList_reserve(h, v, 1) ELSE same(h, v)) :
        p = append(o, <<e>>)
  BY DEF RocList_push
<1>2. o \in RocList_reserve(h, v, 1) \/ o \in same(h, v)
  BY <1>1
<1>3. o \in Outcome /\ Effect(h, v, o) /\ onHeap(o.value)
  <2>1. CASE o \in RocList_reserve(h, v, 1)
    BY <2>1, ListReserveEffect
  <2>2. CASE o \notin RocList_reserve(h, v, 1)
    <3>1. o \in same(h, v) /\ ~(capacity(v) <= v.length)
      BY <1>1, <2>2
    <3>2. capacity(emptyList) = 0 /\ emptyList.length = 0
      BY DEF emptyList, capacity
    <3>3. onHeap(v)
      BY <3>1, <3>2, ValueIs
    <3> QED
      BY <3>1, <3>3, SameEffect
  <2> QED
    BY <2>1, <2>2
<1>4. <<e>> \in Seq(Elements)
  OBVIOUS
<1> QED
  BY <1>1, <1>3, <1>4, AppendEffect

LEMMA ExtendedEffect ==
  ASSUME NEW h \in Heap, NEW v \in Value, Grounded(h, v), v.type = "RocList",
         NEW n \in Nat, NEW o \in extended(h, v, n)
  PROVE  o \in Outcome /\ Effect(h, v, o) /\ onHeap(o.value)
<1>1. v.length \in Nat /\ v.length + n \in Nat
  BY ValueIs
<1>2. CASE o \in same(h, v) /\ onHeap(v)
  BY <1>2, SameEffect
<1>3. CASE /\ onHeap(v) /\ unique(h, v)
           /\ \E r \in roc_realloc(h, v.address, v.length + n) :
                o = [heap |-> r.heap,
                     value |-> big("RocList", r.address, v.length, v.length + n)]
  <2>1. PICK r \in roc_realloc(h, v.address, v.length + n) :
          o = [heap |-> r.heap, value |-> big("RocList", r.address, v.length, v.length + n)]
    BY <1>3
  <2>2. v.address \in Addresses /\ h[v.address].rc = REFCOUNT_1 /\ h[v.address].live
    BY <1>3, UniqueIs
  <2>3. r.address \in Addresses
    BY <1>1, <2>2, ReallocIs DEF unused
  <2>4. /\ o.value \in Value /\ o.value.address = r.address /\ o.value.type = v.type
        /\ onHeap(o.value)
    BY <1>1, <2>1, <2>3, BigIs
  <2>5. o = [heap |-> r.heap, value |-> o.value]
    BY <2>1
  <2> QED
    BY <1>1, <1>3, <2>2, <2>4, <2>5, ReallocEffect
<1>4. CASE \E address \in unused(h) :
             o = [heap |-> copied(h, v, address, REFCOUNT_1, n),
                  value |-> big("RocList", address, v.length, n)]
  <2>1. PICK address \in unused(h) :
          o = [heap |-> copied(h, v, address, REFCOUNT_1, n),
               value |-> big("RocList", address, v.length, n)]
    BY <1>4
  <2>2. REFCOUNT_1 \in Int /\ REFCOUNT_1 >= REFCOUNT_1
    BY FreeIs, AllocationIs
  <2>3. onHeap(o.value)
    BY <1>1, <2>1, BigIs DEF unused
  <2> QED
    BY <1>1, <2>1, <2>2, <2>3, CopiedEffect
<1>5. capacity(v) >= v.length + n <=> ~(capacity(v) < v.length + n)
  BY <1>1, ValueIs
<1>6. CASE onHeap(v) /\ unique(h, v)
  <2>1. o \in same(h, v) \/ o \in {[heap |-> r.heap,
                                   value |-> big("RocList", r.address, v.length, v.length + n)] :
                                   r \in roc_realloc(h, v.address, v.length + n)}
    BY <1>5, <1>6, Zenon DEF extended
  <2> QED
    BY <1>2, <1>3, <1>6, <2>1
<1>7. CASE ~(onHeap(v) /\ unique(h, v))
  <2>1. o \in {[heap |-> copied(h, v, address, REFCOUNT_1, n),
                value |-> big("RocList", address, v.length, n)] : address \in unused(h)}
    BY <1>7, Zenon DEF extended
  <2> QED
    BY <1>4, <2>1
<1> QED
  BY <1>6, <1>7

LEMMA ExtendEffect ==
  ASSUME NEW h \in Heap, NEW v \in Value, Grounded(h, v), v.type = "RocList",
         NEW s \in Seq(Elements), NEW p \in extend_from_slice(h, v, s)
  PROVE  p \in Outcome /\ Effect(h, v, p)
<1>1. CASE p \in same(h, v)
  BY <1>1, SameEffect
<1>2. CASE p \notin same(h, v)
  <2>1. PICK o \in extended(h, v, Len(s)) : p = append(o, s)
    BY <1>2 DEF extend_from_slice
  <2>2. Len(s) \in Nat
    BY LenProperties
  <2> QED
    BY <2>1, <2>2, ExtendedEffect, AppendEffect
<1> QED
  BY <1>1, <1>2
-----------------------------------------------------------------------------
(* A list that is made from an iterator.                                   *)

LEMMA NatMinExists ==
  ASSUME NEW T \in SUBSET Nat, T # {}
  PROVE  \E m \in T : \A y \in T : m <= y
<1>1. PICK m \in T : \A y \in T : ~(<<y, m>> \in OpToRel(<, Nat))
  BY NatLessThanWellFounded, WFMin, Zenon
<1>2. \A y, z \in Nat : <<y, z>> \in Nat \X Nat /\ <<y, z>>[1] = y /\ <<y, z>>[2] = z
  OBVIOUS
<1>3. ASSUME NEW y \in Nat, NEW z \in Nat, y < z
      PROVE  <<y, z>> \in OpToRel(<, Nat)
  BY <1>2, <1>3, Zenon DEF OpToRel
<1>4. \A y \in T : ~(y < m)
  BY <1>1, <1>3
<1> QED
  BY <1>4

(* The recursion is well defined: the outcomes after each element.         *)
LEMMA CollectedIs ==
  ASSUME NEW h, NEW s \in Seq(Elements), NEW hint
  PROVE  \E list : /\ collected(h, s, hint) = list[Len(s)]
                   /\ list[0] = RocList_reserve(h, emptyList, hint)
                   /\ \A i \in 1 .. Len(s) : list[i] = yielded(list[i - 1], s[i])
<1> DEFINE first      == RocList_reserve(h, emptyList, hint)
           after(S,i) == yielded(S, s[i])
           Is(f, n)   == f = [i \in 0 .. n |-> IF i = 0 THEN first ELSE after(f[i - 1], i)]
           Missing    == {n \in Nat : ~\E f : Is(f, n)}
<1>1. Len(s) \in Nat
  BY LenProperties
<1>2. collected(h, s, hint) = (CHOOSE f : Is(f, Len(s)))[Len(s)]
  BY DEF collected
<1> HIDE DEF first, after
<1>3. Missing = {}
  <2> SUFFICES ASSUME Missing # {} PROVE FALSE
    OBVIOUS
  <2>1. PICK n \in Missing : \A k \in Missing : n <= k
    BY NatMinExists
  <2>2. n \in Nat /\ ~\E f : Is(f, n)
    BY <2>1
  <2>3. CASE n = 0
    <3>1. Is([i \in 0 .. 0 |-> first], 0)
      OBVIOUS
    <3> QED
      BY <2>2, <2>3, <3>1
  <2>4. CASE n # 0
    <3>1. n - 1 \in Nat /\ ~(n <= n - 1)
      BY <2>2, <2>4
    <3>2. PICK f : Is(f, n - 1)
      BY <2>1, <3>1
    <3> DEFINE g == [i \in 0 .. n |-> IF i = n THEN after(f[n - 1], n) ELSE f[i]]
    <3>3. ASSUME NEW i \in 0 .. n
          PROVE  g[i] = IF i = 0 THEN first ELSE after(g[i - 1], i)
      <4>1. CASE i = n
        <5>1. g[i - 1] = f[n - 1]
          BY <2>2, <2>4, <4>1
        <5> QED
          BY <2>2, <2>4, <4>1, <5>1
      <4>2. CASE i # n
        <5>1. i \in 0 .. n - 1 /\ g[i] = f[i]
          BY <2>2, <4>2
        <5>2. i # 0 => i - 1 \in 0 .. n - 1 /\ i - 1 \in 0 .. n /\ i - 1 # n
          BY <2>2, <5>1
        <5>3. i # 0 => g[i - 1] = f[i - 1]
          BY <5>2
        <5> QED
          BY <3>2, <5>1, <5>3
      <4> QED
        BY <4>1, <4>2
    <3>4. g = [i \in 0 .. n |-> IF i = 0 THEN first ELSE after(g[i - 1], i)]
      <4>1. g = [i \in 0 .. n |-> g[i]]
        OBVIOUS
      <4> HIDE DEF g
      <4> QED
        BY <3>3, <4>1
    <3> QED
      BY <2>2, <3>4
  <2> QED
    BY <2>3, <2>4
<1>4. \E f : Is(f, Len(s))
  BY <1>1, <1>3
<1> DEFINE list == CHOOSE f : Is(f, Len(s))
<1>5. Is(list, Len(s))
  <2> HIDE DEF Is
  <2> QED
    BY <1>4
<1> HIDE DEF list
<1>6. list[0] = first /\ \A i \in 1 .. Len(s) : list[i] = after(list[i - 1], i)
  <2>1. 0 \in 0 .. Len(s) /\ \A i \in 1 .. Len(s) : i \in 0 .. Len(s) /\ i # 0
    BY <1>1
  <2> QED
    BY <1>5, <2>1
<1> QED
  BY <1>2, <1>6 DEF list, first, after

(* A list in an allocation of its own, where there was none in h.          *)
Fresh(h, o) ==
  /\ o \in Outcome /\ o.value.type = "RocList" /\ o.value.address \in unused(h)
  /\ o.heap[o.value.address].live /\ o.heap[o.value.address].rc = REFCOUNT_1
  /\ \A b \in Addresses \ {o.value.address} : o.heap[b] = h[b]

LEMMA EmptyListIs ==
  /\ emptyList \in Value /\ ~onHeap(emptyList) /\ emptyList.type = "RocList"
  /\ emptyList.text = <<>> /\ emptyList.length = 0 /\ emptyList.start = 0
  /\ ~emptyList.slice /\ emptyList.capacity = 0 /\ capacity(emptyList) = 0
  /\ emptyList.address = Nothing
<1>1. <<>> \in Seq(Elements)
  BY EmptySeq
<1> QED
  BY <1>1 DEF emptyList, Value, Fields, onHeap, capacity

LEMMA EmptyReserve ==
  ASSUME NEW h \in Heap, NEW n \in Nat, NEW o \in RocList_reserve(h, emptyList, n)
  PROVE  Fresh(h, o)
<1>1. PICK address \in unused(h) :
        o = [heap |-> copied(h, emptyList, address, REFCOUNT_1, n),
             value |-> big("RocList", address, 0, n)]
  <2>1. n + 0 = n
    OBVIOUS
  <2> QED
    BY <2>1, EmptyListIs DEF RocList_reserve
<1>2. REFCOUNT_1 \in Int /\ REFCOUNT_1 >= REFCOUNT_1
  BY FreeIs, AllocationIs
<1>3. Grounded(h, emptyList) /\ emptyList \in Value /\ emptyList.type = "RocList" /\ ~onHeap(emptyList)
  BY EmptyListIs DEF Grounded
<1>4. o \in Outcome /\ Effect(h, emptyList, o) /\ Leaves(h, emptyList, o)
  BY <1>1, <1>2, <1>3, CopiedEffect
<1>5. o.value.type = "RocList"
  BY <1>1 DEF big
<1>6. emptyList.address \notin Addresses
  BY EmptyListIs, BuffersAssumption DEF BuffersAssumption
<1> QED
  BY <1>4, <1>5, <1>6 DEF Fresh, Leaves, Effect

LEMMA FreshStep ==
  ASSUME NEW h \in Heap, NEW o, Fresh(h, o), NEW p \in Outcome, Effect(o.heap, o.value, p)
  PROVE  Fresh(h, p)
<1> DEFINE a == o.value.address
<1>1. /\ a \in Addresses /\ ~h[a].live /\ h[a] = free
      /\ o \in Outcome /\ o.heap \in Heap /\ o.value \in Value /\ onHeap(o.value)
  <2>1. a \in Addresses /\ ~h[a].live /\ o \in Outcome
    BY DEF Fresh, unused
  <2>2. h[a] = free
    BY <2>1, AllocationIs DEF Heap
  <2>3. a # Nothing
    BY <2>1, BuffersAssumption DEF BuffersAssumption
  <2> QED
    BY <2>1, <2>2, <2>3 DEF Outcome, onHeap
<1>2. p.value.type = "RocList"
  BY <1>1 DEF Fresh, Effect
<1>3. CASE Stays(o.heap, o.value, p)
  BY <1>1, <1>2, <1>3 DEF Fresh, Effect, Stays, SameCount
<1>4. CASE Moves(o.heap, o.value, p) \/ Leaves(o.heap, o.value, p)
  <2>1. /\ p.value.address \in Addresses /\ ~o.heap[p.value.address].live
        /\ p.heap[p.value.address].live /\ p.heap[p.value.address].rc = REFCOUNT_1
    BY <1>2, <1>4 DEF Moves, Leaves, unused
  <2>2. p.value.address # a /\ p.value.address \in unused(h)
    BY <2>1 DEF Fresh, unused
  <2>3. p.heap[a] = free
    <3>1. dropped(o.heap, o.value)[a] = lessOne(o.heap[a])
      BY <1>1, DroppedIs DEF Fresh
    <3>2. lessOne(o.heap[a]) = free
      BY DEF Fresh, lessOne
    <3> QED
      BY <1>1, <1>4, <3>1, <3>2 DEF Moves, Leaves
  <2>4. \A b \in Addresses \ {p.value.address} : p.heap[b] = h[b]
    BY <1>1, <2>3 DEF Fresh, Effect
  <2> QED
    BY <1>2, <2>1, <2>2, <2>4 DEF Fresh
<1> QED
  BY <1>3, <1>4 DEF Effect

LEMMA YieldedFresh ==
  ASSUME NEW h \in Heap, NEW outcomes, \A o \in outcomes : Fresh(h, o),
         NEW e \in Elements, NEW q \in yielded(outcomes, e)
  PROVE  Fresh(h, q)
<1>1. PICK o \in outcomes :
        \E p \in (IF o.value.length = capacity(o.value)
                  THEN RocList_reserve(o.heap, o.value, capacity(o.value) \div 2) ELSE {o}) :
          q = append(p, <<e>>)
  BY DEF yielded
<1>2. PICK p : /\ p \in RocList_reserve(o.heap, o.value, capacity(o.value) \div 2) \/ p = o
               /\ q = append(p, <<e>>)
  BY <1>1
<1>3. Fresh(h, o)
  OBVIOUS
<1>4. o \in Outcome /\ o.heap \in Heap /\ o.value \in Value /\ Grounded(o.heap, o.value)
      /\ o.value.type = "RocList" /\ onHeap(o.value)
  BY <1>3, BuffersAssumption DEF Fresh, Outcome, Grounded, onHeap, unused, BuffersAssumption
<1>5. capacity(o.value) \div 2 \in Nat
  BY <1>4, ValueIs
<1>6. p \in Outcome /\ Effect(o.heap, o.value, p) /\ onHeap(p.value)
  <2>1. CASE p \in RocList_reserve(o.heap, o.value, capacity(o.value) \div 2)
    BY <2>1, <1>4, <1>5, ListReserveEffect
  <2>2. CASE p = o
    BY <2>2, <1>4 DEF Effect, Stays, SameCount
  <2> QED
    BY <1>2, <2>1, <2>2
<1>7. <<e>> \in Seq(Elements)
  OBVIOUS
<1>8. q \in Outcome /\ Effect(o.heap, o.value, q)
  BY <1>2, <1>4, <1>6, <1>7, AppendEffect
<1> QED
  BY <1>3, <1>8, FreshStep

LEMMA CollectedFresh ==
  ASSUME NEW h \in Heap, NEW s \in Seq(Elements), NEW hint \in Nat, NEW o \in collected(h, s, hint)
  PROVE  Fresh(h, o)
<1>1. PICK list : /\ collected(h, s, hint) = list[Len(s)]
                  /\ list[0] = RocList_reserve(h, emptyList, hint)
                  /\ \A i \in 1 .. Len(s) : list[i] = yielded(list[i - 1], s[i])
  BY CollectedIs
<1>2. Len(s) \in Nat
  BY LenProperties
<1> DEFINE Bad == {n \in Nat : n <= Len(s) /\ \E p \in list[n] : ~Fresh(h, p)}
<1>3. Bad = {}
  <2> SUFFICES ASSUME Bad # {} PROVE FALSE
    OBVIOUS
  <2>1. PICK n \in Bad : \A k \in Bad : n <= k
    BY NatMinExists
  <2>2. n \in Nat /\ n <= Len(s) /\ \E p \in list[n] : ~Fresh(h, p)
    BY <2>1
  <2>3. n # 0
    BY <1>1, <2>2, EmptyReserve
  <2>4. n - 1 \in Nat /\ n - 1 <= Len(s) /\ ~(n <= n - 1) /\ n \in 1 .. Len(s)
    BY <1>2, <2>2, <2>3
  <2>5. \A p \in list[n - 1] : Fresh(h, p)
    BY <2>1, <2>4
  <2>6. list[n] = yielded(list[n - 1], s[n]) /\ s[n] \in Elements
    BY <1>1, <2>4, ElementOfSeq
  <2>7. \A p \in yielded(list[n - 1], s[n]) : Fresh(h, p)
    BY <2>5, <2>6, YieldedFresh
  <2> QED
    BY <2>2, <2>6, <2>7
<1> QED
  BY <1>1, <1>2, <1>3
-----------------------------------------------------------------------------
(* Counts and references.                                                  *)

(* A count is at least the number of the variables that refer.             *)
Counted(a, refs) ==
  refs # {} => a.live /\ (a.rc >= 0 \/ a.rc >= REFCOUNT_1 + Cardinality(refs) - 1)

Exact(a, refs) == a.rc >= 0 \/ a.rc = REFCOUNT_1 + Cardinality(refs) - 1

refsIn(own, a) == {x \in Variables : own[x] # NoValue /\ own[x].address = a}

hasList(own, a) == \E x \in refsIn(own, a) : own[x].type = "RocList"

(* Lists share with lists alone, whose count is exact.                     *)
ListCounted(h, own, a) ==
  hasList(own, a) =>
    /\ \A x \in refsIn(own, a) : own[x].type = "RocList"
    /\ Exact(h[a], refsIn(own, a))

CountInv(h, own) ==
  /\ h \in Heap /\ own \in [Variables -> Value \cup {NoValue}]
  /\ \A a \in Addresses : Counted(h[a], refsIn(own, a)) /\ ListCounted(h, own, a)

NotLeaked(h, own, g, new) ==
  \A a \in Addresses : hasList(own, a) /\ refsIn(new, a) = {} => ~g[a].live \/ h[a].rc >= 0

LEMMA RefsFinite ==
  ASSUME NEW own, NEW a
  PROVE  /\ IsFiniteSet(refsIn(own, a)) /\ Cardinality(refsIn(own, a)) \in Nat
         /\ refsIn(own, a) # {} => Cardinality(refsIn(own, a)) >= 1
<1>1. IsFiniteSet(Variables) /\ refsIn(own, a) \in SUBSET Variables
  BY BuffersAssumption DEF refsIn, BuffersAssumption
<1>2. IsFiniteSet(refsIn(own, a))
  BY <1>1, FS_Subset
<1>3. Cardinality(refsIn(own, a)) \in Nat /\ (Cardinality(refsIn(own, a)) = 0 <=> refsIn(own, a) = {})
  BY <1>2, FS_CardinalityType, FS_EmptySet
<1> QED
  BY <1>2, <1>3

LEMMA SharedCount ==
  ASSUME NEW a \in Allocation, NEW refs, IsFiniteSet(refs), refs # {}, NEW y, y \notin refs,
         Counted(a, refs), NEW b \in {RocList_clone(a), BigString_clone(a)}
  PROVE  /\ b \in Allocation /\ b.live /\ b.text = a.text
         /\ Counted(b, refs \cup {y})
         /\ Exact(a, refs) /\ b = RocList_clone(a) => Exact(b, refs \cup {y})
<1>1. a.live /\ a.rc \in Int
  BY AllocationIs DEF Counted
<1>2. a \in [live : {TRUE}, rc : Int, text : Seq(AnyCell)]
  BY <1>1, FreeIs DEF Allocation
<1>3. PICK rc \in Int : /\ b = [a EXCEPT !.rc = rc]
                        /\ a.rc # 0 => rc = a.rc + 1
                        /\ a.rc = 0 => rc \in {0, 1}
  <2>1. a.rc + 1 \in Int /\ 0 \in Int
    BY <1>1
  <2>2. RocList_clone(a) = [a EXCEPT !.rc = IF a.rc = 0 THEN 0 ELSE a.rc + 1]
    BY DEF RocList_clone, increment_reference_count
  <2>3. BigString_clone(a) = [a EXCEPT !.rc = a.rc + 1]
    BY DEF BigString_clone
  <2> QED
    BY <2>1, <2>2, <2>3
<1>4. b \in [live : {TRUE}, rc : Int, text : Seq(AnyCell)] /\ b.rc = rc /\ b.text = a.text
  BY <1>2, <1>3
<1>5. Cardinality(refs \cup {y}) = Cardinality(refs) + 1 /\ Cardinality(refs) \in Nat
  BY FS_AddElement, FS_CardinalityType
<1>6. REFCOUNT_1 \in Int
  BY AllocationIs
<1>7. Counted(b, refs \cup {y})
  BY <1>1, <1>3, <1>4, <1>5, <1>6 DEF Counted
<1>8. Exact(a, refs) => Exact(b, refs \cup {y})
  BY <1>1, <1>3, <1>4, <1>5, <1>6 DEF Exact
<1> QED
  BY <1>4, <1>7, <1>8 DEF Allocation

LEMMA GivenUpCount ==
  ASSUME NEW a \in Allocation, NEW refs, IsFiniteSet(refs), NEW x \in refs,
         Counted(a, refs), NEW b \in {a, lessOne(a)}
  PROVE  /\ b \in Allocation /\ Counted(b, refs \ {x})
         /\ refs \ {x} # {} => b.live /\ b.text = a.text
         /\ b = lessOne(a) /\ Exact(a, refs) /\ refs \ {x} # {} => Exact(b, refs \ {x})
         /\ b = lessOne(a) /\ Exact(a, refs) /\ refs \ {x} = {} => ~b.live \/ a.rc >= 0
         /\ a.rc = REFCOUNT_1 => refs \ {x} = {}
<1>1. a.live /\ a.rc \in Int /\ REFCOUNT_1 \in Int /\ REFCOUNT_1 < 0
  BY AllocationIs DEF Counted
<1>2. /\ Cardinality(refs \ {x}) = Cardinality(refs) - 1 /\ IsFiniteSet(refs \ {x})
      /\ Cardinality(refs) \in Nat
  BY FS_RemoveElement, FS_CardinalityType
<1>3. Cardinality(refs \ {x}) \in Nat /\ (Cardinality(refs \ {x}) = 0 <=> refs \ {x} = {})
  BY <1>2, FS_CardinalityType, FS_EmptySet
<1>4. lessOne(a) \in Allocation
  BY LessOneIs
<1>5. a.rc = REFCOUNT_1 => refs \ {x} = {}
  BY <1>1, <1>2, <1>3 DEF Counted
<1>6. CASE a.rc = REFCOUNT_1
  <2>1. lessOne(a) = free
    BY <1>6 DEF lessOne
  <2> QED
    BY <1>1, <1>4, <1>5, <1>6, <2>1, FreeIs DEF Counted
<1>7. CASE a.rc # REFCOUNT_1
  <2>1. a \in [live : {TRUE}, rc : Int, text : Seq(AnyCell)]
    BY <1>1, FreeIs DEF Allocation
  <2>2. PICK rc \in Int : /\ lessOne(a) = [a EXCEPT !.rc = rc]
                          /\ rc = IF a.rc = 0 THEN 0 ELSE a.rc - 1
    <3>1. a.rc - 1 \in Int
      BY <1>1
    <3>2. a.rc = 0 => lessOne(a) = [a EXCEPT !.rc = 0]
      BY <1>7, <2>1 DEF lessOne
    <3>3. a.rc # 0 => lessOne(a) = [a EXCEPT !.rc = a.rc - 1]
      BY <1>7 DEF lessOne
    <3> QED
      BY <3>1, <3>2, <3>3
  <2>3. lessOne(a).live /\ lessOne(a).rc = rc /\ lessOne(a).text = a.text
    BY <2>1, <2>2
  <2>4. Counted(lessOne(a), refs \ {x}) /\ Counted(a, refs \ {x})
    BY <1>1, <1>2, <1>3, <1>7, <2>2, <2>3 DEF Counted
  <2>5. Exact(a, refs) => Exact(lessOne(a), refs \ {x})
    BY <1>1, <1>2, <1>3, <1>7, <2>2, <2>3 DEF Exact
  <2>6. Exact(a, refs) /\ refs \ {x} = {} => a.rc >= 0
    BY <1>1, <1>2, <1>3, <1>7 DEF Exact
  <2> QED
    BY <1>1, <1>4, <1>5, <2>3, <2>4, <2>5, <2>6
<1> QED
  BY <1>6, <1>7

(* A value that is unique is not shared.                                   *)
LEMMA AloneCount ==
  ASSUME NEW a \in Allocation, NEW refs, IsFiniteSet(refs), NEW x \in refs,
         Counted(a, refs), a.rc = REFCOUNT_1
  PROVE  refs = {x}
<1>1. a \in {a, lessOne(a)}
  OBVIOUS
<1>2. refs \ {x} = {}
  BY <1>1, GivenUpCount
<1> QED
  BY <1>2
-----------------------------------------------------------------------------
(* One variable at a time.                                                 *)

LEMMA OwnedIs ==
  ASSUME NEW h, NEW own, CountInv(h, own), NEW x \in Variables, own[x] # NoValue
  PROVE  /\ own[x] \in Value /\ Grounded(h, own[x])
         /\ onHeap(own[x]) =>
              /\ own[x].address \in Addresses /\ x \in refsIn(own, own[x].address)
              /\ h[own[x].address] \in Allocation /\ h[own[x].address].live
<1>1. own[x] \in Value
  BY DEF CountInv
<1>2. onHeap(own[x]) => own[x].address \in Addresses /\ x \in refsIn(own, own[x].address)
  BY <1>1, ValueIs DEF refsIn
<1> QED
  BY <1>1, <1>2 DEF CountInv, Counted, Grounded, Heap

(* Who refers to where, when x gets the value w.                           *)
LEMMA RefsNow ==
  ASSUME NEW own \in [Variables -> Value \cup {NoValue}], NEW x \in Variables,
         NEW w \in Value \cup {NoValue},
         NEW new \in {[own EXCEPT ![x] = w]}, NEW a
  PROVE  /\ new \in [Variables -> Value \cup {NoValue}] /\ new[x] = w
         /\ \A z \in Variables \ {x} : new[z] = own[z]
         /\ refsIn(new, a) = IF w # NoValue /\ w.address = a
                             THEN refsIn(own, a) \cup {x} ELSE refsIn(own, a) \ {x}
         /\ x \in refsIn(own, a) <=> own[x] # NoValue /\ own[x].address = a
BY DEF refsIn

LEMMA ShareKeeps ==
  ASSUME NEW h, NEW own, CountInv(h, own), NEW x \in Variables, NEW y \in Variables,
         own[x] # NoValue, own[y] = NoValue,
         NEW w \in Value, w.address = own[x].address, w.type = own[x].type,
         NEW new \in {[own EXCEPT ![y] = w]}
  PROVE  CountInv(clone(h, own[x]), new) /\ NotLeaked(h, own, clone(h, own[x]), new)
<1> DEFINE v == own[x]
           g == clone(h, v)
<1>1. v \in Value /\ w # NoValue /\ own \in [Variables -> Value \cup {NoValue}] /\ h \in Heap
  BY OwnedIs, ValueIs DEF CountInv
<1>2. /\ new \in [Variables -> Value \cup {NoValue}] /\ new[y] = w
      /\ \A z \in Variables \ {y} : new[z] = own[z]
  BY <1>1, RefsNow
<1>3. \A a : refsIn(new, a) = IF w.address = a THEN refsIn(own, a) \cup {y} ELSE refsIn(own, a) \ {y}
  <2> SUFFICES ASSUME NEW a
               PROVE  refsIn(new, a) = IF w.address = a THEN refsIn(own, a) \cup {y}
                                       ELSE refsIn(own, a) \ {y}
    OBVIOUS
  <2> QED
    BY <1>1, <1>2 DEF refsIn
<1>4. \A a : y \notin refsIn(own, a)
  BY DEF refsIn
<1>5. \A a \in Addresses : a # v.address =>
        /\ refsIn(new, a) = refsIn(own, a)
        /\ \A z \in refsIn(own, a) : new[z] = own[z]
  BY <1>2, <1>3, <1>4 DEF refsIn
<1>6. \A a \in Addresses : refsIn(own, a) # {} => refsIn(new, a) # {}
  BY <1>3, <1>4
<1>7. NotLeaked(h, own, g, new)
  BY <1>6 DEF NotLeaked, hasList
<1>8. CASE ~onHeap(v)
  <2>1. g = h
    BY <1>8 DEF clone
  <2>2. v.address \notin Addresses
    BY <1>8, BuffersAssumption DEF onHeap, BuffersAssumption
  <2>3. \A a \in Addresses : Counted(g[a], refsIn(new, a)) /\ ListCounted(g, new, a)
    BY <1>5, <2>1, <2>2 DEF CountInv, ListCounted, hasList
  <2> QED
    BY <1>1, <1>2, <1>7, <2>1, <2>3 DEF CountInv
<1>9. CASE onHeap(v)
  <2> DEFINE a == v.address
             refs == refsIn(own, a)
             b == g[a]
  <2>1. a \in Addresses /\ x \in refs /\ h[a] \in Allocation /\ h[a].live
    BY <1>9, OwnedIs
  <2>2. /\ IsFiniteSet(refs) /\ Counted(h[a], refs) /\ ListCounted(h, own, a)
    BY <2>1, RefsFinite DEF CountInv
  <2>3. /\ b = IF v.type = "RocStr" THEN BigString_clone(h[a]) ELSE RocList_clone(h[a])
        /\ g = [h EXCEPT ![a] = b]
    BY <1>1, <1>9, <2>1, ValueIs DEF clone, Heap
  <2> HIDE DEF g
  <2>4. b \in {RocList_clone(h[a]), BigString_clone(h[a])}
    BY <2>3
  <2>5. /\ b \in Allocation /\ Counted(b, refs \cup {y})
        /\ Exact(h[a], refs) /\ b = RocList_clone(h[a]) => Exact(b, refs \cup {y})
    BY <1>4, <2>1, <2>2, <2>4, SharedCount
  <2>6. refsIn(new, a) = refs \cup {y}
    BY <1>3
  <2>7. g \in Heap /\ \A c \in Addresses \ {a} : g[c] = h[c]
    BY <1>1, <2>1, <2>3, <2>5 DEF Heap
  <2>8. ListCounted(g, new, a)
    <3> SUFFICES ASSUME hasList(new, a)
                 PROVE  /\ \A z \in refsIn(new, a) : new[z].type = "RocList"
                        /\ Exact(g[a], refsIn(new, a))
      BY DEF ListCounted
    <3>1. \E z \in refs : own[z].type = "RocList"
      <4>1. PICK z \in refs \cup {y} : new[z].type = "RocList"
        BY <2>6 DEF hasList
      <4>2. CASE z = y
        BY <4>1, <4>2, <1>2, <2>1
      <4>3. CASE z # y
        BY <4>1, <4>3, <1>2 DEF refsIn
      <4> QED
        BY <4>2, <4>3
    <3>2. (\A z \in refs : own[z].type = "RocList") /\ Exact(h[a], refs)
      BY <2>2, <3>1 DEF ListCounted, hasList
    <3>3. v.type = "RocList"
      BY <2>1, <3>2
    <3>4. \A z \in refs \cup {y} : new[z].type = "RocList"
      BY <1>2, <3>2, <3>3 DEF refsIn
    <3> QED
      BY <2>3, <2>5, <2>6, <3>2, <3>3, <3>4
  <2>9. ASSUME NEW c \in Addresses, c # a
        PROVE  Counted(g[c], refsIn(new, c)) /\ ListCounted(g, new, c)
    <3>1. g[c] = h[c] /\ refsIn(new, c) = refsIn(own, c) /\ \A z \in refsIn(own, c) : new[z] = own[z]
      BY <1>5, <2>7, <2>9
    <3> QED
      BY <3>1 DEF CountInv, ListCounted, hasList
  <2>10. CountInv(g, new)
    BY <1>2, <2>5, <2>6, <2>7, <2>8, <2>9 DEF CountInv
  <2> QED
    BY <1>7, <2>10 DEF g
<1> QED
  BY <1>8, <1>9

(* The value v is given up.                                                *)
Released(h, v, g) ==
  /\ g \in Heap /\ \A b \in Addresses \ {v.address} : g[b] = h[b]
  /\ onHeap(v) =>
       \/ v.type = "RocStr" /\ h[v.address].rc = REFCOUNT_1
       \/ /\ g[v.address] \in {h[v.address], lessOne(h[v.address])}
          /\ v.type = "RocList" => g[v.address] = lessOne(h[v.address])

LEMMA ReleaseKeeps ==
  ASSUME NEW h, NEW own, CountInv(h, own), NEW x \in Variables, own[x] # NoValue,
         NEW g, Released(h, own[x], g),
         NEW new \in {[own EXCEPT ![x] = NoValue]}
  PROVE  CountInv(g, new) /\ NotLeaked(h, own, g, new)
<1> DEFINE v == own[x]
<1>1. v \in Value /\ own \in [Variables -> Value \cup {NoValue}] /\ h \in Heap /\ g \in Heap
  BY OwnedIs DEF CountInv, Released
<1>2. /\ new \in [Variables -> Value \cup {NoValue}] /\ new[x] = NoValue
      /\ \A z \in Variables \ {x} : new[z] = own[z]
  BY <1>1, RefsNow
<1>3. \A a : refsIn(new, a) = refsIn(own, a) \ {x}
  <2> SUFFICES ASSUME NEW a PROVE refsIn(new, a) = refsIn(own, a) \ {x}
    OBVIOUS
  <2> QED
    BY <1>1, <1>2 DEF refsIn
<1>4. \A a : x \in refsIn(own, a) => a = v.address
  BY DEF refsIn
<1>5. \A a \in Addresses : a # v.address =>
        /\ g[a] = h[a] /\ refsIn(new, a) = refsIn(own, a)
        /\ \A z \in refsIn(own, a) : new[z] = own[z]
  BY <1>2, <1>3, <1>4 DEF refsIn, Released
<1>6. ASSUME NEW a \in Addresses, a # v.address
      PROVE  /\ Counted(g[a], refsIn(new, a)) /\ ListCounted(g, new, a)
             /\ hasList(own, a) => refsIn(new, a) # {}
  <2>1. /\ g[a] = h[a] /\ refsIn(new, a) = refsIn(own, a)
        /\ \A z \in refsIn(own, a) : new[z] = own[z]
    BY <1>5, <1>6
  <2>2. Counted(h[a], refsIn(own, a)) /\ ListCounted(h, own, a)
    BY DEF CountInv
  <2> QED
    BY <2>1, <2>2 DEF ListCounted, hasList
<1>7. CASE ~onHeap(v)
  <2>1. v.address \notin Addresses
    BY <1>7, BuffersAssumption DEF onHeap, BuffersAssumption
  <2> QED
    BY <1>1, <1>2, <1>6, <2>1 DEF CountInv, NotLeaked
<1>8. CASE onHeap(v)
  <2> DEFINE a == v.address
             refs == refsIn(own, a)
  <2>1. a \in Addresses /\ x \in refs /\ h[a] \in Allocation /\ h[a].live
    BY <1>8, OwnedIs
  <2>2. IsFiniteSet(refs) /\ Counted(h[a], refs) /\ ListCounted(h, own, a)
    BY <2>1, RefsFinite DEF CountInv
  <2>3. refsIn(new, a) = refs \ {x} /\ \A z \in refs \ {x} : new[z] = own[z]
    BY <1>2, <1>3 DEF refsIn
  <2>4. hasList(own, a) => /\ v.type = "RocList" /\ Exact(h[a], refs)
                           /\ \A z \in refs \ {x} : new[z].type = "RocList"
    BY <2>1, <2>2, <2>3 DEF ListCounted
  <2>5. hasList(new, a) => hasList(own, a)
    BY <2>3 DEF hasList
  <2>6. CASE v.type = "RocStr" /\ h[a].rc = REFCOUNT_1
    <3>1. refs = {x}
      BY <2>1, <2>2, <2>6, AloneCount
    <3>2. ~hasList(own, a)
      BY <2>4, <2>6
    <3>3. Counted(g[a], refsIn(new, a)) /\ ListCounted(g, new, a)
      BY <2>3, <2>5, <3>1, <3>2 DEF Counted, ListCounted
    <3> QED
      BY <1>1, <1>2, <1>6, <3>2, <3>3 DEF CountInv, NotLeaked
  <2>7. CASE ~(v.type = "RocStr" /\ h[a].rc = REFCOUNT_1)
    <3>1. /\ g[a] \in {h[a], lessOne(h[a])}
          /\ v.type = "RocList" => g[a] = lessOne(h[a])
      BY <1>8, <2>7 DEF Released
    <3>2. /\ Counted(g[a], refs \ {x})
          /\ g[a] = lessOne(h[a]) /\ Exact(h[a], refs) /\ refs \ {x} # {} => Exact(g[a], refs \ {x})
          /\ g[a] = lessOne(h[a]) /\ Exact(h[a], refs) /\ refs \ {x} = {} =>
               ~g[a].live \/ h[a].rc >= 0
      BY <2>1, <2>2, <3>1, GivenUpCount
    <3>3. ListCounted(g, new, a)
      BY <2>3, <2>4, <2>5, <3>1, <3>2 DEF ListCounted, hasList
    <3>4. hasList(own, a) /\ refsIn(new, a) = {} => ~g[a].live \/ h[a].rc >= 0
      BY <2>3, <2>4, <3>1, <3>2
    <3> QED
      BY <1>1, <1>2, <1>6, <2>3, <3>2, <3>3, <3>4 DEF CountInv, NotLeaked
  <2> QED
    BY <2>6, <2>7
<1> QED
  BY <1>7, <1>8

(* A variable without a value gets one that no other refers to.            *)
Placed(h, w, g) ==
  /\ g \in Heap /\ \A b \in Addresses \ {w.address} : g[b] = h[b]
  /\ onHeap(w) =>
       /\ w.address \in unused(h) /\ g[w.address].live /\ g[w.address].rc >= REFCOUNT_1
       /\ w.type = "RocList" => g[w.address].rc = REFCOUNT_1

LEMMA PlaceKeeps ==
  ASSUME NEW h, NEW own, CountInv(h, own), NEW x \in Variables, own[x] = NoValue,
         NEW w \in Value, NEW g, Placed(h, w, g),
         NEW new \in {[own EXCEPT ![x] = w]}
  PROVE  /\ CountInv(g, new)
         /\ \A a \in Addresses : refsIn(own, a) \subseteq refsIn(new, a)
         /\ onHeap(w) => refsIn(new, w.address) # {}
<1>1. w # NoValue /\ own \in [Variables -> Value \cup {NoValue}] /\ h \in Heap /\ g \in Heap
  BY ValueIs DEF CountInv, Placed
<1>2. /\ new \in [Variables -> Value \cup {NoValue}] /\ new[x] = w
      /\ \A z \in Variables \ {x} : new[z] = own[z]
  BY <1>1, RefsNow
<1>3. \A a : refsIn(new, a) = IF w.address = a THEN refsIn(own, a) \cup {x} ELSE refsIn(own, a)
  BY <1>1, <1>2 DEF refsIn
<1>4. ASSUME NEW a \in Addresses, a # w.address
      PROVE  Counted(g[a], refsIn(new, a)) /\ ListCounted(g, new, a)
  <2>1. /\ g[a] = h[a] /\ refsIn(new, a) = refsIn(own, a)
        /\ \A z \in refsIn(own, a) : new[z] = own[z]
    BY <1>2, <1>3, <1>4 DEF Placed, refsIn
  <2>2. Counted(h[a], refsIn(own, a)) /\ ListCounted(h, own, a)
    BY DEF CountInv
  <2> QED
    BY <2>1, <2>2 DEF ListCounted, hasList
<1>5. CASE ~onHeap(w)
  <2>1. w.address \notin Addresses
    BY <1>5, BuffersAssumption DEF onHeap, BuffersAssumption
  <2> QED
    BY <1>1, <1>2, <1>3, <1>4, <1>5, <2>1 DEF CountInv
<1>6. CASE onHeap(w)
  <2> DEFINE a == w.address
  <2>1. /\ a \in Addresses /\ ~h[a].live /\ g[a].live /\ g[a].rc >= REFCOUNT_1
        /\ w.type = "RocList" => g[a].rc = REFCOUNT_1
    BY <1>6 DEF Placed, unused
  <2>2. refsIn(own, a) = {}
    BY <2>1 DEF CountInv, Counted
  <2>3. refsIn(new, a) = {x} /\ Cardinality({x}) = 1
    BY <1>3, <2>2, FS_Singleton
  <2>4. REFCOUNT_1 \in Int /\ REFCOUNT_1 + 1 - 1 = REFCOUNT_1
    BY FreeIs, AllocationIs
  <2>5. Counted(g[a], refsIn(new, a))
    BY <2>1, <2>3, <2>4 DEF Counted
  <2>6. ListCounted(g, new, a)
    BY <1>2, <2>1, <2>3, <2>4 DEF ListCounted, hasList, Exact
  <2> QED
    BY <1>1, <1>2, <1>3, <1>4, <2>3, <2>5, <2>6 DEF CountInv
<1> QED
  BY <1>5, <1>6

(* A call replaces the value v of x, or makes one from a v without an      *)
(* allocation.                                                             *)
LEMMA GrowKeeps ==
  ASSUME NEW h, NEW own, CountInv(h, own), NEW x \in Variables, NEW v \in Value,
         own[x] = v \/ (own[x] = NoValue /\ ~onHeap(v)),
         NEW o \in Outcome, Effect(h, v, o),
         NEW new \in {[own EXCEPT ![x] = o.value]}
  PROVE  CountInv(o.heap, new) /\ NotLeaked(h, own, o.heap, new)
<1> DEFINE w == o.value
           g == o.heap
           without == [own EXCEPT ![x] = NoValue]
           between == [b \in Addresses |-> IF onHeap(v) /\ b = v.address THEN g[b] ELSE h[b]]
<1>1. /\ w \in Value /\ w # NoValue /\ g \in Heap
      /\ own \in [Variables -> Value \cup {NoValue}] /\ h \in Heap /\ v # NoValue
  BY ValueIs DEF CountInv, Outcome
<1>2. onHeap(v) => v.address \in Addresses /\ h[v.address].live /\ own[x] = v
  BY <1>1, OwnedIs
<1>3. CASE onHeap(v) /\ Stays(h, v, o)
  <2>1. /\ own[x] = v /\ w.address = v.address /\ w.type = v.type
        /\ SameCount(h[v.address], g[v.address])
        /\ \A b \in Addresses : b # v.address => g[b] = h[b]
    BY <1>2, <1>3 DEF Stays, Effect
  <2>2. /\ new \in [Variables -> Value \cup {NoValue}] /\ new[x] = w
        /\ \A z \in Variables \ {x} : new[z] = own[z]
    BY <1>1, RefsNow
  <2>3. \A a : refsIn(new, a) = refsIn(own, a)
    BY <1>1, <2>1, <2>2 DEF refsIn
  <2>4. \A z \in Variables : new[z] = NoValue \/ new[z].type = own[z].type
    BY <2>1, <2>2
  <2>5. ASSUME NEW a \in Addresses
        PROVE  Counted(g[a], refsIn(new, a)) /\ ListCounted(g, new, a)
    <3>1. SameCount(h[a], g[a])
      BY <2>1 DEF SameCount
    <3>2. Counted(h[a], refsIn(own, a)) /\ ListCounted(h, own, a)
      BY DEF CountInv
    <3>3. \A z \in refsIn(own, a) : new[z].type = own[z].type
      BY <2>1, <2>2 DEF refsIn
    <3> QED
      BY <2>3, <3>1, <3>2, <3>3 DEF ListCounted, hasList, Counted, Exact, SameCount
  <2>6. NotLeaked(h, own, g, new)
    BY <2>3 DEF NotLeaked, hasList
  <2> QED
    BY <1>1, <2>2, <2>5, <2>6 DEF CountInv
<1>4. CASE ~(onHeap(v) /\ Stays(h, v, o))
  <2>1. /\ Stays(h, v, o) => ~onHeap(w)
        /\ Moves(h, v, o) \/ Leaves(h, v, o) =>
             /\ w.address \in unused(h) /\ w.address \in Addresses
             /\ onHeap(v) => w.address # v.address
    BY <1>2, <1>4 DEF Stays, Moves, Leaves, onHeap, unused
  <2>2. \A b \in Addresses : b # v.address /\ b # w.address => g[b] = h[b]
    BY DEF Effect
  <2>3. between \in Heap
    BY <1>1 DEF Heap
  <2>4. /\ \A b \in Addresses \ {v.address} : between[b] = h[b]
        /\ onHeap(v) => between[v.address] = g[v.address]
    BY <1>2
  <2> HIDE DEF between
  <2>5. onHeap(v) =>
          /\ g[v.address] \in {h[v.address], lessOne(h[v.address])}
          /\ v.type = "RocList" => g[v.address] = lessOne(h[v.address])
    <3>1. Moves(h, v, o) => g[v.address] = lessOne(h[v.address])
      BY DEF Moves, lessOne
    <3>2. Leaves(h, v, o) /\ onHeap(v) => g[v.address] = dropped(h, v)[v.address]
      BY DEF Leaves
    <3> QED
      BY <1>1, <1>4, <3>1, <3>2, DroppedIs DEF Effect
  <2>6. Released(h, v, between)
    BY <2>3, <2>4, <2>5 DEF Released
  <2>7. CountInv(between, without) /\ NotLeaked(h, own, between, without)
    <3>1. CASE own[x] = v
      BY <1>1, <2>6, <3>1, ReleaseKeeps
    <3>2. CASE own[x] = NoValue /\ ~onHeap(v)
      <4>1. without = own
        BY <1>1, <3>2
      <4>2. between = h
        BY <1>1, <3>2 DEF between, Heap
      <4>3. NotLeaked(h, own, h, own)
        BY DEF NotLeaked, hasList
      <4> QED
        BY <4>1, <4>2, <4>3
    <3> QED
      BY <3>1, <3>2
  <2>8. Placed(between, w, g)
    <3>1. \A b \in Addresses \ {w.address} : g[b] = between[b]
      BY <1>2, <2>2, <2>4, BuffersAssumption DEF onHeap, BuffersAssumption
    <3>2. CASE ~onHeap(w)
      BY <1>1, <3>1, <3>2 DEF Placed
    <3>3. CASE onHeap(w)
      <4>1. w.address \in unused(between)
        BY <1>2, <2>1, <2>4, <3>3, BuffersAssumption DEF Effect, unused, onHeap, BuffersAssumption
      <4>2. /\ g[w.address].live /\ g[w.address].rc >= REFCOUNT_1
            /\ w.type = "RocList" => g[w.address].rc = REFCOUNT_1
        <5>1. REFCOUNT_1 \in Int
          BY FreeIs, AllocationIs
        <5> QED
          BY <2>1, <3>3, <5>1 DEF Effect, Moves, Leaves
      <4> QED
        BY <1>1, <3>1, <4>1, <4>2 DEF Placed
    <3> QED
      BY <3>2, <3>3
  <2>9. new = [without EXCEPT ![x] = w] /\ without[x] = NoValue
    BY <1>1
  <2> HIDE DEF without
  <2>10. /\ CountInv(g, new)
         /\ \A a \in Addresses : refsIn(without, a) \subseteq refsIn(new, a)
         /\ onHeap(w) => refsIn(new, w.address) # {}
    <3>1. /\ CountInv(between, without) /\ without[x] = NoValue /\ w \in Value
          /\ Placed(between, w, g) /\ new = [without EXCEPT ![x] = w]
      BY <1>1, <2>7, <2>8, <2>9
    <3> QED
      BY <3>1, PlaceKeeps
  <2>11. NotLeaked(h, own, g, new)
    <3> SUFFICES ASSUME NEW a \in Addresses, hasList(own, a), refsIn(new, a) = {}
                 PROVE  ~g[a].live \/ h[a].rc >= 0
      BY DEF NotLeaked
    <3>1. refsIn(without, a) = {}
      BY <2>10
    <3>2. ~between[a].live \/ h[a].rc >= 0
      BY <2>7, <3>1 DEF NotLeaked
    <3>3. a # w.address
      BY <2>10, BuffersAssumption DEF onHeap, BuffersAssumption
    <3> QED
      BY <2>8, <3>2, <3>3 DEF Placed
  <2> QED
    BY <2>10, <2>11
<1> QED
  BY <1>3, <1>4
-----------------------------------------------------------------------------
(* The calls of the host.                                                  *)

LEMMA TextsAre == \A s \in Texts : s \in Seq(Elements)
<1> SUFFICES ASSUME NEW s \in Texts PROVE s \in Seq(Elements)
  OBVIOUS
<1>1. PICK n \in 0 .. MaxLength : s \in [1 .. n -> Elements]
  BY DEF Texts
<1>2. n \in Nat
  BY BuffersAssumption DEF BuffersAssumption
<1> QED
  BY <1>1, <1>2

LEMMA BoundsAre == \A n \in 0 .. MaxLength : n \in Nat
BY BuffersAssumption DEF BuffersAssumption

LEMMA SmallIs ==
  ASSUME NEW s \in Seq(Elements)
  PROVE  /\ small(s) \in Value /\ ~onHeap(small(s)) /\ small(s).type = "RocStr"
         /\ small(s).text = s /\ small(s).length = Len(s) /\ small(s).address = Nothing
BY BuffersAssumption, LenProperties DEF small, Value, Fields, onHeap, BuffersAssumption

LEMMA SlicedIs ==
  ASSUME NEW v \in Value, sliceable(v), NEW from \in Nat, NEW to \in Nat,
         from <= to, to <= v.length, NEW w \in {sliced(v, from, to)}
  PROVE  /\ w \in Value /\ w.address = v.address /\ w.type = v.type
         /\ ~onHeap(v) => w.text = SubSeq(v.text, from + 1, to)
         /\ onHeap(v) => w.start = v.start + from /\ w.length = to - from /\ w.slice
<1>1. CASE ~onHeap(v)
  <2> DEFINE s == SubSeq(v.text, from + 1, to)
  <2>1. v.type = "RocStr" /\ v = small(v.text) /\ v.text \in Seq(Elements)
    BY <1>1, ValueIs DEF sliceable
  <2>2. v.length = Len(v.text) /\ v.address = Nothing
    BY <2>1, SmallIs
  <2>3. \A i \in from + 1 .. to : v.text[i] \in Elements
    BY <2>1, <2>2, ElementOfSeq
  <2>4. s \in Seq(Elements)
    BY <2>3, SubSeqProperties
  <2> HIDE DEF s
  <2>5. w = small(s)
    BY <1>1 DEF sliced, s
  <2> QED
    BY <1>1, <2>1, <2>2, <2>4, <2>5, SmallIs DEF s
<1>2. CASE onHeap(v)
  <2> DEFINE start  == v.start + from
             length == to - from
  <2>1. start \in Nat /\ length \in Nat
    BY ValueIs
  <2>2. w = [v EXCEPT !.start = start, !.length = length, !.capacity = 0, !.slice = TRUE]
    BY <1>2 DEF sliced
  <2>3. v \in Fields
    BY DEF Value
  <2> HIDE DEF start, length
  <2>4. w \in Fields /\ w.address = v.address /\ w.type = v.type
        /\ w.start = start /\ w.length = length /\ w.slice
    BY <2>1, <2>2, <2>3 DEF Fields
  <2> QED
    BY <1>2, <2>4 DEF Value, onHeap, start, length
<1> QED
  BY <1>1, <1>2

Kept == CountInv(heap', owned') /\ NotLeaked(heap, owned, heap', owned')

LEMMA BecomesKeeps ==
  ASSUME CountInv(heap, owned), NEW x \in Variables, NEW v \in Value,
         owned[x] = v \/ (owned[x] = NoValue /\ ~onHeap(v)),
         NEW outcomes, \A o \in outcomes : o \in Outcome /\ Effect(heap, v, o),
         becomes(x, outcomes)
  PROVE  Kept
<1>1. PICK o \in outcomes : heap' = o.heap /\ owned' = [owned EXCEPT ![x] = o.value]
  BY DEF becomes
<1>2. CountInv(o.heap, owned') /\ NotLeaked(heap, owned, o.heap, owned')
  BY <1>1, GrowKeeps
<1> QED
  BY <1>1, <1>2 DEF Kept

(* A string that is not small is made as a list.                           *)
LEMMA StrMade ==
  ASSUME NEW h \in Heap, NEW s \in Seq(Elements), ~(Len(s) <= SmallCapacity),
         NEW o \in extend_from_slice(h, emptyList, s),
         NEW p \in {[o EXCEPT !.value.type = "RocStr"]}
  PROVE  /\ p \in Outcome /\ Effect(h, emptyList, p)
         /\ p.heap = o.heap /\ p.value = [o.value EXCEPT !.type = "RocStr"]
         /\ o.value \in Fields
<1>1. /\ Grounded(h, emptyList) /\ emptyList \in Value
      /\ emptyList.type = "RocList" /\ ~onHeap(emptyList)
  BY EmptyListIs DEF Grounded
<1>2. o \in Outcome /\ Effect(h, emptyList, o) /\ onHeap(o.value)
  <2>1. Len(s) \in Nat /\ s # <<>>
    BY BuffersAssumption, LenProperties, EmptySeq DEF BuffersAssumption
  <2>2. PICK u \in extended(h, emptyList, Len(s)) : o = append(u, s)
    BY <2>1 DEF extend_from_slice
  <2>3. u \in Outcome /\ Effect(h, emptyList, u) /\ onHeap(u.value)
    BY <1>1, <2>1, ExtendedEffect
  <2>4. Grounded(u.heap, u.value)
    BY <1>1, <2>3, EffectGrounded
  <2>5. o.value.address = u.value.address
    BY <2>2, <2>3, <2>4, AppendIs
  <2> QED
    BY <1>1, <2>2, <2>3, <2>5, AppendEffect DEF onHeap
<1>3. /\ p.heap = o.heap /\ p.value = [o.value EXCEPT !.type = "RocStr"]
      /\ o.value \in Fields /\ o.heap \in Heap
  BY <1>2 DEF Outcome, Value
<1>4. /\ p.value \in Fields /\ p.value.address = o.value.address
      /\ p.value.type = "RocStr"
  BY <1>3 DEF Fields
<1>5. p = [heap |-> p.heap, value |-> p.value]
  BY <1>2 DEF Outcome
<1>6. p \in Outcome
  BY <1>2, <1>3, <1>4, <1>5 DEF Outcome, Value, onHeap
<1> QED
  BY <1>1, <1>2, <1>3, <1>4, <1>6 DEF Effect, Stays, Moves, Leaves

LEMMA MakeKeeps ==
  ASSUME CountInv(heap, owned), NEW x \in Variables, Make(x)
  PROVE  Kept
<1>1. /\ heap \in Heap /\ Grounded(heap, emptyList)
      /\ emptyList \in Value /\ emptyList.type = "RocList" /\ ~onHeap(emptyList)
  BY EmptyListIs DEF CountInv, Grounded
<1>2. ASSUME NEW s \in Texts, RocList_from_slice(x, s)
      PROVE  Kept
  BY <1>1, <1>2, TextsAre, ExtendEffect, BecomesKeeps DEF RocList_from_slice, makes
<1>3. ASSUME NEW s \in Texts, RocStr_from(x, s)
      PROVE  Kept
  <2> DEFINE str(o) == [o EXCEPT !.value.type = "RocStr"]
             made   == {str(o) : o \in extend_from_slice(heap, emptyList, s)}
  <2>1. s \in Seq(Elements) /\ owned[x] = NoValue
    BY <1>3, TextsAre DEF RocStr_from, makes
  <2>2. CASE Len(s) <= SmallCapacity
    <3>1. becomes(x, same(heap, small(s)))
      BY <1>3, <2>2 DEF RocStr_from, makes
    <3>2. small(s) \in Value /\ ~onHeap(small(s))
      BY <2>1, SmallIs
    <3> QED
      BY <1>1, <2>1, <3>1, <3>2, SameEffect, BecomesKeeps
  <2>3. CASE ~(Len(s) <= SmallCapacity)
    <3>1. becomes(x, made)
      BY <1>3, <2>3 DEF RocStr_from, makes
    <3>3. \A p \in made : p \in Outcome /\ Effect(heap, emptyList, p)
      BY <1>1, <2>1, <2>3, StrMade
    <3> HIDE DEF made
    <3> QED
      BY <1>1, <2>1, <3>1, <3>3, BecomesKeeps
  <2> QED
    BY <2>2, <2>3
<1>4. ASSUME NEW n \in 0 .. MaxLength, RocList_with_capacity(x, n)
      PROVE  Kept
  BY <1>1, <1>4, BoundsAre, ListReserveEffect, BecomesKeeps DEF RocList_with_capacity, makes
<1>5. ASSUME NEW n \in 0 .. MaxLength, RocStr_with_capacity(x, n)
      PROVE  Kept
  <2>1. /\ small(<<>>) \in Value /\ ~onHeap(small(<<>>)) /\ small(<<>>).type = "RocStr"
        /\ Grounded(heap, small(<<>>))
    BY EmptySeq, SmallIs DEF Grounded
  <2> QED
    BY <1>1, <1>5, <2>1, BoundsAre, StrReserveEffect, BecomesKeeps DEF RocStr_with_capacity, makes
<1>6. ASSUME NEW s \in Texts, NEW hint \in 0 .. MaxLength, from_iter(x, s, hint)
      PROVE  Kept
  <2>1. \A o \in collected(heap, s, hint) : o \in Outcome /\ Effect(heap, emptyList, o)
    <3> SUFFICES ASSUME NEW o \in collected(heap, s, hint)
                 PROVE  o \in Outcome /\ Effect(heap, emptyList, o)
      OBVIOUS
    <3>1. Fresh(heap, o)
      BY <1>1, BoundsAre, TextsAre, CollectedFresh
    <3>2. REFCOUNT_1 \in Int
      BY FreeIs, AllocationIs
    <3> QED
      BY <1>1, <3>1, <3>2 DEF Fresh, Effect, Leaves
  <2> QED
    BY <1>1, <1>6, <2>1, BecomesKeeps DEF from_iter, makes
<1> QED
  BY <1>2, <1>3, <1>4, <1>5, <1>6 DEF Make

LEMMA GrowsKeep ==
  ASSUME CountInv(heap, owned), NEW x \in Variables, Grow(x)
  PROVE  Kept
<1>1. owned[x] # NoValue
  BY DEF Grow, grows
<1>2. heap \in Heap /\ owned[x] \in Value /\ Grounded(heap, owned[x])
  BY <1>1, OwnedIs DEF CountInv
<1>3. ASSUME NEW e \in Elements, push(x, e)
      PROVE  Kept
  BY <1>2, <1>3, PushEffect, BecomesKeeps DEF push, owns
<1>4. ASSUME NEW s \in Texts, extend(x, s)
      PROVE  Kept
  BY <1>2, <1>4, TextsAre, ExtendEffect, BecomesKeeps DEF extend, owns
<1>5. ASSUME NEW n \in 0 .. MaxLength, reserve(x, n)
      PROVE  Kept
  <2>1. n \in Nat
    BY BuffersAssumption DEF BuffersAssumption
  <2>2. CASE owns(x, "RocList") /\ becomes(x, RocList_reserve(heap, owned[x], n))
    BY <1>2, <2>1, <2>2, ListReserveEffect, BecomesKeeps DEF owns
  <2>3. CASE owns(x, "RocStr") /\ becomes(x, RocStr_reserve(heap, owned[x], n))
    BY <1>2, <2>1, <2>3, StrReserveEffect, BecomesKeeps DEF owns
  <2> QED
    BY <1>5, <2>2, <2>3 DEF reserve
<1> QED
  BY <1>3, <1>4, <1>5 DEF Grow

(* A delimiter is found: two slices of the string, one after the other.    *)
LEMMA SplitKeeps ==
  ASSUME CountInv(heap, owned), NEW x \in Variables, NEW y \in Variables, NEW z \in Variables,
         NEW i \in 0 .. MaxLength, NEW j \in i .. MaxLength, split_once(x, y, z, i, j)
  PROVE  Kept
<1> DEFINE v == owned[x]
           u == sliced(v, 0, i)
           w == sliced(v, j, v.length)
           h1 == clone(heap, v)
           own1 == [owned EXCEPT ![y] = u]
<1>1. /\ v # NoValue /\ owned[y] = NoValue /\ owned[z] = NoValue /\ y # z
      /\ sliceable(v) /\ j <= v.length
      /\ heap' = clone(h1, v) /\ owned' = [own1 EXCEPT ![z] = w]
  BY DEF split_once, owns
<1>2. v \in Value /\ owned \in [Variables -> Value \cup {NoValue}]
  BY <1>1, OwnedIs DEF CountInv
<1>3. i \in Nat /\ j \in Nat /\ i <= j /\ v.length \in Nat
  BY <1>2, ValueIs, BuffersAssumption DEF BuffersAssumption
<1>4. /\ u \in Value /\ u.address = v.address /\ u.type = v.type
      /\ w \in Value /\ w.address = v.address /\ w.type = v.type
  <2>1. 0 <= i /\ i <= v.length /\ v.length <= v.length /\ 0 \in Nat
    BY <1>1, <1>3
  <2> QED
    BY <1>1, <1>2, <1>3, <2>1, SlicedIs
<1> HIDE DEF u, w
<1>5. own1[x] = v /\ own1[z] = NoValue /\ own1 \in [Variables -> Value \cup {NoValue}]
  BY <1>1, <1>2, <1>4
<1>6. CountInv(h1, own1) /\ NotLeaked(heap, owned, h1, own1)
  BY <1>1, <1>4, ShareKeeps
<1> HIDE DEF own1, h1
<1>7. CountInv(clone(h1, v), owned') /\ NotLeaked(h1, own1, clone(h1, v), owned')
  <2>1. own1[x] # NoValue /\ w.address = own1[x].address /\ w.type = own1[x].type
    BY <1>1, <1>4, <1>5
  <2>2. /\ CountInv(clone(h1, own1[x]), owned')
        /\ NotLeaked(h1, own1, clone(h1, own1[x]), owned')
    BY <1>1, <1>4, <1>5, <1>6, <2>1, ShareKeeps
  <2> QED
    BY <1>5, <2>2
<1>8. \A a \in Addresses : refsIn(owned, a) \subseteq refsIn(owned', a)
  BY <1>1, <1>2 DEF refsIn, own1
<1>9. NotLeaked(heap, owned, heap', owned')
  BY <1>8 DEF NotLeaked, hasList
<1> QED
  BY <1>1, <1>7, <1>9 DEF Kept

LEMMA SharesKeep ==
  ASSUME CountInv(heap, owned), NEW x \in Variables, Share(x)
  PROVE  Kept
<1>1. ASSUME NEW y \in Variables, Clone(x, y)
      PROVE  Kept
  <2>1. owned[x] # NoValue /\ owned[y] = NoValue /\ owned[x] \in Value
    BY <1>1, OwnedIs DEF Clone
  <2> QED
    BY <1>1, <2>1, ShareKeeps DEF Clone, Kept
<1>2. ASSUME NEW y \in Variables, NEW from \in 0 .. MaxLength, NEW to \in from .. MaxLength,
             try_slice_range(x, y, from, to)
      PROVE  Kept
  <2> DEFINE w == sliced(owned[x], from, to)
  <2>1. /\ owned[x] # NoValue /\ owned[y] = NoValue /\ owned[x] \in Value
        /\ sliceable(owned[x]) /\ to <= owned[x].length
        /\ heap' = clone(heap, owned[x]) /\ owned' = [owned EXCEPT ![y] = w]
    BY <1>2, OwnedIs DEF try_slice_range
  <2>2. from \in Nat /\ to \in Nat /\ from <= to
    BY BuffersAssumption DEF BuffersAssumption
  <2>3. w \in Value /\ w.address = owned[x].address /\ w.type = owned[x].type
    BY <2>1, <2>2, SlicedIs
  <2> HIDE DEF w
  <2> QED
    BY <2>1, <2>3, ShareKeeps DEF Kept
<1>3. ASSUME NEW y \in Variables, NEW z \in Variables, NEW i \in 0 .. MaxLength,
             NEW j \in i .. MaxLength, split_once(x, y, z, i, j)
      PROVE  Kept
  BY <1>3, SplitKeeps
<1> QED
  BY <1>1, <1>2, <1>3 DEF Share

LEMMA EndsKeep ==
  ASSUME CountInv(heap, owned), NEW x \in Variables,
         Drop(x) \/ with_utf8_terminator(x) \/ with_terminator(x)
  PROVE  Kept
<1> DEFINE v == owned[x]
<1>1. v # NoValue /\ owned' = [owned EXCEPT ![x] = NoValue]
  BY DEF Drop, with_utf8_terminator, with_terminator, owns
<1>2. heap \in Heap /\ v \in Value /\ Grounded(heap, v)
  BY <1>1, OwnedIs DEF CountInv
<1>3. CASE heap' = dropped(heap, v)
  <2>1. Released(heap, v, dropped(heap, v))
    <3>1. CASE ~onHeap(v)
      BY <1>2, <3>1, DroppedIs DEF Released
    <3>2. CASE onHeap(v)
      BY <1>2, <3>2, DroppedIs DEF Released
    <3> QED
      BY <3>1, <3>2
  <2> QED
    BY <1>1, <1>3, <2>1, ReleaseKeeps DEF Kept
<1>4. CASE with_utf8_terminator(x) /\ heap' # dropped(heap, v)
  <2>1. PICK rc \in UninitCounts :
          /\ v.type = "RocStr" /\ onHeap(v) /\ unique(heap, v)
          /\ heap' = dropped([heap EXCEPT ![v.address].rc = rc], v)
    BY <1>4 DEF with_utf8_terminator, owns
  <2>2. v.address \in Addresses /\ heap[v.address].rc = REFCOUNT_1 /\ heap[v.address].live
    BY <1>2, <2>1, UniqueIs
  <2> DEFINE h == [heap EXCEPT ![v.address].rc = rc]
  <2>3. h \in Heap /\ \A b \in Addresses \ {v.address} : h[b] = heap[b]
    <3>1. heap[v.address] \in [live : {TRUE}, rc : Int, text : Seq(AnyCell)] /\ rc \in Int
      BY <1>2, <2>2, FreeIs, BuffersAssumption DEF Heap, Allocation, BuffersAssumption
    <3>2. [heap[v.address] EXCEPT !.rc = rc] \in Allocation
      BY <3>1 DEF Allocation
    <3> QED
      BY <1>2, <2>2, <3>2 DEF Heap
  <2> HIDE DEF h
  <2>4. dropped(h, v) \in Heap /\ \A b \in Addresses \ {v.address} : dropped(h, v)[b] = h[b]
    BY <1>2, <2>1, <2>3, DroppedIs
  <2>5. Released(heap, v, dropped(h, v))
    BY <2>1, <2>2, <2>3, <2>4 DEF Released
  <2> QED
    BY <1>1, <2>1, <2>5, ReleaseKeeps DEF Kept, h
<1>5. CASE with_terminator(x) /\ heap' # dropped(heap, v)
  <2>1. /\ v.type = "RocStr" /\ onHeap(v) /\ unique(heap, v)
        /\ heap' = [heap EXCEPT ![v.address] = free]
    BY <1>5 DEF with_terminator, owns
  <2>2. v.address \in Addresses /\ heap[v.address].rc = REFCOUNT_1
    BY <1>2, <2>1, UniqueIs
  <2>3. heap' \in Heap /\ \A b \in Addresses \ {v.address} : heap'[b] = heap[b]
    BY <1>2, <2>1, <2>2, FreeIs DEF Heap
  <2>4. Released(heap, v, heap')
    BY <2>1, <2>2, <2>3 DEF Released
  <2> QED
    BY <1>1, <2>4, ReleaseKeeps DEF Kept
<1> QED
  BY <1>3, <1>4, <1>5 DEF Drop
-----------------------------------------------------------------------------
(* Theorems.                                                               *)

LEMMA Start == Init => CountInv(heap, owned)
<1> SUFFICES ASSUME Init PROVE CountInv(heap, owned)
  OBVIOUS
<1>1. heap \in Heap /\ owned \in [Variables -> Value \cup {NoValue}]
  BY FreeIs DEF Init, Heap
<1>2. \A a \in Addresses : refsIn(owned, a) = {}
  BY DEF refsIn, Init
<1> QED
  BY <1>1, <1>2 DEF CountInv, Counted, ListCounted, hasList

LEMMA StepKeeps ==
  ASSUME CountInv(heap, owned), [Next]_vars
  PROVE  Kept
<1>1. CASE Next
  <2>1. PICK x \in Variables :
          \/ Make(x) \/ Grow(x) \/ Share(x)
          \/ Drop(x) \/ with_utf8_terminator(x) \/ with_terminator(x)
    BY <1>1 DEF Next
  <2> QED
    BY <2>1, MakeKeeps, GrowsKeep, SharesKeep, EndsKeep
<1>2. CASE UNCHANGED vars
  BY <1>2 DEF vars, Kept, NotLeaked, hasList
<1> QED
  BY <1>1, <1>2

(* The count of an allocation says at least how many variables refer to    *)
(* it, that of lists exactly.                                              *)
THEOREM AlwaysCounted == Spec => []CountInv(heap, owned)
<1>1. Init => CountInv(heap, owned)
  BY Start
<1>2. CountInv(heap, owned) /\ [Next]_vars => CountInv(heap, owned)'
  <2> SUFFICES ASSUME CountInv(heap, owned), [Next]_vars PROVE CountInv(heap, owned)'
    OBVIOUS
  <2>1. CountInv(heap', owned')
    BY StepKeeps DEF Kept
  <2>2. CountInv(heap', owned') <=> CountInv(heap, owned)'
    BY Zenon DEF CountInv, ListCounted, hasList, refsIn, Heap, Counted, Exact
  <2> QED
    BY <2>1, <2>2
<1> QED
  BY <1>1, <1>2, PTL DEF Spec

(* No allocation is freed while a variable refers to it (dec, reserve,     *)
(* try_slice_range), however the host uses the functions that grow.        *)
THEOREM FreedInTime == Spec => []NotFreedEarly
<1>1. CountInv(heap, owned) => NotFreedEarly
  BY DEF CountInv, Counted, NotFreedEarly, references, refsIn
<1> QED
  BY <1>1, AlwaysCounted, PTL

(* The last list that refers to an allocation frees it (RocList::dec and   *)
(* reserve).                                                               *)
THEOREM ListsFreed == Spec => ListsNotLeaked
<1>1. CountInv(heap, owned) /\ [Next]_vars =>
        [\A address \in Addresses :
           /\ \E x \in references(address) : owned[x].type = "RocList"
           /\ references(address)' = {}
           => ~heap'[address].live \/ heap[address].rc >= 0]_vars
  <2> SUFFICES ASSUME CountInv(heap, owned), [Next]_vars, NEW address \in Addresses,
                      \E x \in references(address) : owned[x].type = "RocList",
                      references(address)' = {}
               PROVE  ~heap'[address].live \/ heap[address].rc >= 0
    OBVIOUS
  <2>1. NotLeaked(heap, owned, heap', owned')
    BY StepKeeps DEF Kept
  <2>2. hasList(owned, address) /\ refsIn(owned', address) = {}
    BY DEF hasList, refsIn, references
  <2> QED
    BY <2>1, <2>2 DEF NotLeaked
<1> QED
  BY <1>1, AlwaysCounted, PTL DEF Spec, ListsNotLeaked
-----------------------------------------------------------------------------
(* What the cells of a value hold.                                         *)

(* The cells c have room for the capacity of v, and its elements are       *)
(* written; a value that is not a slice starts where its allocation does.  *)
Filled(c, v) ==
  /\ v.start + capacity(v) <= Len(c) /\ v.start + v.length <= Len(c)
  /\ ~v.slice => v.start = 0
  /\ \A i \in 1 .. v.length : c[v.start + i] \in Elements

Content(h, v) == onHeap(v) => Filled(cells(h, v), v)

(* Room for n elements after the last.                                     *)
Room(h, v, n) == v.start + v.length + n <= Len(cells(h, v))

(* In place, nothing is written that others could read.                    *)
Private(h, v, o) ==
  onHeap(v) /\ o.value.address = v.address =>
    h[v.address].rc = REFCOUNT_1 \/ o.heap[v.address].text = h[v.address].text

Reads(h, v, o) ==
  /\ Content(o.heap, o.value) /\ Private(h, v, o)
  /\ as_slice(o.heap, o.value) = as_slice(h, v)

ReadsMore(h, v, s, o) ==
  /\ Content(o.heap, o.value) /\ Private(h, v, o)
  /\ as_slice(o.heap, o.value) = as_slice(h, v) \o s

LEMMA OffHeapLength ==
  ASSUME NEW v \in Value, ~onHeap(v)
  PROVE  v.length = Len(v.text)
BY ValueIs, EmptyListIs, SmallIs, EmptySeq

LEMMA ContentRead ==
  ASSUME NEW h \in Heap, NEW v \in Value, Content(h, v)
  PROVE  /\ as_slice(h, v) \in Seq(Elements) /\ Len(as_slice(h, v)) = v.length
         /\ onHeap(v) => \A i \in 1 .. v.length : as_slice(h, v)[i] = cells(h, v)[v.start + i]
<1>1. CASE ~onHeap(v)
  BY <1>1, AsSliceIs, ValueIs, OffHeapLength
<1>2. CASE onHeap(v)
  <2> DEFINE c == cells(h, v)
             s == as_slice(h, v)
  <2>1. /\ c \in Seq(AnyCell) /\ s \in Seq(AnyCell) /\ Len(s) = v.length
        /\ \A i \in 1 .. v.length : s[i] = IF v.start + i <= Len(c) THEN c[v.start + i] ELSE Uninit
    BY <1>2, CellsRead, AsSliceIs
  <2>2. v.start + v.length <= Len(c) /\ \A i \in 1 .. v.length : c[v.start + i] \in Elements
    BY <1>2 DEF Content, Filled
  <2>3. v.start \in Nat /\ v.length \in Nat /\ Len(c) \in Nat
    BY <2>1, ValueIs, LenProperties
  <2> HIDE DEF c, s
  <2>4. \A i \in 1 .. v.length : s[i] = c[v.start + i] /\ s[i] \in Elements
    BY <2>1, <2>2, <2>3
  <2>5. s \in Seq(Elements)
    <3>1. s = [i \in 1 .. v.length |-> s[i]]
      BY <2>1, LenProperties
    <3>2. s \in [1 .. v.length -> Elements]
      BY <2>4, <3>1
    <3> QED
      BY <2>3, <3>2
  <2> QED
    BY <1>2, <2>1, <2>4, <2>5 DEF c, s
<1> QED
  BY <1>1, <1>2

LEMMA CopiedReads ==
  ASSUME NEW h \in Heap, NEW v \in Value, Grounded(h, v), Content(h, v),
         NEW address \in unused(h), NEW rc \in Int, NEW n \in Nat, v.length <= n,
         NEW o \in {[heap |-> copied(h, v, address, rc, n),
                     value |-> big(v.type, address, v.length, n)]}
  PROVE  /\ Reads(h, v, o)
         /\ onHeap(v) => o.value.address # v.address
         /\ onHeap(o.value) /\ capacity(o.value) = n
         /\ o.value.start = 0 /\ o.value.length = v.length /\ Len(cells(o.heap, o.value)) = n
<1> DEFINE g == copied(h, v, address, rc, n)
           w == big(v.type, address, v.length, n)
           s == as_slice(h, v)
           t == written(uninit(n), 0, s)
<1>1. o.heap = g /\ o.value = w
  OBVIOUS
<1>2. v.type \in {"RocList", "RocStr"} /\ address \in Addresses /\ v.length \in Nat
  BY ValueIs DEF unused
<1>3. /\ w \in Value /\ w.address = address /\ w.start = 0 /\ w.length = v.length
      /\ ~w.slice /\ capacity(w) = n /\ onHeap(w)
  BY <1>2, BigIs
<1>4. /\ g \in Heap /\ g[address].live /\ g[address].text = t
      /\ onHeap(v) => v.address # address
  <2>1. g \in {copied(h, v, address, rc, n)}
    OBVIOUS
  <2> HIDE DEF g
  <2> QED
    BY <2>1, CopiedIs
<1>5. /\ s \in Seq(Elements) /\ s \in Seq(AnyCell) /\ Len(s) = v.length
  BY ContentRead, ElementsAreCells
<1>6. /\ t \in Seq(AnyCell) /\ Len(t) = n
      /\ \A i \in 1 .. n : t[i] = IF 0 < i /\ i <= 0 + Len(s) THEN s[i - 0] ELSE uninit(n)[i]
  <2>1. uninit(n) \in Seq(AnyCell) /\ Len(uninit(n)) = n /\ 0 \in Nat
    BY UninitCells
  <2> HIDE DEF s
  <2>2. /\ t \in Seq(AnyCell) /\ Len(t) = Len(uninit(n))
        /\ \A i \in 1 .. Len(uninit(n)) :
             t[i] = IF 0 < i /\ i <= 0 + Len(s) THEN s[i - 0] ELSE uninit(n)[i]
    BY <1>5, <2>1, WrittenCells
  <2> QED
    BY <2>1, <2>2
<1> HIDE DEF g, w, s, t
<1>7. cells(o.heap, o.value) = t
  BY <1>1, <1>3, <1>4 DEF cells
<1>8. \A i \in 1 .. v.length : t[i] = s[i] /\ s[i] \in Elements
  BY <1>2, <1>5, <1>6, ElementOfSeq
<1>9. Content(o.heap, o.value)
  BY <1>1, <1>2, <1>3, <1>6, <1>7, <1>8 DEF Content, Filled
<1>10. as_slice(o.heap, o.value) = s
  <2>1. /\ as_slice(g, w) \in Seq(Elements) /\ Len(as_slice(g, w)) = v.length
        /\ \A i \in 1 .. v.length : as_slice(g, w)[i] = t[0 + i]
    BY <1>1, <1>3, <1>4, <1>7, <1>9, ContentRead
  <2>2. \A i \in 1 .. v.length : as_slice(g, w)[i] = s[i]
    BY <1>2, <1>8, <2>1
  <2> QED
    BY <1>1, <1>5, <2>1, <2>2, SeqEqual
<1> QED
  BY <1>1, <1>3, <1>4, <1>6, <1>7, <1>9, <1>10 DEF Reads, Private, s

LEMMA ReallocReads ==
  ASSUME NEW h \in Heap, NEW v \in Value, onHeap(v), h[v.address].rc = REFCOUNT_1,
         Content(h, v), v.start = 0, NEW n \in Nat, v.length <= n,
         NEW r \in roc_realloc(h, v.address, n),
         NEW w \in Value, w.address = r.address, w.start = 0, w.length = v.length, capacity(w) <= n,
         NEW o \in {[heap |-> r.heap, value |-> w]}
  PROVE  Reads(h, v, o) /\ onHeap(w) /\ Len(cells(r.heap, w)) = n
<1> DEFINE c == cells(h, v)
           d == cells(r.heap, w)
<1>1. v.address \in Addresses /\ h[v.address].live
  BY ValueIs, AllocationIs DEF Heap
<1>2. /\ r.heap \in Heap /\ r.address \in unused(h) \cup {v.address}
      /\ r.heap[r.address].live /\ r.heap[r.address].text = resized(h[v.address].text, n)
  BY <1>1, ReallocIs DEF SameCount
<1>3. onHeap(w)
  BY <1>1, <1>2, BuffersAssumption DEF onHeap, unused, BuffersAssumption
<1>4. c \in Seq(AnyCell) /\ d = resized(c, n)
  BY <1>1, <1>2, <1>3, CellsRead DEF cells
<1>5. /\ Len(d) = n /\ \A i \in 1 .. n : d[i] = IF i <= Len(c) THEN c[i] ELSE Uninit
  <2> HIDE DEF c, d
  <2> QED
    BY <1>4, ResizedCells
<1>6. v.length <= Len(c) /\ Len(c) \in Nat /\ v.length \in Nat
      /\ \A i \in 1 .. v.length : c[i] \in Elements
  <2>1. v.length \in Nat /\ \A i \in 1 .. v.length : 0 + i = i
    BY ValueIs
  <2>2. 0 + v.length <= Len(c) /\ \A i \in 1 .. v.length : c[0 + i] \in Elements
    BY DEF Content, Filled
  <2> QED
    BY <1>4, <2>1, <2>2, LenProperties
<1> HIDE DEF c, d
<1>7. \A i \in 1 .. v.length : d[i] = c[i]
  BY <1>5, <1>6
<1>8. Content(r.heap, w)
  <2>1. \A i \in 1 .. w.length : d[w.start + i] \in Elements
    BY <1>6, <1>7
  <2>2. capacity(w) \in Nat
    BY ValueIs
  <2>3. w.start + capacity(w) <= Len(d) /\ w.start + w.length <= Len(d)
    BY <1>5, <1>6, <2>2
  <2> QED
    BY <2>1, <2>3 DEF Content, Filled, d
<1>9. as_slice(r.heap, w) = as_slice(h, v)
  <2>1. /\ as_slice(r.heap, w) \in Seq(Elements) /\ Len(as_slice(r.heap, w)) = v.length
        /\ \A i \in 1 .. v.length : as_slice(r.heap, w)[i] = d[0 + i]
    BY <1>2, <1>3, <1>8, ContentRead DEF d
  <2>2. /\ as_slice(h, v) \in Seq(Elements) /\ Len(as_slice(h, v)) = v.length
        /\ \A i \in 1 .. v.length : as_slice(h, v)[i] = c[0 + i]
    BY ContentRead DEF c
  <2>3. \A i \in 1 .. v.length : as_slice(r.heap, w)[i] = as_slice(h, v)[i]
    BY <1>6, <1>7, <2>1, <2>2
  <2> QED
    BY <2>1, <2>2, <2>3, SeqEqual
<1> QED
  BY <1>3, <1>5, <1>8, <1>9 DEF Reads, Private, d

LEMMA AppendReads ==
  ASSUME NEW h \in Heap, NEW v \in Value, Content(h, v),
         NEW o \in Outcome, Reads(h, v, o), onHeap(o.value), Grounded(o.heap, o.value),
         NEW s \in Seq(Elements), Room(o.heap, o.value, Len(s)),
         onHeap(v) /\ o.value.address = v.address => h[v.address].rc = REFCOUNT_1,
         NEW p \in {append(o, s)}
  PROVE  ReadsMore(h, v, s, p)
<1> DEFINE u == o.value
           w == p.value
           c == cells(o.heap, u)
           d == cells(p.heap, w)
           at == u.start + u.length
<1>1. /\ o.heap \in Heap /\ u \in Value /\ u.start \in Nat /\ u.length \in Nat
      /\ u.address \in Addresses /\ capacity(u) \in Nat /\ u.slice \in BOOLEAN
  BY ValueIs DEF Outcome
<1>2. s \in Seq(AnyCell) /\ Len(s) \in Nat
  BY ElementsAreCells, LenProperties
<1>3. /\ p \in Outcome /\ p.heap \in Heap /\ w \in Value
      /\ w = [u EXCEPT !.length = @ + Len(s)]
      /\ w.address = u.address
      /\ SameCount(o.heap[u.address], p.heap[u.address])
      /\ p.heap[u.address].text = written(o.heap[u.address].text, at, s)
  BY AppendIs DEF Outcome
<1>4. /\ w.start = u.start /\ w.length = u.length + Len(s) /\ w.slice = u.slice
      /\ w.capacity = u.capacity
  <2>1. u \in Fields
    BY <1>1 DEF Value
  <2> HIDE DEF u, w
  <2> QED
    BY <1>3, <2>1 DEF Fields
<1>5. onHeap(w) /\ c \in Seq(AnyCell) /\ d = written(c, at, s)
  <2>1. onHeap(w)
    BY <1>3 DEF onHeap
  <2>2. o.heap[u.address].live /\ p.heap[w.address].live
    BY <1>3 DEF Grounded, SameCount
  <2> QED
    BY <1>1, <1>3, <2>1, <2>2, CellsRead DEF cells
<1>6. /\ u.start + capacity(u) <= Len(c) /\ at + Len(s) <= Len(c)
      /\ ~u.slice => u.start = 0
      /\ \A i \in 1 .. u.length : c[u.start + i] \in Elements
  BY DEF Reads, Content, Filled, Room
<1>c. capacity(w) = IF u.slice THEN u.length + Len(s) ELSE capacity(u)
  BY <1>4 DEF capacity
<1> HIDE DEF c, d, u, w
<1>7. /\ Len(d) = Len(c) /\ Len(c) \in Nat
      /\ \A i \in 1 .. Len(c) :
           d[i] = IF at < i /\ i <= at + Len(s) THEN s[i - at] ELSE c[i]
  <2>1. at \in Nat
    BY <1>1
  <2> HIDE DEF at
  <2>2. Len(c) \in Nat
    BY <1>5, LenProperties
  <2> QED
    BY <1>2, <1>5, <2>1, <2>2, WrittenCells
<1>8. ASSUME NEW i \in 1 .. w.length
      PROVE  d[w.start + i] = IF i <= u.length THEN c[u.start + i] ELSE s[i - u.length]
  <2> DEFINE k == u.start + i
  <2>0. w.length = u.length + Len(s) /\ w.start = u.start
    BY <1>4
  <2>1. /\ k \in 1 .. Len(c) /\ at + Len(s) <= Len(c)
        /\ (at < k /\ k <= at + Len(s)) <=> ~(i <= u.length)
        /\ k - at = i - u.length /\ w.start + i = k
    <3>1. i \in Nat /\ 1 <= i /\ i <= u.length + Len(s)
      BY <1>1, <1>2, <2>0
    <3>2. at + Len(s) <= Len(c) /\ Len(c) \in Nat
      BY <1>6, <1>7
    <3>3. u.start \in Nat /\ u.length \in Nat /\ Len(s) \in Nat
      BY <1>1, <1>2
    <3> HIDE DEF c, u
    <3>4. PICK x \in Nat, y \in Nat, z \in Nat, m \in Nat :
             x = u.start /\ y = u.length /\ z = Len(s) /\ m = Len(c)
      BY <3>2, <3>3
    <3>5. at = x + y /\ k = x + i /\ i <= y + z /\ x + y + z <= m
      BY <3>1, <3>2, <3>4
    <3> HIDE DEF k, at
    <3>6. /\ k \in 1 .. m
          /\ (at < k /\ k <= at + z) <=> ~(i <= y)
          /\ k - at = i - y
      BY <3>1, <3>5
    <3>7. w.start + i = k
      BY <2>0, <3>4, <3>5
    <3> QED
      BY <3>2, <3>4, <3>6, <3>7
  <2> HIDE DEF k, at
  <2> QED
    BY <1>7, <2>1 DEF k
<1>9. \A i \in 1 .. w.length : ~(i <= u.length) => i - u.length \in 1 .. Len(s)
  BY <1>1, <1>2, <1>4
<1>10. \A i \in 1 .. w.length : d[w.start + i] \in Elements
  <2> SUFFICES ASSUME NEW i \in 1 .. w.length PROVE d[w.start + i] \in Elements
    OBVIOUS
  <2>1. CASE i <= u.length
    BY <1>1, <1>4, <1>6, <1>8, <2>1, SMTT(30)
  <2>2. CASE ~(i <= u.length)
    BY <1>8, <1>9, <2>2, ElementOfSeq
  <2> QED
    BY <2>1, <2>2
<1>11. Content(p.heap, w)
  <2>1. w.start + capacity(w) <= Len(d) /\ w.start + w.length <= Len(d)
    BY <1>1, <1>2, <1>4, <1>6, <1>7, <1>c
  <2> QED
    BY <1>4, <1>6, <1>10, <2>1 DEF Content, Filled, d
<1>12. as_slice(p.heap, w) = as_slice(h, v) \o s
  <2> DEFINE old == as_slice(o.heap, u)
             all == as_slice(p.heap, w)
  <2>1. /\ old \in Seq(Elements) /\ Len(old) = u.length
        /\ \A i \in 1 .. u.length : old[i] = c[u.start + i]
    <3>1. Content(o.heap, u) /\ onHeap(u)
      BY DEF Reads, u
    <3> QED
      BY <1>1, <3>1, ContentRead DEF c
  <2>2. /\ all \in Seq(Elements) /\ Len(all) = w.length
        /\ \A i \in 1 .. w.length : all[i] = d[w.start + i]
    BY <1>3, <1>5, <1>11, ContentRead DEF d
  <2>3. as_slice(h, v) = old
    BY DEF Reads, u
  <2> HIDE DEF old, all
  <2>4. /\ old \o s \in Seq(Elements) /\ Len(old \o s) = u.length + Len(s)
        /\ \A i \in 1 .. u.length + Len(s) :
             (old \o s)[i] = IF i <= u.length THEN old[i] ELSE s[i - u.length]
    <3>1. /\ old \o s \in Seq(Elements) /\ Len(old \o s) = Len(old) + Len(s)
          /\ \A i \in 1 .. Len(old) + Len(s) :
               (old \o s)[i] = IF i <= Len(old) THEN old[i] ELSE s[i - Len(old)]
      BY <2>1, ConcatProperties
    <3>2. Len(old) = u.length
      BY <2>1
    <3> QED
      BY <3>1, <3>2
  <2>5. \A i \in 1 .. w.length : all[i] = (old \o s)[i]
    BY <1>1, <1>4, <1>8, <2>1, <2>2, <2>4
  <2>6. all = old \o s
    BY <1>4, <2>2, <2>4, <2>5, SeqEqual
  <2> QED
    BY <2>3, <2>6 DEF all
<1>13. Private(h, v, p)
  BY <1>3 DEF Private, w, u
<1> QED
  BY <1>11, <1>12, <1>13 DEF ReadsMore, w

LEMMA ListReserveReads ==
  ASSUME NEW h \in Heap, NEW v \in Value, Grounded(h, v), Content(h, v), v.type = "RocList",
         NEW n \in Nat,
         onHeap(v) /\ unique(h, v) /\ ~v.slice => v.length + n >= v.capacity,
         NEW o \in RocList_reserve(h, v, n)
  PROVE  /\ Reads(h, v, o) /\ Room(o.heap, o.value, n) /\ o.value.length = v.length
         /\ onHeap(v) /\ o.value.address = v.address => h[v.address].rc = REFCOUNT_1
<1> DEFINE new_len == n + v.length
<1>1. new_len \in Nat /\ v.length \in Nat /\ v.length <= new_len
  BY ValueIs
<1> HIDE DEF new_len
<1>2. CASE onHeap(v) /\ unique(h, v) /\ ~v.slice
  <2>1. PICK r \in roc_realloc(h, v.address, new_len) :
          o = [heap |-> r.heap,
               value |-> IF r.address = v.address THEN v
                         ELSE big("RocList", r.address, v.length, new_len)]
    BY <1>2 DEF RocList_reserve, new_len
  <2>2. v.address \in Addresses /\ h[v.address].rc = REFCOUNT_1 /\ h[v.address].live
    BY <1>2, UniqueIs
  <2>3. r.address \in Addresses
    BY <1>1, <2>2, ReallocIs DEF unused
  <2>4. v.start = 0 /\ capacity(v) = v.capacity /\ v.capacity <= new_len
    BY <1>1, <1>2, ValueIs DEF Content, Filled, capacity, new_len
  <2>5. /\ o.value \in Value /\ o.value.address = r.address /\ o.value.start = 0
        /\ o.value.length = v.length /\ capacity(o.value) <= new_len
    <3>1. CASE r.address = v.address
      <4>1. o.value = v
        BY <2>1, <3>1
      <4> QED
        BY <2>4, <3>1, <4>1
    <3>2. CASE r.address # v.address
      <4>1. o.value = big("RocList", r.address, v.length, new_len)
        BY <2>1, <3>2
      <4>2. new_len <= new_len
        BY <1>1
      <4> QED
        BY <1>1, <2>3, <4>1, <4>2, BigIs
    <3> QED
      BY <3>1, <3>2
  <2>6. o = [heap |-> r.heap, value |-> o.value] /\ o.heap = r.heap
    BY <2>1
  <2>7. Reads(h, v, o) /\ Len(cells(o.heap, o.value)) = new_len
    <3>1. /\ Reads(h, v, [heap |-> r.heap, value |-> o.value])
          /\ Len(cells(r.heap, o.value)) = new_len
      BY <1>1, <1>2, <2>2, <2>4, <2>5, ReallocReads
    <3> QED
      BY <2>6, <3>1
  <2> QED
    BY <1>1, <2>2, <2>5, <2>7 DEF Room, new_len
<1>3. CASE ~(onHeap(v) /\ unique(h, v) /\ ~v.slice)
  <2>1. PICK address \in unused(h) :
          o = [heap |-> copied(h, v, address, REFCOUNT_1, new_len),
               value |-> big("RocList", address, v.length, new_len)]
    BY <1>3 DEF RocList_reserve, new_len
  <2>2. REFCOUNT_1 \in Int
    BY FreeIs, AllocationIs
  <2>3. o \in {[heap |-> copied(h, v, address, REFCOUNT_1, new_len),
                value |-> big(v.type, address, v.length, new_len)]}
    BY <2>1
  <2>4. /\ Reads(h, v, o)
        /\ onHeap(v) => o.value.address # v.address
        /\ o.value.start = 0 /\ o.value.length = v.length
        /\ Len(cells(o.heap, o.value)) = new_len
    BY <1>1, <2>2, <2>3, CopiedReads
  <2> QED
    BY <1>1, <2>4 DEF Room, new_len
<1> QED
  BY <1>2, <1>3

LEMMA StrReserveReads ==
  ASSUME NEW h \in Heap, NEW v \in Value, Grounded(h, v), Content(h, v), v.type = "RocStr",
         NEW n \in Nat, NEW o \in RocStr_reserve(h, v, n)
  PROVE  Reads(h, v, o)
<1> DEFINE desired_cap == v.length + n
<1>1. desired_cap \in Nat /\ v.length \in Nat /\ v.length <= desired_cap
  BY ValueIs
<1> HIDE DEF desired_cap
<1>2. CASE o \in same(h, v)
  <2>1. o.heap = h /\ o.value = v
    BY <1>2, SameEffect
  <2> QED
    BY <2>1 DEF Reads, Private
<1>3. CASE onHeap(v) /\ unique(h, v) /\ ~v.slice /\ o \notin same(h, v)
  <2>1. PICK r \in roc_realloc(h, v.address, desired_cap) :
          o = [heap |-> r.heap, value |-> big("RocStr", r.address, v.length, desired_cap)]
    BY <1>3 DEF RocStr_reserve, BigString_reserve, desired_cap
  <2>2. v.address \in Addresses /\ h[v.address].rc = REFCOUNT_1 /\ h[v.address].live
    BY <1>3, UniqueIs
  <2>3. r.address \in Addresses
    BY <1>1, <2>2, ReallocIs DEF unused
  <2>4. v.start = 0 /\ desired_cap <= desired_cap
    BY <1>1, <1>3 DEF Content, Filled
  <2> DEFINE w == big("RocStr", r.address, v.length, desired_cap)
  <2>5. /\ w \in Value /\ w.address = r.address /\ w.start = 0
        /\ w.length = v.length /\ capacity(w) = desired_cap
    BY <1>1, <2>3, BigIs
  <2> HIDE DEF w
  <2>6. Reads(h, v, [heap |-> r.heap, value |-> w])
    BY <1>1, <1>3, <2>2, <2>4, <2>5, ReallocReads
  <2> QED
    BY <2>1, <2>6 DEF w
<1>4. CASE ~(onHeap(v) /\ unique(h, v) /\ ~v.slice) /\ o \notin same(h, v)
  <2>1. PICK address \in unused(h), rc \in UninitCounts :
          o = [heap |-> copied(h, v, address, rc, desired_cap),
               value |-> big("RocStr", address, v.length, desired_cap)]
    BY <1>4 DEF RocStr_reserve, BigString_reserve, desired_cap
  <2>2. rc \in Int
    BY BuffersAssumption DEF BuffersAssumption
  <2>3. o \in {[heap |-> copied(h, v, address, rc, desired_cap),
                value |-> big(v.type, address, v.length, desired_cap)]}
    BY <2>1
  <2> QED
    BY <1>1, <2>2, <2>3, CopiedReads
<1> QED
  BY <1>2, <1>3, <1>4

LEMMA PushReads ==
  ASSUME NEW h \in Heap, NEW v \in Value, Grounded(h, v), Content(h, v), v.type = "RocList",
         capacity(v) > v.length => unique(h, v),
         NEW e \in Elements, NEW p \in RocList_push(h, v, e)
  PROVE  ReadsMore(h, v, <<e>>, p)
<1>1. PICK o \in (IF capacity(v) <= v.length THEN RocList_reserve(h, v, 1) ELSE same(h, v)) :
        p = append(o, <<e>>)
  BY DEF RocList_push
<1>2. v.length \in Nat /\ capacity(v) \in Nat /\ v.capacity \in Nat /\ v.start \in Nat
  BY ValueIs
<1>3. /\ o \in Outcome /\ Effect(h, v, o) /\ onHeap(o.value)
      /\ Reads(h, v, o) /\ Room(o.heap, o.value, 1)
      /\ onHeap(v) /\ o.value.address = v.address => h[v.address].rc = REFCOUNT_1
  <2>1. CASE capacity(v) <= v.length
    <3>1. o \in RocList_reserve(h, v, 1)
      BY <1>1, <2>1
    <3>2. ~v.slice => v.length + 1 >= v.capacity
      BY <1>2, <2>1 DEF capacity
    <3> QED
      BY <3>1, <3>2, ListReserveEffect, ListReserveReads
  <2>2. CASE ~(capacity(v) <= v.length)
    <3>1. o \in same(h, v) /\ capacity(v) > v.length
      BY <1>1, <1>2, <2>2
    <3>2. onHeap(v)
      BY <1>2, <3>1, EmptyListIs, ValueIs
    <3>3. o.heap = h /\ o.value = v /\ o \in Outcome /\ Effect(h, v, o)
      BY <3>1, SameEffect
    <3>4. Len(cells(h, v)) \in Nat
      BY <3>2, CellsRead, LenProperties
    <3>5. Room(h, v, 1)
      BY <1>2, <3>1, <3>2, <3>4 DEF Content, Filled, Room
    <3>6. h[v.address].rc = REFCOUNT_1
      BY <3>1, <3>2, UniqueIs
    <3> QED
      BY <3>2, <3>3, <3>5, <3>6 DEF Reads, Private
  <2> QED
    BY <2>1, <2>2
<1>4. <<e>> \in Seq(Elements) /\ Len(<<e>>) = 1 /\ Grounded(o.heap, o.value)
  BY <1>3, EffectGrounded
<1>5. Room(o.heap, o.value, Len(<<e>>))
  BY <1>3, <1>4

<1> QED
  BY <1>1, <1>3, <1>4, <1>5, AppendReads

LEMMA ExtendedReads ==
  ASSUME NEW h \in Heap, NEW v \in Value, Grounded(h, v), Content(h, v), v.type = "RocList",
         onHeap(v) => unique(h, v) /\ v.start = 0,
         NEW n \in Nat, NEW o \in extended(h, v, n)
  PROVE  /\ Reads(h, v, o) /\ Room(o.heap, o.value, n)
         /\ onHeap(v) /\ o.value.address = v.address => h[v.address].rc = REFCOUNT_1
<1> DEFINE total == v.length + n
<1>1. v.length \in Nat /\ total \in Nat /\ capacity(v) \in Nat /\ v.length <= total /\ total <= total
  BY ValueIs
<1>2. onHeap(v) => /\ v.address \in Addresses /\ h[v.address].rc = REFCOUNT_1 /\ h[v.address].live
                   /\ cells(h, v) \in Seq(AnyCell) /\ Len(cells(h, v)) \in Nat
  BY UniqueIs, CellsRead, LenProperties
<1>3. CASE onHeap(v) /\ capacity(v) >= total
  <2>0. ~(capacity(v) < total)
    BY <1>1, <1>3
  <2>1. o \in same(h, v)
    BY <1>3, <2>0, Zenon DEF extended
  <2>2. o.heap = h /\ o.value = v
    BY <2>1, SameEffect
  <2>3. Room(h, v, n)
    <3>1. v.start = 0 /\ v.start + capacity(v) <= Len(cells(h, v))
      BY <1>3 DEF Content, Filled
    <3> QED
      BY <1>1, <1>2, <1>3, <3>1 DEF Room
  <2> QED
    BY <1>2, <1>3, <2>2, <2>3 DEF Reads, Private
<1>4. CASE onHeap(v) /\ ~(capacity(v) >= total)
  <2>1. capacity(v) < total
    BY <1>1, <1>4
  <2>2. o \in {[heap |-> r.heap, value |-> big("RocList", r.address, v.length, total)] :
                 r \in roc_realloc(h, v.address, total)}
    BY <1>4, <2>1, Zenon DEF extended
  <2>3. PICK r \in roc_realloc(h, v.address, total) :
          o = [heap |-> r.heap, value |-> big("RocList", r.address, v.length, total)]
    BY <2>2
  <2> DEFINE w == big("RocList", r.address, v.length, total)
  <2>4. /\ w \in Value /\ w.address = r.address /\ w.start = 0 /\ w.length = v.length
        /\ capacity(w) <= total
    <3>1. r.address \in Addresses
      BY <1>1, <1>2, <1>4, ReallocIs DEF unused
    <3> QED
      BY <1>1, <3>1, BigIs
  <2> HIDE DEF w, total
  <2>5. /\ Reads(h, v, [heap |-> r.heap, value |-> w]) /\ Len(cells(r.heap, w)) = total
    BY <1>1, <1>2, <1>4, <2>4, ReallocReads
  <2>6. o = [heap |-> r.heap, value |-> w] /\ o.heap = r.heap /\ o.value = w
    BY <2>3 DEF w
  <2> QED
    BY <1>1, <1>2, <1>4, <2>4, <2>5, <2>6 DEF Room, total
<1>5. CASE ~onHeap(v)
  <2>1. v.length = 0
    BY <1>5, ValueIs, EmptyListIs
  <2>2. o \in {[heap |-> copied(h, v, address, REFCOUNT_1, n),
                value |-> big("RocList", address, v.length, n)] : address \in unused(h)}
    BY <1>5, Zenon DEF extended
  <2>3. PICK address \in unused(h) :
          o = [heap |-> copied(h, v, address, REFCOUNT_1, n),
               value |-> big("RocList", address, v.length, n)]
    BY <2>2
  <2>4. o \in {[heap |-> copied(h, v, address, REFCOUNT_1, n),
                value |-> big(v.type, address, v.length, n)]}
    BY <2>3
  <2>5. REFCOUNT_1 \in Int /\ v.length <= n
    BY <2>1, FreeIs, AllocationIs
  <2>6. /\ Reads(h, v, o) /\ o.value.start = 0 /\ o.value.length = v.length
        /\ Len(cells(o.heap, o.value)) = n
    BY <2>4, <2>5, CopiedReads
  <2> QED
    BY <1>5, <2>1, <2>6 DEF Room
<1> QED
  BY <1>3, <1>4, <1>5

LEMMA ExtendReads ==
  ASSUME NEW h \in Heap, NEW v \in Value, Grounded(h, v), Content(h, v), v.type = "RocList",
         onHeap(v) => unique(h, v) /\ v.start = 0,
         NEW s \in Seq(Elements), NEW p \in extend_from_slice(h, v, s)
  PROVE  ReadsMore(h, v, s, p)
<1>1. CASE s = <<>>
  <2>1. p.heap = h /\ p.value = v
    BY <1>1, SameEffect DEF extend_from_slice
  <2>2. as_slice(h, v) \o <<>> = as_slice(h, v)
    BY ContentRead, ConcatEmptySeq
  <2> QED
    BY <1>1, <2>1, <2>2 DEF ReadsMore, Private
<1>2. CASE s # <<>>
  <2>1. PICK o \in extended(h, v, Len(s)) : p = append(o, s)
    BY <1>2 DEF extend_from_slice
  <2>2. Len(s) \in Nat
    BY LenProperties
  <2>3. o \in Outcome /\ onHeap(o.value) /\ Grounded(o.heap, o.value)
    BY <2>2, ExtendedEffect, EffectGrounded
  <2>4. /\ Reads(h, v, o) /\ Room(o.heap, o.value, Len(s))
        /\ onHeap(v) /\ o.value.address = v.address => h[v.address].rc = REFCOUNT_1
    BY <2>2, ExtendedReads
  <2> QED
    BY <2>1, <2>3, <2>4, AppendReads
<1> QED
  BY <1>1, <1>2

(* Elements of an iterator that keeps its promise.                         *)
LEMMA CollectedReads ==
  ASSUME NEW h \in Heap, NEW s \in Seq(Elements), NEW hint \in Nat, Len(s) <= hint,
         NEW o \in collected(h, s, hint)
  PROVE  Content(o.heap, o.value) /\ as_slice(o.heap, o.value) = s
<1> DEFINE Read(n, p) ==
             /\ Fresh(h, p) /\ Content(p.heap, p.value)
             /\ as_slice(p.heap, p.value) = SubSeq(s, 1, n)
             /\ p.value.length = n /\ ~p.value.slice /\ p.value.capacity = hint
<1>1. PICK list : /\ collected(h, s, hint) = list[Len(s)]
                  /\ list[0] = RocList_reserve(h, emptyList, hint)
                  /\ \A i \in 1 .. Len(s) : list[i] = yielded(list[i - 1], s[i])
  BY CollectedIs
<1>2. Len(s) \in Nat
  BY LenProperties
<1>3. ASSUME NEW p \in list[0]
      PROVE  Read(0, p)
  <2>1. PICK address \in unused(h) :
          p = [heap |-> copied(h, emptyList, address, REFCOUNT_1, hint),
               value |-> big("RocList", address, 0, hint)]
    <3>1. hint + 0 = hint
      OBVIOUS
    <3> QED
      BY <1>1, <1>3, <3>1, EmptyListIs DEF RocList_reserve
  <2>2. /\ p.value.length = 0 /\ ~p.value.slice /\ p.value.capacity = hint
    <3>1. p.value = big("RocList", address, 0, hint)
      BY <2>1
    <3> QED
      BY <3>1 DEF big
  <2>3. Grounded(h, emptyList) /\ Content(h, emptyList) /\ emptyList \in Value
    BY EmptyListIs DEF Grounded, Content
  <2>4. Reads(h, emptyList, p)
    <3>1. REFCOUNT_1 \in Int /\ emptyList.length <= hint
      BY FreeIs, AllocationIs, EmptyListIs
    <3>2. p \in {[heap |-> copied(h, emptyList, address, REFCOUNT_1, hint),
                  value |-> big(emptyList.type, address, emptyList.length, hint)]}
      BY <2>1, EmptyListIs
    <3> QED
      BY <2>3, <3>1, <3>2, CopiedReads
  <2>5. as_slice(h, emptyList) = SubSeq(s, 1, 0)
    BY EmptyListIs, SubSeqEmpty DEF as_slice
  <2>6. Fresh(h, p)
    BY <1>1, EmptyReserve
  <2> QED
    BY <2>2, <2>4, <2>5, <2>6 DEF Reads
<1>4. ASSUME NEW n \in 1 .. Len(s), \A p \in list[n - 1] : Read(n - 1, p), NEW q \in list[n]
      PROVE  Read(n, q)
  <2> DEFINE e == s[n]
  <2>1. list[n] = yielded(list[n - 1], e) /\ e \in Elements
    BY <1>1, ElementOfSeq
  <2> HIDE DEF e
  <2>2. PICK p \in list[n - 1] :
          \E u \in (IF p.value.length = capacity(p.value)
                    THEN RocList_reserve(p.heap, p.value, capacity(p.value) \div 2) ELSE {p}) :
            q = append(u, <<e>>)
    BY <1>4, <2>1 DEF yielded
  <2>3. Read(n - 1, p)
    BY <1>4
  <2>4. /\ p \in Outcome /\ p.heap \in Heap /\ p.value \in Value /\ Grounded(p.heap, p.value)
        /\ p.value.type = "RocList" /\ onHeap(p.value) /\ p.value.address \in Addresses
        /\ p.heap[p.value.address].rc = REFCOUNT_1
    BY <2>3, BuffersAssumption DEF Fresh, Outcome, Grounded, onHeap, unused, BuffersAssumption
  <2>5. capacity(p.value) = hint /\ p.value.length = n - 1 /\ ~(n - 1 = hint) /\ n <= hint
    BY <1>2, <2>3 DEF capacity
  <2>6. q = append(p, <<e>>)
    BY <2>2, <2>5
  <2>7. Content(p.heap, p.value) /\ Reads(p.heap, p.value, p)
    BY <2>3 DEF Reads, Private
  <2>8. <<e>> \in Seq(Elements) /\ Len(<<e>>) = 1
    BY <2>1
  <2>9. Room(p.heap, p.value, Len(<<e>>))
    <3>1. /\ p.value.start = 0 /\ p.value.start + capacity(p.value) <= Len(cells(p.heap, p.value))
          /\ Len(cells(p.heap, p.value)) \in Nat
      BY <2>3, <2>4, CellsRead, LenProperties DEF Content, Filled
    <3> QED
      BY <2>5, <2>8, <3>1 DEF Room
  <2>10. ReadsMore(p.heap, p.value, <<e>>, q)
    BY <2>4, <2>6, <2>7, <2>8, <2>9, AppendReads
  <2>11. as_slice(q.heap, q.value) = SubSeq(s, 1, n)
    <3>1. SubSeq(s, 1, n) = SubSeq(s, 1, n - 1) \o <<s[n]>>
      <4>1. 1 \in 1 .. Len(s) /\ n \in 1 .. Len(s)
        BY <1>2
      <4> QED
        BY <4>1, SubSeqRecursiveSecond
    <3> QED
      BY <2>3, <2>10, <3>1 DEF ReadsMore, e
  <2>12. Fresh(h, q)
    BY <1>4, <2>1, YieldedFresh
  <2>13. q.value.length = n /\ ~q.value.slice /\ q.value.capacity = hint
    <3>1. q.value = [p.value EXCEPT !.length = @ + Len(<<e>>)]
      BY <2>4, <2>6, <2>8, AppendIs
    <3>2. p.value \in Fields
      BY <2>4 DEF Value
    <3>3. p.value.length + Len(<<e>>) = n
      BY <2>5, <2>8
    <3>4. q.value = [p.value EXCEPT !.length = n]
      BY <3>1, <3>3
    <3> QED
      BY <2>3, <3>2, <3>4 DEF Fields
  <2> QED
    BY <2>10, <2>11, <2>12, <2>13 DEF ReadsMore
<1> DEFINE Bad == {n \in Nat : n <= Len(s) /\ \E p \in list[n] : ~Read(n, p)}
<1> HIDE DEF Read
<1>5. Bad = {}
  <2> SUFFICES ASSUME Bad # {} PROVE FALSE
    OBVIOUS
  <2>1. PICK n \in Bad : \A k \in Bad : n <= k
    BY NatMinExists
  <2>2. n \in Nat /\ n <= Len(s) /\ \E p \in list[n] : ~Read(n, p)
    BY <2>1
  <2>3. n # 0
    BY <1>3, <2>2
  <2>4. n - 1 \in Nat /\ n - 1 <= Len(s) /\ ~(n <= n - 1) /\ n \in 1 .. Len(s)
    BY <1>2, <2>2, <2>3
  <2>5. \A p \in list[n - 1] : Read(n - 1, p)
    BY <2>1, <2>4
  <2>6. \A p \in list[n] : Read(n, p)
    BY <1>4, <2>4, <2>5
  <2> QED
    BY <2>2, <2>6
<1>6. Read(Len(s), o)
  BY <1>1, <1>2, <1>5
<1> QED
  BY <1>6, SubSeqFull DEF Read
-----------------------------------------------------------------------------
(* What the variables read.                                                *)

ContentInv(h, own) == \A x \in Variables : own[x] # NoValue => Content(h, own[x])

reading(h, own) ==
  [x \in Variables |-> IF own[x] = NoValue THEN Nothing ELSE as_slice(h, own[x])]

(* What stands in an allocation that is not freed.                         *)
TextKept(h, g, a) == g[a].live => g[a].text = h[a].text

LEMMA DroppedText ==
  ASSUME NEW h \in Heap, NEW v \in Value, NEW a \in Addresses
  PROVE  TextKept(h, dropped(h, v), a)
<1>1. h[a] \in Allocation
  BY DEF Heap
<1>2. dropped(h, v)[a] = h[a] \/ dropped(h, v)[a] = lessOne(h[a])
  BY DroppedIs
<1>3. lessOne(h[a]).live => lessOne(h[a]).text = h[a].text
  <2>1. CASE h[a].rc = REFCOUNT_1
    BY <2>1, FreeIs DEF lessOne
  <2>2. CASE h[a] = free
    BY <2>2, FreeIs DEF lessOne
  <2>3. CASE h[a].rc # REFCOUNT_1 /\ h[a] # free
    <3>1. h[a] \in [live : {TRUE}, rc : Int, text : Seq(AnyCell)]
      BY <1>1, <2>3 DEF Allocation
    <3> QED
      BY <2>3, <3>1 DEF lessOne
  <2> QED
    BY <2>1, <2>2, <2>3
<1> QED
  BY <1>2, <1>3 DEF TextKept

LEMMA ClonedText ==
  ASSUME NEW h \in Heap, NEW v \in Value, Grounded(h, v), NEW a \in Addresses
  PROVE  TextKept(h, clone(h, v), a)
<1>1. CASE ~onHeap(v)
  BY <1>1 DEF clone, TextKept
<1>2. CASE onHeap(v)
  <2> DEFINE b == h[v.address]
  <2>1. /\ v.address \in Addresses /\ v.type \in {"RocList", "RocStr"}
        /\ b \in [live : {TRUE}, rc : Int, text : Seq(AnyCell)]
    BY <1>2, ValueIs, FreeIs DEF Grounded, Heap, Allocation
  <2>2. RocList_clone(b).text = b.text /\ BigString_clone(b).text = b.text
    BY <2>1 DEF RocList_clone, BigString_clone
  <2>3. clone(h, v) \in {[h EXCEPT ![v.address] = RocList_clone(b)],
                         [h EXCEPT ![v.address] = BigString_clone(b)]}
    BY <1>2, <2>1 DEF clone
  <2> QED
    BY <2>1, <2>2, <2>3 DEF TextKept, Heap
<1> QED
  BY <1>1, <1>2

(* A variable that keeps its value, while its allocation keeps its text.   *)
LEMMA KeptRead ==
  ASSUME NEW h, NEW own, CountInv(h, own), NEW g, NEW new, CountInv(g, new),
         NEW z \in Variables, own[z] # NoValue, Content(h, own[z]),
         NEW y \in Variables, new[y] # NoValue, new[y].address = own[z].address,
         onHeap(own[z]) => TextKept(h, g, own[z].address)
  PROVE  onHeap(own[z]) => cells(g, new[y]) = cells(h, own[z])
<1> SUFFICES ASSUME onHeap(own[z]) PROVE cells(g, new[y]) = cells(h, own[z])
  OBVIOUS
<1>1. onHeap(new[y])
  BY DEF onHeap
<1>2. h[own[z].address].live /\ g[new[y].address].live
  BY <1>1, OwnedIs
<1> QED
  BY <1>2 DEF TextKept, cells

LEMMA SameRead ==
  ASSUME NEW h, NEW own, CountInv(h, own), NEW g, NEW new, CountInv(g, new),
         NEW z \in Variables, own[z] # NoValue, Content(h, own[z]),
         new[z] = own[z], onHeap(own[z]) => TextKept(h, g, own[z].address)
  PROVE  Content(g, new[z]) /\ as_slice(g, new[z]) = as_slice(h, own[z])
<1>1. onHeap(own[z]) => cells(g, new[z]) = cells(h, own[z])
  BY KeptRead
<1> QED
  BY <1>1 DEF Content, as_slice

(* What others share is not written to.                                    *)
LEMMA OthersText ==
  ASSUME NEW h, NEW own, CountInv(h, own), NEW x \in Variables, NEW v \in Value,
         own[x] = v \/ (own[x] = NoValue /\ ~onHeap(v)),
         NEW o \in Outcome, Effect(h, v, o), Private(h, v, o),
         NEW z \in Variables \ {x}, own[z] # NoValue, onHeap(own[z])
  PROVE  TextKept(h, o.heap, own[z].address)
<1> DEFINE a == own[z].address
<1>1. /\ a \in Addresses /\ z \in refsIn(own, a) /\ h[a] \in Allocation /\ h[a].live
      /\ h \in Heap
  BY OwnedIs DEF CountInv
<1>2. CASE a # v.address
  <2>1. a # o.value.address
    BY <1>1, <1>2 DEF Effect, Stays, Moves, Leaves, unused
  <2> QED
    BY <1>1, <1>2, <2>1 DEF Effect, TextKept
<1>3. CASE a = v.address
  <2>1. onHeap(v) /\ own[x] = v /\ x \in refsIn(own, a)
    BY <1>1, <1>3, OwnedIs, ValueIs DEF onHeap, refsIn
  <2>2. h[a].rc # REFCOUNT_1
    <3>1. Counted(h[a], refsIn(own, a)) /\ IsFiniteSet(refsIn(own, a))
      BY <1>1, RefsFinite DEF CountInv
    <3>2. h[a].rc = REFCOUNT_1 => refsIn(own, a) = {x}
      BY <1>1, <2>1, <3>1, AloneCount
    <3> QED
      BY <1>1, <3>2
  <2>3. CASE Stays(h, v, o)
    BY <1>3, <2>1, <2>2, <2>3 DEF Stays, Private, TextKept
  <2>4. CASE Leaves(h, v, o)
    <3>1. o.heap[a] = dropped(h, v)[a]
      BY <1>3, <2>1, <2>4 DEF Leaves
    <3> QED
      BY <1>1, <3>1, DroppedText DEF TextKept
  <2> QED
    BY <1>3, <2>2, <2>3, <2>4 DEF Effect, Moves
<1> QED
  BY <1>2, <1>3

(* Whatever the outcome, the sequence text is read.                        *)
AllRead(v, text, outcomes) ==
  \A o \in outcomes :
    /\ o \in Outcome /\ Effect(heap, v, o) /\ Private(heap, v, o)
    /\ Content(o.heap, o.value) /\ as_slice(o.heap, o.value) = text

LEMMA BecomesReads ==
  ASSUME CountInv(heap, owned), ContentInv(heap, owned), NEW x \in Variables, NEW v \in Value,
         owned[x] = v \/ (owned[x] = NoValue /\ ~onHeap(v)),
         NEW text, NEW outcomes, AllRead(v, text, outcomes), becomes(x, outcomes)
  PROVE  /\ ContentInv(heap', owned')
         /\ reading(heap', owned') = [reading(heap, owned) EXCEPT ![x] = text]
<1>1. PICK o \in outcomes : heap' = o.heap /\ owned' = [owned EXCEPT ![x] = o.value]
  BY DEF becomes
<1>2. /\ o \in Outcome /\ Effect(heap, v, o) /\ Private(heap, v, o)
      /\ Content(o.heap, o.value) /\ as_slice(o.heap, o.value) = text
  BY <1>1 DEF AllRead
<1>3. CountInv(o.heap, owned')
  BY <1>1, <1>2, GrowKeeps
<1>4. /\ owned' \in [Variables -> Value \cup {NoValue}] /\ owned'[x] = o.value
      /\ o.value # NoValue
      /\ \A z \in Variables \ {x} : owned'[z] = owned[z]
  BY <1>1, <1>2, ValueIs DEF CountInv, Outcome
<1>5. ASSUME NEW z \in Variables \ {x}, owned[z] # NoValue
      PROVE  Content(o.heap, owned'[z]) /\ as_slice(o.heap, owned'[z]) = as_slice(heap, owned[z])
  <2>1. onHeap(owned[z]) => TextKept(heap, o.heap, owned[z].address)
    BY <1>2, <1>5, OthersText
  <2>2. Content(heap, owned[z]) /\ owned'[z] = owned[z]
    BY <1>4, <1>5 DEF ContentInv
  <2> QED
    BY <1>3, <1>5, <2>1, <2>2, SameRead
<1>6. ContentInv(o.heap, owned')
  BY <1>2, <1>4, <1>5 DEF ContentInv
<1>7. reading(o.heap, owned') = [reading(heap, owned) EXCEPT ![x] = text]
  BY <1>2, <1>4, <1>5 DEF reading
<1> QED
  BY <1>1, <1>6, <1>7

(* The host uses every function where the library is right.                *)
UsedWell == {"push", "extend", "reserve", "from_iter"} \subseteq Careful

read == reading(heap, owned)

ReadInv == CountInv(heap, owned) /\ ContentInv(heap, owned)

LEMMA ReadIs ==
  ASSUME ReadInv, NEW x \in Variables
  PROVE  /\ owned[x] = NoValue => read[x] = Nothing
         /\ owned[x] # NoValue =>
              /\ read[x] = as_slice(heap, owned[x]) /\ read[x] # Nothing
              /\ read[x] \in Seq(Elements) /\ Len(read[x]) = owned[x].length
<1>1. owned[x] = NoValue => read[x] = Nothing
  BY DEF read, reading
<1>2. ASSUME owned[x] # NoValue
      PROVE  /\ read[x] = as_slice(heap, owned[x])
             /\ read[x] \in Seq(Elements) /\ Len(read[x]) = owned[x].length
  <2>1. heap \in Heap /\ owned[x] \in Value /\ Content(heap, owned[x])
    BY <1>2, OwnedIs DEF ReadInv, CountInv, ContentInv
  <2> QED
    BY <1>2, <2>1, ContentRead DEF read, reading
<1> QED
  BY <1>1, <1>2, BuffersAssumption DEF BuffersAssumption

LEMMA ShortTexts ==
  /\ <<>> \in Texts
  /\ \A e \in Elements : 1 <= MaxLength => <<e>> \in Texts
<1>1. <<>> \in [1 .. 0 -> Elements] /\ 0 \in 0 .. MaxLength
  BY BuffersAssumption DEF BuffersAssumption
<1>2. ASSUME NEW e \in Elements, 1 <= MaxLength
      PROVE  <<e>> \in [1 .. 1 -> Elements] /\ 1 \in 0 .. MaxLength
  BY <1>2, BuffersAssumption DEF BuffersAssumption
<1> QED
  BY <1>1, <1>2 DEF Texts

LEMMA MakeReads ==
  ASSUME UsedWell, ReadInv, NEW x \in Variables, Make(x)
  PROVE  /\ ContentInv(heap', owned') /\ owned[x] = NoValue
         /\ \E text \in Texts : reading(heap', owned') = [read EXCEPT ![x] = text]
<1> DEFINE Goal == /\ ContentInv(heap', owned') /\ owned[x] = NoValue
                   /\ \E text \in Texts : reading(heap', owned') = [read EXCEPT ![x] = text]
<1>1. /\ CountInv(heap, owned) /\ ContentInv(heap, owned) /\ heap \in Heap
      /\ Grounded(heap, emptyList) /\ Content(heap, emptyList)
      /\ emptyList \in Value /\ emptyList.type = "RocList" /\ ~onHeap(emptyList)
      /\ as_slice(heap, emptyList) = <<>>
  BY EmptyListIs DEF ReadInv, CountInv, Grounded, Content, as_slice
<1>2. ASSUME NEW v \in Value, ~onHeap(v), NEW text \in Texts, NEW outcomes,
             owned[x] = NoValue, becomes(x, outcomes),
             \A o \in outcomes :
               /\ o \in Outcome /\ Effect(heap, v, o)
               /\ Content(o.heap, o.value) /\ as_slice(o.heap, o.value) = text
      PROVE  Goal
  <2>1. AllRead(v, text, outcomes)
    BY <1>2 DEF AllRead, Private
  <2>2. /\ ContentInv(heap', owned')
        /\ reading(heap', owned') = [reading(heap, owned) EXCEPT ![x] = text]
    BY <1>1, <1>2, <2>1, BecomesReads
  <2> QED
    BY <1>2, <2>2 DEF read
<1>3. ASSUME NEW s \in Seq(Elements), NEW p \in extend_from_slice(heap, emptyList, s)
      PROVE  /\ p \in Outcome /\ Effect(heap, emptyList, p)
             /\ Content(p.heap, p.value) /\ as_slice(p.heap, p.value) = s
  <2>1. ReadsMore(heap, emptyList, s, p)
    BY <1>1, ExtendReads
  <2>2. <<>> \o s = s
    BY ConcatEmptySeq
  <2> QED
    BY <1>1, <2>1, <2>2, ExtendEffect DEF ReadsMore
<1>4. ASSUME NEW s \in Texts, RocList_from_slice(x, s)
      PROVE  Goal
  BY <1>1, <1>2, <1>3, <1>4, TextsAre DEF RocList_from_slice, makes
<1>5. ASSUME NEW s \in Texts, RocStr_from(x, s)
      PROVE  Goal
  <2> DEFINE str(o) == [o EXCEPT !.value.type = "RocStr"]
             made   == {str(o) : o \in extend_from_slice(heap, emptyList, s)}
  <2>1. s \in Seq(Elements) /\ owned[x] = NoValue
    BY <1>5, TextsAre DEF RocStr_from, makes
  <2>2. CASE Len(s) <= SmallCapacity
    <3>1. becomes(x, same(heap, small(s)))
      BY <1>5, <2>2 DEF RocStr_from, makes
    <3>2. small(s) \in Value /\ ~onHeap(small(s)) /\ small(s).text = s
      BY <2>1, SmallIs
    <3>3. Content(heap, small(s)) /\ as_slice(heap, small(s)) = s
      BY <3>2 DEF Content, as_slice
    <3>4. \A o \in same(heap, small(s)) :
            /\ o \in Outcome /\ Effect(heap, small(s), o)
            /\ Content(o.heap, o.value) /\ as_slice(o.heap, o.value) = s
      BY <1>1, <3>2, <3>3, SameEffect
    <3> QED
      BY <1>2, <2>1, <3>1, <3>2, <3>4
  <2>3. CASE ~(Len(s) <= SmallCapacity)
    <3>1. becomes(x, made)
      BY <1>5, <2>3 DEF RocStr_from, makes
    <3>2. ASSUME NEW o \in extend_from_slice(heap, emptyList, s)
          PROVE  /\ str(o) \in Outcome /\ Effect(heap, emptyList, str(o))
                 /\ Content(str(o).heap, str(o).value) /\ as_slice(str(o).heap, str(o).value) = s
      <4>1. /\ str(o) \in Outcome /\ Effect(heap, emptyList, str(o))
            /\ str(o).heap = o.heap /\ str(o).value = [o.value EXCEPT !.type = "RocStr"]
            /\ o.value \in Fields
        BY <1>1, <2>1, <2>3, StrMade
      <4>2. LET w == str(o).value
            IN  /\ w.address = o.value.address /\ w.start = o.value.start /\ w.text = o.value.text
                /\ w.length = o.value.length /\ w.slice = o.value.slice
                /\ w.capacity = o.value.capacity
        BY <4>1 DEF Fields
      <4>3. Content(o.heap, o.value) /\ as_slice(o.heap, o.value) = s
        BY <1>3, <2>1
      <4> HIDE DEF str
      <4>4. onHeap(str(o).value) = onHeap(o.value)
            /\ capacity(str(o).value) = capacity(o.value)
            /\ cells(o.heap, str(o).value) = cells(o.heap, o.value)
        BY <4>2 DEF onHeap, capacity, cells
      <4>5. Content(o.heap, str(o).value)
        BY <4>2, <4>3, <4>4 DEF Content, Filled
      <4>6. as_slice(o.heap, str(o).value) = s
        BY <4>2, <4>3, <4>4 DEF as_slice
      <4> QED
        BY <4>1, <4>5, <4>6
    <3>3. \A p \in made : /\ p \in Outcome /\ Effect(heap, emptyList, p)
                          /\ Content(p.heap, p.value) /\ as_slice(p.heap, p.value) = s
      BY <3>2
    <3> HIDE DEF made
    <3> QED
      BY <1>1, <1>2, <2>1, <3>1, <3>3
  <2> QED
    BY <2>2, <2>3
<1>6. ASSUME NEW n \in 0 .. MaxLength, RocList_with_capacity(x, n)
      PROVE  Goal
  <2>1. \A o \in RocList_reserve(heap, emptyList, n) :
          /\ o \in Outcome /\ Effect(heap, emptyList, o)
          /\ Content(o.heap, o.value) /\ as_slice(o.heap, o.value) = <<>>
    BY <1>1, BoundsAre, ListReserveEffect, ListReserveReads DEF Reads
  <2> QED
    BY <1>1, <1>2, <1>6, <2>1, ShortTexts DEF RocList_with_capacity, makes
<1>7. ASSUME NEW n \in 0 .. MaxLength, RocStr_with_capacity(x, n)
      PROVE  Goal
  <2> DEFINE v == small(<<>>)
  <2>1. /\ v \in Value /\ ~onHeap(v) /\ v.type = "RocStr" /\ Grounded(heap, v)
        /\ Content(heap, v) /\ as_slice(heap, v) = <<>>
    BY EmptySeq, SmallIs DEF Grounded, Content, as_slice
  <2> HIDE DEF v
  <2>2. \A o \in RocStr_reserve(heap, v, n) :
          /\ o \in Outcome /\ Effect(heap, v, o)
          /\ Content(o.heap, o.value) /\ as_slice(o.heap, o.value) = <<>>
    BY <1>1, <2>1, BoundsAre, StrReserveEffect, StrReserveReads DEF Reads
  <2>3. owned[x] = NoValue /\ becomes(x, RocStr_reserve(heap, v, n))
    BY <1>7 DEF RocStr_with_capacity, makes, v
  <2> QED
    BY <1>2, <2>1, <2>2, <2>3, ShortTexts
<1>8. ASSUME NEW s \in Texts, NEW hint \in 0 .. MaxLength,
             usesWell("from_iter", Len(s) <= hint), from_iter(x, s, hint)
      PROVE  Goal
  <2>1. \A o \in collected(heap, s, hint) :
          /\ o \in Outcome /\ Effect(heap, emptyList, o)
          /\ Content(o.heap, o.value) /\ as_slice(o.heap, o.value) = s
    <3> SUFFICES ASSUME NEW o \in collected(heap, s, hint)
                 PROVE  /\ o \in Outcome /\ Effect(heap, emptyList, o)
                        /\ Content(o.heap, o.value) /\ as_slice(o.heap, o.value) = s
      OBVIOUS
    <3>1. s \in Seq(Elements) /\ hint \in Nat /\ Len(s) <= hint
      BY <1>8, BoundsAre, TextsAre DEF usesWell, UsedWell
    <3>2. Fresh(heap, o) /\ Content(o.heap, o.value) /\ as_slice(o.heap, o.value) = s
      BY <1>1, <3>1, CollectedFresh, CollectedReads
    <3>3. REFCOUNT_1 \in Int
      BY FreeIs, AllocationIs
    <3> QED
      BY <1>1, <3>2, <3>3 DEF Fresh, Effect, Leaves
  <2> QED
    BY <1>1, <1>2, <1>8, <2>1 DEF from_iter, makes
<1> QED
  BY <1>4, <1>5, <1>6, <1>7, <1>8 DEF Make

LEMMA GrowReads ==
  ASSUME UsedWell, ReadInv, NEW x \in Variables, Grow(x)
  PROVE  /\ ContentInv(heap', owned') /\ owned[x] # NoValue
         /\ \/ \E text \in Texts : reading(heap', owned') = [read EXCEPT ![x] = @ \o text]
            \/ reading(heap', owned') = read
<1> DEFINE v == owned[x]
           Goal == /\ ContentInv(heap', owned')
                   /\ \/ \E text \in Texts : reading(heap', owned') = [read EXCEPT ![x] = @ \o text]
                      \/ reading(heap', owned') = read
<1>1. /\ CountInv(heap, owned) /\ ContentInv(heap, owned) /\ heap \in Heap
      /\ v # NoValue /\ v \in Value /\ Grounded(heap, v) /\ Content(heap, v)
      /\ v.length \in Nat /\ read[x] = as_slice(heap, v)
  BY OwnedIs, ValueIs, ReadIs DEF Grow, grows, ReadInv, CountInv, ContentInv
<1>0. read = [z \in Variables |-> read[z]]
  BY DEF read, reading
<1>2. ASSUME NEW text \in Texts, NEW outcomes, becomes(x, outcomes),
             \A o \in outcomes : o \in Outcome /\ Effect(heap, v, o) /\ ReadsMore(heap, v, text, o)
      PROVE  Goal
  <2> DEFINE all == as_slice(heap, v) \o text
  <2>1. AllRead(v, all, outcomes)
    BY <1>2 DEF ReadsMore, AllRead
  <2>2. /\ ContentInv(heap', owned')
        /\ reading(heap', owned') = [reading(heap, owned) EXCEPT ![x] = all]
    <3> HIDE DEF all
    <3> QED
      BY <1>1, <1>2, <2>1, BecomesReads
  <2>3. reading(heap', owned') = [read EXCEPT ![x] = @ \o text]
    BY <1>1, <2>2 DEF read
  <2> QED
    BY <2>2, <2>3
<1>3. ASSUME NEW outcomes, becomes(x, outcomes),
             \A o \in outcomes : o \in Outcome /\ Effect(heap, v, o) /\ Reads(heap, v, o)
      PROVE  Goal
  <2>1. AllRead(v, as_slice(heap, v), outcomes)
    BY <1>3 DEF Reads, AllRead
  <2>2. /\ ContentInv(heap', owned')
        /\ reading(heap', owned') = [reading(heap, owned) EXCEPT ![x] = as_slice(heap, v)]
    BY <1>1, <1>3, <2>1, BecomesReads
  <2>3. reading(heap', owned') = read
    BY <1>1, <1>0, <2>2 DEF read
  <2> QED
    BY <2>2, <2>3
<1>4. ASSUME NEW e \in Elements, grows(x, 1), usesWell("push", pushWellUsed(v)), push(x, e)
      PROVE  Goal
  <2>1. /\ v.type = "RocList" /\ becomes(x, RocList_push(heap, v, e))
        /\ capacity(v) > v.length => unique(heap, v)
    BY <1>4 DEF push, owns, usesWell, pushWellUsed, UsedWell
  <2>2. <<e>> \in Texts
    BY <1>1, <1>4, ShortTexts, BuffersAssumption DEF grows, BuffersAssumption
  <2>3. \A o \in RocList_push(heap, v, e) :
          o \in Outcome /\ Effect(heap, v, o) /\ ReadsMore(heap, v, <<e>>, o)
    BY <1>1, <2>1, PushEffect, PushReads
  <2> QED
    BY <1>2, <2>1, <2>2, <2>3
<1>5. ASSUME NEW s \in Texts, usesWell("extend", extendWellUsed(v)), extend(x, s)
      PROVE  Goal
  <2>1. /\ v.type = "RocList" /\ becomes(x, extend_from_slice(heap, v, s))
        /\ onHeap(v) => unique(heap, v) /\ v.start = 0
    BY <1>5 DEF extend, owns, usesWell, extendWellUsed, UsedWell
  <2>2. \A o \in extend_from_slice(heap, v, s) :
          o \in Outcome /\ Effect(heap, v, o) /\ ReadsMore(heap, v, s, o)
    BY <1>1, <2>1, TextsAre, ExtendEffect, ExtendReads
  <2> QED
    BY <1>2, <2>1, <2>2
<1>6. ASSUME NEW n \in 0 .. MaxLength, usesWell("reserve", reserveWellUsed(v, n)), reserve(x, n)
      PROVE  Goal
  <2>1. n \in Nat
    BY BuffersAssumption DEF BuffersAssumption
  <2>2. CASE owns(x, "RocList") /\ becomes(x, RocList_reserve(heap, v, n))
    <3>1. /\ v.type = "RocList"
          /\ onHeap(v) /\ unique(heap, v) /\ ~v.slice => v.length + n >= v.capacity
      BY <1>6, <2>2 DEF owns, usesWell, reserveWellUsed, UsedWell
    <3>2. \A o \in RocList_reserve(heap, v, n) :
            o \in Outcome /\ Effect(heap, v, o) /\ Reads(heap, v, o)
      BY <1>1, <2>1, <3>1, ListReserveEffect, ListReserveReads
    <3> QED
      BY <1>3, <2>2, <3>2
  <2>3. CASE owns(x, "RocStr") /\ becomes(x, RocStr_reserve(heap, v, n))
    <3>1. v.type = "RocStr"
      BY <2>3 DEF owns
    <3>2. \A o \in RocStr_reserve(heap, v, n) :
            o \in Outcome /\ Effect(heap, v, o) /\ Reads(heap, v, o)
      BY <1>1, <2>1, <3>1, StrReserveEffect, StrReserveReads
    <3> QED
      BY <1>3, <2>3, <3>2
  <2> QED
    BY <1>6, <2>2, <2>3 DEF reserve
<1> QED
  BY <1>1, <1>4, <1>5, <1>6 DEF Grow

shares(h, own, x, y, w, new) ==
  /\ CountInv(h, own) /\ ContentInv(h, own) /\ own[x] # NoValue /\ own[y] = NoValue
  /\ w \in Value /\ w.address = own[x].address /\ w.type = own[x].type /\ Content(h, w)
  /\ new = [own EXCEPT ![y] = w]

gets(f, g, y, text) == g = [f EXCEPT ![y] = text]

LEMMA ShareReads ==
  ASSUME NEW h, NEW own, NEW x \in Variables, NEW y \in Variables, NEW w, NEW new,
         shares(h, own, x, y, w, new)
  PROVE  /\ ContentInv(clone(h, own[x]), new)
         /\ gets(reading(h, own), reading(clone(h, own[x]), new), y, as_slice(h, w))
<1> DEFINE v == own[x]
           g == clone(h, v)
<1>1. /\ CountInv(h, own) /\ ContentInv(h, own) /\ own[x] # NoValue /\ own[y] = NoValue
      /\ w \in Value /\ w.address = own[x].address /\ w.type = own[x].type /\ Content(h, w)
      /\ new = [own EXCEPT ![y] = w]
  BY DEF shares
<1>2. /\ v \in Value /\ Grounded(h, v) /\ h \in Heap /\ w # NoValue
      /\ own \in [Variables -> Value \cup {NoValue}]
  BY <1>1, OwnedIs, ValueIs DEF CountInv
<1>3. CountInv(g, new)
  <2>1. own[x] # NoValue /\ new \in {[own EXCEPT ![y] = w]}
    BY <1>1
  <2>2. /\ CountInv(h, own) /\ own[y] = NoValue
        /\ w \in Value /\ w.address = own[x].address /\ w.type = own[x].type
    BY <1>1
  <2> QED
    BY <2>1, <2>2, ShareKeeps
<1>4. \A a \in Addresses : TextKept(h, g, a)
  BY <1>2, ClonedText
<1> HIDE DEF g
<1>5. /\ new \in [Variables -> Value \cup {NoValue}] /\ new[y] = w
      /\ \A z \in Variables \ {y} : new[z] = own[z]
  BY <1>1, <1>2
<1>6. CountInv(h, own)
  BY <1>1
<1>7. ASSUME NEW z \in Variables \ {y}, own[z] # NoValue
      PROVE  Content(g, new[z]) /\ as_slice(g, new[z]) = as_slice(h, own[z])
  <2>1. onHeap(own[z]) => TextKept(h, g, own[z].address)
    BY <1>1, <1>4, <1>7, OwnedIs DEF CountInv
  <2>2. Content(h, own[z]) /\ new[z] = own[z]
    BY <1>1, <1>5, <1>7 DEF ContentInv
  <2> QED
    BY <1>3, <1>7, <1>6, <2>1, <2>2, SameRead
<1>8. Content(g, w) /\ as_slice(g, w) = as_slice(h, w)
  <2>1. onHeap(v) => TextKept(h, g, v.address)
    BY <1>2, <1>4, ValueIs, <1>1, OwnedIs
  <2>2. Content(h, v) /\ new[y] # NoValue /\ new[y].address = v.address
    BY <1>1, <1>2, <1>5 DEF ContentInv
  <2>3. new[y] = w /\ own[x] # NoValue
    BY <1>1, <1>5
  <2>4. onHeap(v) => cells(g, w) = cells(h, v)
    BY <1>3, <1>6, <2>1, <2>2, <2>3, KeptRead
  <2>5. (onHeap(w) <=> onHeap(v)) /\ cells(h, w) = cells(h, v)
    BY <1>1 DEF onHeap, cells
  <2> QED
    BY <1>1, <2>4, <2>5 DEF Content, as_slice
<1>9. ContentInv(g, new)
  BY <1>1, <1>5, <1>7, <1>8 DEF ContentInv
<1>10. reading(g, new) = [reading(h, own) EXCEPT ![y] = as_slice(h, w)]
  BY <1>1, <1>2, <1>5, <1>7, <1>8 DEF reading
<1> QED
  BY <1>9, <1>10 DEF g, gets

LEMMA SlicedReads ==
  ASSUME NEW h \in Heap, NEW v \in Value, Content(h, v), sliceable(v),
         NEW from \in Nat, NEW to \in Nat, from <= to, to <= v.length,
         NEW w \in {sliced(v, from, to)}
  PROVE  Content(h, w) /\ as_slice(h, w) = SubSeq(as_slice(h, v), from + 1, to)
<1>1. /\ w \in Value /\ w.address = v.address
      /\ ~onHeap(v) => w.text = SubSeq(v.text, from + 1, to)
      /\ onHeap(v) => w.start = v.start + from /\ w.length = to - from /\ w.slice
  BY SlicedIs
<1>2. CASE ~onHeap(v)
  <2>1. ~onHeap(w)
    BY <1>1, <1>2 DEF onHeap
  <2> QED
    BY <1>1, <1>2, <2>1 DEF Content, as_slice
<1>3. CASE onHeap(v)
  <2> DEFINE c == cells(h, v)
             s == as_slice(h, v)
  <2>1. /\ onHeap(w) /\ cells(h, w) = c /\ capacity(w) = w.length
        /\ w.start = from /\ w.length = to - from /\ w.slice
        /\ v.start = 0 /\ v.length \in Nat
    BY <1>1, <1>3, ValueIs DEF onHeap, cells, capacity, sliceable
  <2>2. /\ s \in Seq(Elements) /\ Len(s) = v.length
        /\ \A i \in 1 .. v.length : s[i] = c[i] /\ c[i] \in Elements
    <3>1. /\ \A i \in 1 .. v.length : s[i] = c[0 + i]
          /\ \A i \in 1 .. v.length : c[0 + i] \in Elements
      BY <1>3, <2>1, ContentRead DEF Content, Filled
    <3> QED
      BY <2>1, <3>1, ContentRead
  <2>3. v.length <= Len(c) /\ Len(c) \in Nat
    <3>1. 0 + v.length <= Len(c)
      BY <1>3, <2>1 DEF Content, Filled
    <3> QED
      BY <1>3, <2>1, <3>1, CellsRead, LenProperties
  <2> HIDE DEF c, s
  <2>4. \A i \in 1 .. to - from : from + i \in 1 .. v.length
    BY <2>1
  <2>5. Content(h, w)
    BY <2>1, <2>2, <2>3, <2>4 DEF Content, Filled
  <2> DEFINE r == as_slice(h, w)
             t == SubSeq(s, from + 1, to)
  <2>6. /\ r \in Seq(Elements) /\ Len(r) = to - from
        /\ \A i \in 1 .. to - from : r[i] = c[from + i]
    <3>1. /\ as_slice(h, w) \in Seq(Elements) /\ Len(as_slice(h, w)) = w.length
          /\ \A i \in 1 .. w.length : as_slice(h, w)[i] = cells(h, w)[w.start + i]
      BY <1>1, <2>1, <2>5, ContentRead
    <3> QED
      BY <2>1, <3>1
  <2>7. /\ t \in Seq(Elements) /\ Len(t) = to - from
        /\ \A i \in 1 .. to - from : t[i] = s[from + i]
    <3>1. from + 1 \in Int /\ to \in Int /\ \A i \in from + 1 .. to : s[i] \in Elements
      BY <2>1, <2>2
    <3>2. /\ t \in Seq(Elements) /\ Len(t) = IF from + 1 <= to THEN to - (from + 1) + 1 ELSE 0
          /\ \A i \in 1 .. to - (from + 1) + 1 : t[i] = s[(from + 1) + i - 1]
      BY <3>1, SubSeqProperties
    <3>3. /\ to - (from + 1) + 1 = to - from
          /\ \A i \in 1 .. to - from : (from + 1) + i - 1 = from + i
          /\ ~(from + 1 <= to) => to - from = 0
      OBVIOUS
    <3> QED
      BY <3>2, <3>3
  <2> HIDE DEF r, t
  <2>8. \A i \in 1 .. to - from : r[i] = t[i]
    BY <2>2, <2>4, <2>6, <2>7
  <2>9. r = t
    BY <2>6, <2>7, <2>8, SeqEqual
  <2> QED
    BY <2>5, <2>9 DEF r, t, s
<1> QED
  BY <1>2, <1>3

(* A variable ends, and what is not freed keeps its text.                  *)
LEMMA EndReads ==
  ASSUME ReadInv, NEW x \in Variables,
         Drop(x) \/ with_utf8_terminator(x) \/ with_terminator(x)
  PROVE  /\ ContentInv(heap', owned') /\ owned[x] # NoValue
         /\ reading(heap', owned') = [read EXCEPT ![x] = Nothing]
<1> DEFINE v == owned[x]
<1>1. v # NoValue /\ owned' = [owned EXCEPT ![x] = NoValue]
  BY DEF Drop, with_utf8_terminator, with_terminator, owns
<1>2. /\ CountInv(heap, owned) /\ ContentInv(heap, owned) /\ CountInv(heap', owned')
      /\ heap \in Heap /\ v \in Value /\ Grounded(heap, v)
      /\ owned \in [Variables -> Value \cup {NoValue}]
  BY <1>1, OwnedIs, EndsKeep DEF ReadInv, CountInv, Kept
<1>3. ASSUME NEW a \in Addresses
      PROVE  TextKept(heap, heap', a)
  <2>1. CASE heap' = dropped(heap, v)
    BY <1>2, <2>1, DroppedText
  <2>2. CASE with_utf8_terminator(x) /\ heap' # dropped(heap, v)
    <3>1. PICK rc \in UninitCounts :
            /\ onHeap(v) /\ unique(heap, v)
            /\ heap' = dropped([heap EXCEPT ![v.address].rc = rc], v)
      BY <2>2 DEF with_utf8_terminator, owns
    <3>2. v.address \in Addresses /\ heap[v.address].live
      BY <1>2, <3>1, UniqueIs
    <3> DEFINE h == [heap EXCEPT ![v.address].rc = rc]
    <3>3. heap[v.address] \in [live : {TRUE}, rc : Int, text : Seq(AnyCell)] /\ rc \in Int
      BY <1>2, <3>2, FreeIs, BuffersAssumption DEF Heap, Allocation, BuffersAssumption
    <3>4. [heap[v.address] EXCEPT !.rc = rc] \in Allocation
      BY <3>3 DEF Allocation
    <3>5. h \in Heap /\ h[a].text = heap[a].text
      BY <1>2, <3>2, <3>3, <3>4 DEF Heap
    <3> HIDE DEF h
    <3>6. TextKept(h, dropped(h, v), a)
      BY <1>2, <3>5, DroppedText
    <3> QED
      BY <3>1, <3>5, <3>6 DEF TextKept, h
  <2>3. CASE with_terminator(x) /\ heap' # dropped(heap, v)
    <3>1. onHeap(v) /\ heap' = [heap EXCEPT ![v.address] = free]
      BY <2>3 DEF with_terminator, owns
    <3> QED
      BY <1>2, <3>1, FreeIs DEF TextKept, Heap
  <2> QED
    BY <2>1, <2>2, <2>3 DEF Drop
<1>4. ASSUME NEW z \in Variables \ {x}, owned[z] # NoValue
      PROVE  /\ owned'[z] = owned[z] /\ Content(heap', owned'[z])
             /\ as_slice(heap', owned'[z]) = as_slice(heap, owned[z])
  <2>1. onHeap(owned[z]) => TextKept(heap, heap', owned[z].address)
    BY <1>2, <1>3, <1>4, OwnedIs
  <2>2. Content(heap, owned[z]) /\ owned'[z] = owned[z]
    BY <1>1, <1>2, <1>4 DEF ContentInv
  <2> QED
    BY <1>2, <1>4, <2>1, <2>2, SameRead
<1>5. owned'[x] = NoValue /\ \A z \in Variables \ {x} : owned'[z] = owned[z]
  BY <1>1, <1>2
<1>6. ContentInv(heap', owned')
  BY <1>4, <1>5 DEF ContentInv
<1>7. reading(heap', owned') = [read EXCEPT ![x] = Nothing]
  BY <1>4, <1>5 DEF reading, read
<1> QED
  BY <1>1, <1>6, <1>7

LEMMA SplitReads ==
  ASSUME ReadInv, NEW x \in Variables, NEW y \in Variables, NEW z \in Variables,
         NEW i \in 0 .. MaxLength, NEW j \in i .. MaxLength, split_once(x, y, z, i, j)
  PROVE  /\ ContentInv(heap', owned')
         /\ owned[x] # NoValue /\ owned[y] = NoValue /\ owned[z] = NoValue /\ y # z
         /\ i \in 0 .. Len(read[x]) /\ j \in i .. Len(read[x])
         /\ reading(heap', owned') = [read EXCEPT ![y] = SubSeq(read[x], 1, i),
                                                  ![z] = SubSeq(read[x], j + 1, Len(read[x]))]
<1> DEFINE v == owned[x]
           u == sliced(v, 0, i)
           w == sliced(v, j, v.length)
           h1 == clone(heap, v)
           own1 == [owned EXCEPT ![y] = u]
           front == SubSeq(as_slice(heap, v), 1, i)
           back  == SubSeq(as_slice(heap, v), j + 1, v.length)
<1>1. /\ v # NoValue /\ owned[y] = NoValue /\ owned[z] = NoValue /\ y # z
      /\ sliceable(v) /\ j <= v.length
      /\ heap' = clone(h1, v) /\ owned' = [own1 EXCEPT ![z] = w]
  BY DEF split_once, owns
<1>2. /\ CountInv(heap, owned) /\ ContentInv(heap, owned) /\ heap \in Heap
      /\ v \in Value /\ Grounded(heap, v) /\ Content(heap, v)
      /\ owned \in [Variables -> Value \cup {NoValue}]
  BY <1>1, OwnedIs DEF ReadInv, CountInv, ContentInv
<1>3. i \in Nat /\ j \in Nat /\ i <= j /\ i <= v.length /\ v.length \in Nat /\ 0 + 1 = 1
  BY <1>1, <1>2, ValueIs, BuffersAssumption DEF BuffersAssumption
<1>4. /\ u \in Value /\ u.address = v.address /\ u.type = v.type
      /\ Content(heap, u) /\ as_slice(heap, u) = front
  <2>1. 0 \in Nat /\ 0 <= i
    BY <1>3
  <2>2. as_slice(heap, u) = SubSeq(as_slice(heap, v), 0 + 1, i) /\ Content(heap, u)
    BY <1>1, <1>2, <1>3, <2>1, SlicedReads
  <2> QED
    BY <1>1, <1>2, <1>3, <2>1, <2>2, SlicedIs
<1>5. /\ w \in Value /\ w.address = v.address /\ w.type = v.type
      /\ Content(heap, w) /\ as_slice(heap, w) = back
  <2>1. v.length <= v.length /\ w \in {sliced(v, j, v.length)}
    BY <1>3
  <2> HIDE DEF w
  <2>2. w \in Value /\ w.address = v.address /\ w.type = v.type
    BY <1>1, <1>2, <1>3, <2>1, SlicedIs
  <2>3. Content(heap, w) /\ as_slice(heap, w) = SubSeq(as_slice(heap, v), j + 1, v.length)
    BY <1>1, <1>2, <1>3, <2>1, SlicedReads
  <2> QED
    BY <2>2, <2>3
<1> HIDE DEF u, w, front, back
<1>6. own1[x] = v /\ own1[z] = NoValue /\ own1[y] = u
  BY <1>1, <1>2, <1>4
<1>7. /\ CountInv(h1, own1) /\ ContentInv(h1, own1)
      /\ reading(h1, own1) = [reading(heap, owned) EXCEPT ![y] = front]
  <2>1. own1 \in {[owned EXCEPT ![y] = u]}
    OBVIOUS
  <2> HIDE DEF own1
  <2>2. CountInv(h1, own1)
    BY <1>1, <1>2, <1>4, <2>1, ShareKeeps
  <2>3. ContentInv(h1, own1) /\ reading(h1, own1) = [reading(heap, owned) EXCEPT ![y] = as_slice(heap, u)]
    <3>1. own1 = [owned EXCEPT ![y] = u]
      BY <2>1
    <3>2. shares(heap, owned, x, y, u, own1)
      BY <1>1, <1>2, <1>4, <3>1 DEF shares
    <3>3. /\ ContentInv(h1, own1)
          /\ gets(reading(heap, owned), reading(h1, own1), y, as_slice(heap, u))
      BY <3>2, ShareReads
    <3> QED
      BY <3>2, <3>3 DEF gets
  <2> QED
    BY <1>4, <2>2, <2>3
<1>8. Content(h1, w) /\ as_slice(h1, w) = back
  <2>1. onHeap(v) => TextKept(heap, h1, v.address)
    BY <1>2, ClonedText, ValueIs
  <2>2. own1[x] # NoValue /\ own1[x].address = v.address
    BY <1>1, <1>6
  <2>3. onHeap(v) => cells(h1, v) = cells(heap, v)
    <3> HIDE DEF h1, own1
    <3>1. onHeap(v) => cells(h1, own1[x]) = cells(heap, v)
      BY <1>1, <1>2, <1>7, <2>1, <2>2, KeptRead
    <3> QED
      BY <1>6, <3>1
  <2>4. (onHeap(w) <=> onHeap(v)) /\ cells(h1, w) = cells(h1, v) /\ cells(heap, w) = cells(heap, v)
    BY <1>5 DEF onHeap, cells
  <2>5. Content(h1, w)
    BY <1>5, <2>3, <2>4 DEF Content
  <2>6. as_slice(h1, w) = as_slice(heap, w)
    BY <2>3, <2>4 DEF as_slice
  <2> QED
    BY <1>5, <2>5, <2>6
<1> HIDE DEF own1, h1
<1>9. /\ ContentInv(clone(h1, v), owned')
      /\ reading(clone(h1, v), owned') = [reading(h1, own1) EXCEPT ![z] = back]
  <2>1. /\ own1[x] # NoValue /\ w.address = own1[x].address /\ w.type = own1[x].type
        /\ own1[z] = NoValue
    BY <1>1, <1>5, <1>6
  <2>2. shares(h1, own1, x, z, w, owned')
    BY <1>1, <1>5, <1>7, <1>8, <2>1 DEF shares
  <2>3. /\ ContentInv(clone(h1, own1[x]), owned')
        /\ gets(reading(h1, own1), reading(clone(h1, own1[x]), owned'), z, as_slice(h1, w))
    BY <2>2, ShareReads
  <2> QED
    BY <1>6, <1>8, <2>3 DEF gets
<1>10. read[x] = as_slice(heap, v) /\ Len(read[x]) = v.length
  BY <1>1, ReadIs
<1>11. /\ front = SubSeq(read[x], 1, i) /\ back = SubSeq(read[x], j + 1, Len(read[x]))
       /\ i \in 0 .. Len(read[x]) /\ j \in i .. Len(read[x])
  BY <1>1, <1>3, <1>10 DEF front, back
<1>12. reading(heap', owned') = [read EXCEPT ![y] = front, ![z] = back]
  BY <1>1, <1>7, <1>9 DEF read
<1> QED
  BY <1>1, <1>9, <1>11, <1>12

(* A step changes what the variables read as the specification says.       *)
ReadStep ==
  RocSequences!Next \/ RocSequences!Grow \/ RocSequences!Cut \/ RocSequences!Split

LEMMA CutIs ==
  RocSequences!Cut <=>
    \E v, w \in Variables :
      /\ read[v] # Nothing /\ read[w] = Nothing
      /\ \E from \in 0 .. Len(read[v]) : \E to \in from .. Len(read[v]) :
           read' = [read EXCEPT ![w] = SubSeq(read[v], from + 1, to)]
BY Zenon DEF RocSequences!Cut, read, reading

LEMMA SplitIs ==
  RocSequences!Split <=>
    \E v, w, u \in Variables :
      /\ read[v] # Nothing /\ read[w] = Nothing /\ read[u] = Nothing /\ w # u
      /\ \E i \in 0 .. Len(read[v]) : \E j \in i .. Len(read[v]) :
           read' = [read EXCEPT ![w] = SubSeq(read[v], 1, i),
                                ![u] = SubSeq(read[v], j + 1, Len(read[v]))]
BY Zenon DEF RocSequences!Split, read, reading

LEMMA StepReads ==
  ASSUME UsedWell, ReadInv, [Next]_vars
  PROVE  ContentInv(heap', owned') /\ [ReadStep]_read
<1>1. read' = reading(heap', owned')
  BY DEF read, reading, as_slice, onHeap, cells, resized
<1>0. \A x \in Variables : owned[x] = NoValue <=> read[x] = Nothing
  BY ReadIs
<1>2. ASSUME NEW x \in Variables, Make(x)
      PROVE  ContentInv(heap', owned') /\ RocSequences!Create
  <2>1. PICK text \in Texts : read' = [read EXCEPT ![x] = text]
    BY <1>1, <1>2, MakeReads
  <2>2. ContentInv(heap', owned') /\ read[x] = Nothing
    BY <1>2, <1>0, MakeReads
  <2> QED
    BY <2>1, <2>2 DEF RocSequences!Create, read, reading
<1>3. ASSUME NEW x \in Variables, Grow(x)
      PROVE  ContentInv(heap', owned') /\ (RocSequences!Grow \/ read' = read)
  <2>1. /\ ContentInv(heap', owned') /\ read[x] # Nothing
        /\ \/ \E text \in Texts : read' = [read EXCEPT ![x] = @ \o text]
           \/ read' = read
    BY <1>1, <1>3, <1>0, GrowReads
  <2> QED
    BY <2>1 DEF RocSequences!Grow, read, reading
<1>4. ASSUME NEW x \in Variables, NEW y \in Variables, Clone(x, y)
      PROVE  ContentInv(heap', owned') /\ RocSequences!Copy
  <2> DEFINE v == owned[x]
  <2>1. /\ v # NoValue /\ owned[y] = NoValue
        /\ heap' = clone(heap, v) /\ owned' = [owned EXCEPT ![y] = v]
    BY <1>4 DEF Clone
  <2>2. CountInv(heap, owned) /\ ContentInv(heap, owned) /\ v \in Value /\ Content(heap, v)
    BY <2>1, OwnedIs DEF ReadInv, ContentInv
  <2>3. /\ ContentInv(heap', owned')
        /\ reading(heap', owned') = [reading(heap, owned) EXCEPT ![y] = as_slice(heap, v)]
    <3>1. shares(heap, owned, x, y, v, owned')
      BY <2>1, <2>2 DEF shares
    <3>2. /\ ContentInv(clone(heap, owned[x]), owned')
          /\ gets(reading(heap, owned), reading(clone(heap, owned[x]), owned'), y, as_slice(heap, v))
      BY <3>1, ShareReads
    <3> QED
      BY <2>1, <3>2 DEF gets
  <2>4. read' = [read EXCEPT ![y] = read[x]]
    BY <1>1, <2>1, <2>3, ReadIs DEF read
  <2>5. read[x] # Nothing /\ read[y] = Nothing
    BY <1>0, <2>1
  <2> QED
    BY <2>3, <2>4, <2>5 DEF RocSequences!Copy, read, reading
<1>5. ASSUME NEW x \in Variables, NEW y \in Variables,
             NEW from \in 0 .. MaxLength, NEW to \in from .. MaxLength,
             try_slice_range(x, y, from, to)
      PROVE  ContentInv(heap', owned') /\ RocSequences!Cut
  <2> DEFINE v == owned[x]
             w == sliced(v, from, to)
  <2>1. /\ v # NoValue /\ owned[y] = NoValue /\ sliceable(v) /\ to <= v.length
        /\ heap' = clone(heap, v) /\ owned' = [owned EXCEPT ![y] = w]
    BY <1>5 DEF try_slice_range
  <2>2. /\ CountInv(heap, owned) /\ ContentInv(heap, owned) /\ heap \in Heap
        /\ v \in Value /\ Content(heap, v) /\ v.length \in Nat
    BY <2>1, OwnedIs, ValueIs DEF ReadInv, ContentInv, CountInv
  <2>3. from \in Nat /\ to \in Nat /\ from <= to
    BY BuffersAssumption DEF BuffersAssumption
  <2>4. /\ w \in Value /\ w.address = v.address /\ w.type = v.type
        /\ Content(heap, w) /\ as_slice(heap, w) = SubSeq(as_slice(heap, v), from + 1, to)
    BY <2>1, <2>2, <2>3, SlicedIs, SlicedReads
  <2> HIDE DEF w
  <2>5. /\ ContentInv(heap', owned')
        /\ reading(heap', owned') = [reading(heap, owned) EXCEPT ![y] = as_slice(heap, w)]
    <3>1. shares(heap, owned, x, y, w, owned')
      BY <2>1, <2>2, <2>4 DEF shares
    <3>2. /\ ContentInv(clone(heap, owned[x]), owned')
          /\ gets(reading(heap, owned), reading(clone(heap, owned[x]), owned'), y, as_slice(heap, w))
      BY <3>1, ShareReads
    <3> QED
      BY <2>1, <3>2 DEF gets
  <2>6. read[x] = as_slice(heap, v) /\ Len(read[x]) = v.length
    BY <2>1, ReadIs
  <2>7. /\ read' = [read EXCEPT ![y] = SubSeq(read[x], from + 1, to)]
        /\ read[x] # Nothing /\ read[y] = Nothing
        /\ from \in 0 .. Len(read[x]) /\ to \in from .. Len(read[x])
    BY <1>1, <1>0, <2>1, <2>2, <2>3, <2>4, <2>5, <2>6 DEF read
  <2> QED
    BY <2>5, <2>7, CutIs
<1>6. ASSUME NEW x \in Variables, NEW y \in Variables, NEW z \in Variables,
             NEW i \in 0 .. MaxLength, NEW j \in i .. MaxLength, split_once(x, y, z, i, j)
      PROVE  ContentInv(heap', owned') /\ RocSequences!Split
  <2>1. /\ ContentInv(heap', owned') /\ y # z
        /\ read[x] # Nothing /\ read[y] = Nothing /\ read[z] = Nothing
        /\ i \in 0 .. Len(read[x]) /\ j \in i .. Len(read[x])
        /\ read' = [read EXCEPT ![y] = SubSeq(read[x], 1, i),
                                ![z] = SubSeq(read[x], j + 1, Len(read[x]))]
    BY <1>1, <1>6, <1>0, SplitReads
  <2> QED
    BY <2>1, SplitIs
<1>7. ASSUME NEW x \in Variables, Drop(x) \/ with_utf8_terminator(x) \/ with_terminator(x)
      PROVE  ContentInv(heap', owned') /\ RocSequences!Drop
  <2>1. /\ ContentInv(heap', owned') /\ read[x] # Nothing
        /\ read' = [read EXCEPT ![x] = Nothing]
    BY <1>1, <1>7, <1>0, EndReads
  <2> QED
    BY <2>1 DEF RocSequences!Drop, read, reading
<1>8. CASE UNCHANGED vars
  BY <1>8 DEF vars, ReadInv, read
<1>9. CASE Next
  <2>1. PICK x \in Variables :
          \/ Make(x) \/ Grow(x) \/ Share(x)
          \/ Drop(x) \/ with_utf8_terminator(x) \/ with_terminator(x)
    BY <1>9 DEF Next
  <2>2. CASE Share(x)
    BY <1>4, <1>5, <1>6, <2>2 DEF Share, ReadStep, RocSequences!Next
  <2> QED
    BY <1>2, <1>3, <1>7, <2>1, <2>2 DEF ReadStep, RocSequences!Next
<1> QED
  BY <1>8, <1>9

(* What the variables own is counted, and their elements are written, as   *)
(* long as the host uses the functions that grow where they are right.     *)
THEOREM AlwaysReadable == UsedWell => (Spec => []ReadInv)
<1> SUFFICES ASSUME UsedWell PROVE Spec => []ReadInv
  OBVIOUS
<1>1. Init => ReadInv
  <2> SUFFICES ASSUME Init PROVE ReadInv
    OBVIOUS
  <2>1. CountInv(heap, owned)
    BY Start
  <2>2. ContentInv(heap, owned)
    BY DEF Init, ContentInv
  <2> QED
    BY <2>1, <2>2 DEF ReadInv
<1>2. ReadInv /\ [Next]_vars => ReadInv'
  <2> SUFFICES ASSUME ReadInv, [Next]_vars PROVE ReadInv'
    OBVIOUS
  <2>1. CountInv(heap', owned') /\ ContentInv(heap', owned')
    BY StepKeeps, StepReads DEF Kept, ReadInv
  <2>2. /\ CountInv(heap', owned') <=> CountInv(heap, owned)'
        /\ ContentInv(heap', owned') <=> ContentInv(heap, owned)'
    BY Zenon DEF CountInv, ListCounted, hasList, refsIn, Heap, Counted, Exact,
                 ContentInv, Content, Filled, onHeap, cells, capacity
  <2> QED
    BY <2>1, <2>2 DEF ReadInv
<1> QED
  BY <1>1, <1>2, PTL DEF Spec

(* What from_raw_parts asks of its caller holds: the allocation has room   *)
(* for the capacity, and the elements are written.                         *)
THEOREM ElementsWritten == UsedWell => (Spec => []AllocatedForCapacity)
<1> SUFFICES ASSUME UsedWell PROVE Spec => []AllocatedForCapacity
  OBVIOUS
<1>1. ReadInv => AllocatedForCapacity
  <2> SUFFICES ASSUME ReadInv, NEW x \in Variables, owned[x] # NoValue, onHeap(owned[x])
               PROVE  /\ owned[x].start + capacity(owned[x]) <= Len(cells(heap, owned[x]))
                      /\ as_slice(heap, owned[x]) \in Seq(Elements)
    BY DEF AllocatedForCapacity
  <2>1. heap \in Heap /\ owned[x] \in Value /\ Content(heap, owned[x])
    BY OwnedIs DEF ReadInv, CountInv, ContentInv
  <2> QED
    BY <2>1, ContentRead DEF Content, Filled
<1> QED
  BY <1>1, AlwaysReadable, PTL

(* The memory implements the sequences that the host reads: a variable     *)
(* reads what it was made from and what was appended to it, and no call    *)
(* changes what another variable reads.                                    *)
THEOREM ImplementsSequences == UsedWell => (Spec => SequencesKept)
<1> SUFFICES ASSUME UsedWell PROVE Spec => SequencesKept
  OBVIOUS
<1>1. Init => RocSequences!Init
  BY DEF Init, RocSequences!Init
<1>2. ReadInv /\ [Next]_vars => [ReadStep]_read
  BY StepReads
<1>3. [ReadStep]_read =>
        [RocSequences!Next \/ RocSequences!Grow \/ RocSequences!Cut \/ RocSequences!Split]_
          ([x \in Variables |-> IF owned[x] = NoValue THEN Nothing ELSE as_slice(heap, owned[x])])
  BY DEF ReadStep, read, reading
<1> QED
  BY <1>1, <1>2, <1>3, AlwaysReadable, PTL DEF Spec, SequencesKept, RocSequences!SequencesSpec
=============================================================================
