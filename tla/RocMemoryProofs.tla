-------------------------- MODULE RocMemoryProofs --------------------------
(***************************************************************************)
(* Reference counting is right for any number of variables, addresses and  *)
(* countable references.                                                   *)
(***************************************************************************)
EXTENDS RocMemory, FiniteSetTheorems, TLAPS

Allocation == [live : BOOLEAN, rc : Int, text : Texts \cup {Garbage}]

TypesOK ==
  /\ heap \in [Addresses -> Allocation]
  /\ owned \in [Variables -> Values \cup {NoValue}]

Owns(x) == owned[x] # NoValue

(* The variables that refer to an address, and what their number says of   *)
(* the allocation there.                                                   *)
Counted(a, refs) ==
  IF a.live
  THEN a.rc >= 0 \/ (refs # {} /\ a.rc = REFCOUNT_1 + Cardinality(refs) - 1)
  ELSE refs = {}

(* An allocation still holds the text that a value was made from.          *)
TextKept ==
  \A x \in Variables :
    Owns(x) /\ onHeap(owned[x]) => heap[owned[x].address].text = owned[x].text

MemoryInv == TypesOK /\ ReferencesCounted /\ TextKept /\ SendSafeAlone

(* What cloning or dropping a value of any type makes of its allocation.   *)
cloned(a) == {RocList_clone(a), RocBox_clone(a), BigString_clone(a)}
deced(a) == {RocList_dec(a), RocBox_dec(a), BigString_dec(a)}

(* What a may become, to which refs refer, when y starts to refer to it,   *)
(* or x ceases to.                                                         *)
SharedBy(a, refs, y, b) ==
  /\ b \in Allocation /\ Counted(b, refs \cup {y})
  /\ b.live /\ b.text = a.text
  /\ a.rc >= 0 => b.rc >= 0

GivenUpBy(a, refs, x, b) ==
  /\ b \in Allocation /\ Counted(b, refs \ {x})
  /\ refs # {x} => b.live /\ b.text = a.text
  /\ a.rc >= 0 => b.live /\ b.rc >= 0 /\ b.text = a.text
-----------------------------------------------------------------------------
(* One allocation.                                                         *)

(* A reference more.                                                       *)
LEMMA CountedClone ==
  ASSUME NEW a \in Allocation, NEW refs, IsFiniteSet(refs), NEW y,
         Counted(a, refs), refs # {}, y \notin refs,
         NEW b \in cloned(a)
  PROVE  SharedBy(a, refs, y, b)
<1>1. /\ b \in Allocation /\ b.live = a.live /\ b.text = a.text
      /\ b.rc = IF a.rc = 0 THEN b.rc ELSE a.rc + 1
      /\ a.rc = 0 => b.rc \in {0, 1}
  BY DEF Allocation, cloned, RocList_clone, RocBox_clone, BigString_clone, increment_reference_count
<1>2. a.live
  BY DEF Counted
<1>3. Cardinality(refs \cup {y}) = Cardinality(refs) + 1
  BY FS_AddElement
<1>4. Cardinality(refs) \in Nat /\ MaxRefs \in Nat
  BY FS_CardinalityType, MemoryAssumption DEF MemoryAssumption
<1>5. Counted(b, refs \cup {y})
  BY <1>1, <1>2, <1>3, <1>4 DEF Counted, REFCOUNT_1, Allocation
<1> QED
  BY <1>1, <1>2, <1>5 DEF SharedBy, Allocation

(* A reference less.                                                       *)
LEMMA CountedDec ==
  ASSUME NEW a \in Allocation, NEW refs, IsFiniteSet(refs), NEW x \in refs,
         Counted(a, refs),
         NEW b \in deced(a)
  PROVE  GivenUpBy(a, refs, x, b)
<1> USE DEF GivenUpBy
<1>1. Cardinality(refs \ {x}) = Cardinality(refs) - 1
  BY FS_RemoveElement
<1>2. IsFiniteSet(refs \ {x}) /\ (Cardinality(refs \ {x}) = 0 <=> refs \ {x} = {})
  BY FS_RemoveElement, FS_EmptySet
<1>3. /\ Cardinality(refs) \in Nat /\ Cardinality(refs \ {x}) \in Nat
      /\ MaxRefs \in Nat \ {0}
  BY <1>2, FS_CardinalityType, MemoryAssumption DEF MemoryAssumption
<1>4. a.live
  BY DEF Counted
<1>5. b = IF a.rc = -MaxRefs THEN free ELSE IF a.rc = 0 THEN a ELSE [a EXCEPT !.rc = @ - 1]
  BY <1>3 DEF Allocation, deced, RocList_dec, RocBox_dec, BigString_dec, decrease, is_readonly, is_unique, REFCOUNT_1
<1>6. CASE a.rc = -MaxRefs
  <2>1. Cardinality(refs \ {x}) = 0
    BY <1>1, <1>3, <1>4, <1>6 DEF Counted, REFCOUNT_1
  <2>2. refs \ {x} = {} /\ refs = {x}
    BY <2>1, <1>2
  <2> QED
    BY <2>2, <1>3, <1>5, <1>6 DEF Counted, Allocation, free
<1>7. CASE a.rc = 0
  BY <1>3, <1>4, <1>5, <1>7 DEF Counted, Allocation
<1>8. CASE a.rc # 0 /\ a.rc # -MaxRefs
  <2>1. b = [a EXCEPT !.rc = @ - 1]
    BY <1>5, <1>8
  <2>2. b \in Allocation /\ b.live /\ b.text = a.text /\ b.rc = a.rc - 1
    BY <2>1, <1>4 DEF Allocation
  <2>3. a.rc \in Int
    BY DEF Allocation
  <2>4. CASE a.rc > 0
    BY <2>2, <2>3, <2>4 DEF Counted
  <2>5. CASE a.rc < 0
    <3>1. a.rc = -MaxRefs + Cardinality(refs) - 1
      BY <1>4, <2>5, <2>3 DEF Counted, REFCOUNT_1
    <3>2. Cardinality(refs \ {x}) # 0
      BY <3>1, <1>1, <1>3, <1>8
    <3> QED
      BY <3>1, <3>2, <1>1, <1>2, <1>3, <2>2, <2>5 DEF Counted, REFCOUNT_1
  <2> QED
    BY <2>3, <2>4, <2>5, <1>8
<1> QED
  BY <1>6, <1>7, <1>8
-----------------------------------------------------------------------------
(* One value.                                                              *)

LEMMA OwnedIs ==
  ASSUME TypesOK, NEW x \in Variables, Owns(x)
  PROVE  /\ owned[x] \in Values
         /\ onHeap(owned[x]) =>
              /\ owned[x].address \in Addresses /\ x \in references(owned[x].address)
              /\ heap[owned[x].address] \in Allocation
<1>1. owned[x] \in Values
  BY DEF TypesOK, Owns
<1>2. owned[x].address \in Addresses \cup {Nothing}
  BY <1>1 DEF Values
<1> QED
  BY <1>1, <1>2 DEF TypesOK, Owns, onHeap, references

LEMMA ValueIs ==
  ASSUME NEW v \in Values
  PROVE  v # NoValue /\ v.address \in Addresses \cup {Nothing} /\ v.text \in Texts
<1>1. v.type # "none"
  BY DEF Values, Types
<1> QED
  BY <1>1 DEF Values, NoValue

(* The heap, one allocation at a time.                                     *)
LEMMA HeapCounted ==
  ReferencesCounted <=> \A address \in Addresses : Counted(heap[address], references(address))
BY DEF ReferencesCounted, Counted

LEMMA HeapCountedNext ==
  ReferencesCounted' <=> \A address \in Addresses : Counted(heap'[address], references(address)')
BY DEF ReferencesCounted, Counted

(* What a step may not do to what is never freed.                          *)
ReadonlyKept ==
  \A address \in Addresses :
    heap[address].live /\ heap[address].rc >= 0 =>
      heap'[address].live /\ heap'[address].rc >= 0
-----------------------------------------------------------------------------
(* What is done to the variables: one starts to own a value.               *)

LEMMA PlaceKeeps ==
  ASSUME MemoryInv, NEW x \in Variables, NEW v \in Values, ~Owns(x), ~onHeap(v),
         UNCHANGED heap, owned' = [owned EXCEPT ![x] = v]
  PROVE  MemoryInv' /\ ReadonlyKept
<1> USE DEF MemoryInv
<1>1. TypesOK'
  BY DEF TypesOK
<1>2. \A address \in Addresses : references(address)' = references(address)
  BY MemoryAssumption DEF TypesOK, references, onHeap, Owns, MemoryAssumption
<1>3. ReferencesCounted'
  BY <1>2, HeapCounted, HeapCountedNext
<1>4. TextKept'
  BY DEF TextKept, TypesOK, Owns, onHeap
<1>5. SendSafeAlone'
  <2> SUFFICES ASSUME NEW z \in Variables, Owns(z)', owned'[z].sendSafe, onHeap(owned'[z])
               PROVE  \/ references(owned[z].address)' = {z}
                      \/ heap'[owned'[z].address].rc >= 0
    BY DEF SendSafeAlone, Owns, TypesOK
  <2>1. z # x /\ owned'[z] = owned[z] /\ Owns(z)
    BY DEF TypesOK, Owns, onHeap
  <2> QED
    BY <2>1, <1>2, OwnedIs DEF SendSafeAlone, Owns
<1> QED
  BY <1>1, <1>3, <1>4, <1>5 DEF ReadonlyKept

LEMMA AllocKeeps ==
  ASSUME MemoryInv, NEW x \in Variables, NEW v \in Values, ~Owns(x), v.address \in unused,
         heap' = elems_with_capacity(heap, v.address, v.text),
         owned' = [owned EXCEPT ![x] = v]
  PROVE  MemoryInv' /\ ReadonlyKept
<1> USE DEF MemoryInv
<1>0. v.address \in Addresses /\ v.text \in Texts /\ ~heap[v.address].live
  BY ValueIs DEF unused
<1>1. [live |-> TRUE, rc |-> REFCOUNT_1, text |-> v.text] \in Allocation /\ REFCOUNT_1 \in Int
  BY <1>0, MemoryAssumption DEF Allocation, REFCOUNT_1, MemoryAssumption
<1>2. TypesOK'
  BY <1>0, <1>1 DEF TypesOK, elems_with_capacity
<1>3. references(v.address) = {}
  BY <1>0, HeapCounted DEF Counted
<1>4. references(v.address)' = {x}
  BY <1>0, <1>3, ValueIs DEF TypesOK, references, Owns
<1>5. \A address \in Addresses \ {v.address} :
        references(address)' = references(address) /\ heap'[address] = heap[address]
  BY <1>0 DEF TypesOK, references, Owns, elems_with_capacity
<1>6. Counted(heap'[v.address], {x})
  <2>1. Cardinality({x}) = 1
    BY FS_Singleton
  <2>2. heap'[v.address] = [live |-> TRUE, rc |-> REFCOUNT_1, text |-> v.text]
    BY <1>0 DEF TypesOK, elems_with_capacity
  <2> QED
    BY <1>1, <2>1, <2>2 DEF Counted
<1>7. ReferencesCounted'
  BY <1>4, <1>5, <1>6, HeapCounted, HeapCountedNext
<1>8. TextKept'
  <2> SUFFICES ASSUME NEW z \in Variables, Owns(z)', onHeap(owned'[z])
               PROVE  heap'[owned'[z].address].text = owned'[z].text
    BY DEF TextKept, Owns
  <2>1. CASE z = x
    BY <2>1, <1>0 DEF TypesOK, elems_with_capacity
  <2>2. CASE z # x
    <3>1. owned'[z] = owned[z] /\ Owns(z)
      BY <2>2 DEF TypesOK, Owns
    <3>2. owned[z].address \in Addresses /\ owned[z].address # v.address
      BY <3>1, <1>3, OwnedIs
    <3> QED
      BY <3>1, <3>2, <1>5 DEF TextKept
  <2> QED
    BY <2>1, <2>2
<1>9. SendSafeAlone'
  <2> SUFFICES ASSUME NEW z \in Variables, Owns(z)', owned'[z].sendSafe, onHeap(owned'[z])
               PROVE  \/ references(owned[z].address)' = {z}
                      \/ heap'[owned'[z].address].rc >= 0
    BY DEF SendSafeAlone, Owns
  <2>1. CASE z = x
    BY <2>1, <1>4 DEF TypesOK
  <2>2. CASE z # x
    <3>1. owned'[z] = owned[z] /\ Owns(z)
      BY <2>2 DEF TypesOK, Owns
    <3>2. owned[z].address \in Addresses /\ owned[z].address # v.address
      BY <3>1, <1>3, OwnedIs
    <3> QED
      BY <3>1, <3>2, <1>5 DEF SendSafeAlone, Owns
  <2> QED
    BY <2>1, <2>2
<1> QED
  BY <1>0, <1>2, <1>5, <1>7, <1>8, <1>9 DEF ReadonlyKept

(* One shares the value of another.  If that was wrapped for another       *)
(* thread, it must be one that is never freed.                             *)
LEMMA CloneKeeps ==
  ASSUME MemoryInv, NEW x \in Variables, NEW y \in Variables, Owns(x), ~Owns(y),
         owned[x].sendSafe /\ onHeap(owned[x]) => heap[owned[x].address].rc >= 0,
         heap' = clone(heap, owned[x]), owned' = [owned EXCEPT ![y] = owned[x]]
  PROVE  MemoryInv' /\ ReadonlyKept
<1> USE DEF MemoryInv
<1>1. owned[x] \in Values
  BY OwnedIs
<1>2. CASE ~onHeap(owned[x])
  BY <1>1, <1>2, PlaceKeeps DEF clone
<1>3. CASE onHeap(owned[x])
  <2> DEFINE a == owned[x].address
  <2>1. a \in Addresses /\ x \in references(a) /\ heap[a] \in Allocation
    BY <1>3, OwnedIs
  <2>2. IsFiniteSet(references(a)) /\ y \notin references(a)
    BY FS_Subset, MemoryAssumption DEF references, Owns, MemoryAssumption
  <2>3. Counted(heap[a], references(a))
    BY <2>1, HeapCounted
  <2>4. references(a) # {}
    BY <2>1
  <2>5. /\ heap' = [heap EXCEPT ![a] = heap'[a]]
        /\ heap'[a] \in cloned(heap[a])
    BY <1>1, <1>3, <2>1 DEF clone, cloned, TypesOK, Values, Types
  <2>6. /\ heap'[a] \in Allocation /\ Counted(heap'[a], references(a) \cup {y})
        /\ heap'[a].live /\ heap'[a].text = heap[a].text
        /\ heap[a].rc >= 0 => heap'[a].rc >= 0
    <3>1. SharedBy(heap[a], references(a), y, heap'[a])
      BY <2>1, <2>2, <2>3, <2>4, <2>5, CountedClone
    <3> QED
      BY <3>1 DEF SharedBy
  <2>7. references(a)' = references(a) \cup {y}
    BY <2>1, <1>1, ValueIs DEF TypesOK, references, Owns
  <2>8. \A address \in Addresses \ {a} :
          references(address)' = references(address) /\ heap'[address] = heap[address]
    BY <2>1, <2>5 DEF TypesOK, references, Owns
  <2>9. TypesOK'
    BY <1>1, <2>5, <2>6 DEF TypesOK
  <2>10. ReferencesCounted'
    BY <2>6, <2>7, <2>8, HeapCounted, HeapCountedNext
  <2>11. TextKept'
    <3> SUFFICES ASSUME NEW z \in Variables, Owns(z)', onHeap(owned'[z])
                 PROVE  heap'[owned'[z].address].text = owned'[z].text
      BY DEF TextKept, Owns
    <3>1. \E w \in Variables : owned'[z] = owned[w] /\ Owns(w)
      BY DEF TypesOK, Owns
    <3>2. PICK w \in Variables : owned'[z] = owned[w] /\ Owns(w)
      BY <3>1
    <3>3. owned[w].address \in Addresses /\ heap[owned[w].address].text = owned[w].text
      BY <3>2, OwnedIs DEF TextKept
    <3> QED
      BY <3>2, <3>3, <2>6, <2>8
  <2>12. SendSafeAlone'
    <3> SUFFICES ASSUME NEW z \in Variables, Owns(z)', owned'[z].sendSafe, onHeap(owned'[z])
                 PROVE  \/ references(owned[z].address)' = {z}
                        \/ heap'[owned'[z].address].rc >= 0
      BY DEF SendSafeAlone, Owns
    <3>1. CASE z = y
      BY <3>1, <1>3, <2>6 DEF TypesOK
    <3>2. CASE z # y
      <4>1. owned'[z] = owned[z] /\ Owns(z)
        BY <3>2 DEF TypesOK, Owns
      <4>2. owned[z].address \in Addresses
        BY <4>1, OwnedIs
      <4>3. references(owned[z].address) = {z} \/ heap[owned[z].address].rc >= 0
        BY <4>1 DEF SendSafeAlone, Owns
      <4>4. CASE owned[z].address = a
        <5>1. references(a) = {z} => z = x
          BY <2>1
        <5> QED
          BY <4>1, <4>3, <4>4, <5>1, <2>6, <1>3
      <4>5. CASE owned[z].address # a
        BY <4>1, <4>2, <4>3, <4>5, <2>8
      <4> QED
        BY <4>4, <4>5
    <3> QED
      BY <3>1, <3>2
  <2> QED
    BY <2>1, <2>6, <2>8, <2>9, <2>10, <2>11, <2>12 DEF ReadonlyKept
<1> QED
  BY <1>2, <1>3
-----------------------------------------------------------------------------
(* A variable gives its value up, and may own a copy of it instead.        *)

(* What the value's allocation is after that.                              *)
LEMMA DecIs ==
  ASSUME MemoryInv, NEW x \in Variables, Owns(x), onHeap(owned[x]),
         NEW b \in deced(heap[owned[x].address])
  PROVE  GivenUpBy(heap[owned[x].address], references(owned[x].address), x, b)
<1> USE DEF MemoryInv
<1>1. /\ owned[x].address \in Addresses /\ x \in references(owned[x].address)
      /\ heap[owned[x].address] \in Allocation
  BY OwnedIs
<1>2. IsFiniteSet(references(owned[x].address))
  BY FS_Subset, MemoryAssumption DEF references, MemoryAssumption
<1>3. Counted(heap[owned[x].address], references(owned[x].address))
  BY <1>1, HeapCounted
<1> QED
  BY <1>1, <1>2, <1>3, CountedDec

LEMMA DropKeeps ==
  ASSUME MemoryInv, NEW x \in Variables, Drop(x)
  PROVE  MemoryInv' /\ ReadonlyKept
<1> USE DEF MemoryInv
<1>0. /\ Owns(x) /\ heap' = dec(heap, owned[x]) /\ owned' = [owned EXCEPT ![x] = NoValue]
  BY DEF Drop, Owns
<1>1. /\ ~Owns(x)' /\ \A z \in Variables \ {x} : owned'[z] = owned[z] /\ (Owns(z)' <=> Owns(z))
      /\ owned' \in [Variables -> Values \cup {NoValue}]
  BY <1>0 DEF TypesOK, Owns
<1>2. \A address \in Addresses : references(address)' = references(address) \ {x}
  BY <1>1 DEF references, Owns
<1>3. CASE ~onHeap(owned[x])
  <2>1. heap' = heap
    BY <1>0, <1>3 DEF dec
  <2>2. \A address \in Addresses : references(address)' = references(address)
    BY <1>0, <1>2, <1>3, MemoryAssumption DEF references, onHeap, MemoryAssumption
  <2>3. ReferencesCounted'
    BY <2>1, <2>2, HeapCounted, HeapCountedNext
  <2>4. TextKept'
    BY <2>1, <1>1 DEF TextKept, onHeap, Owns
  <2>5. SendSafeAlone'
    <3> SUFFICES ASSUME NEW z \in Variables, Owns(z)', owned'[z].sendSafe, onHeap(owned'[z])
                 PROVE  \/ references(owned[z].address)' = {z}
                        \/ heap'[owned'[z].address].rc >= 0
      BY DEF SendSafeAlone, Owns
    <3>1. z # x /\ owned'[z] = owned[z] /\ Owns(z)
      BY <1>1
    <3> QED
      BY <3>1, <2>1, <2>2, OwnedIs DEF SendSafeAlone, Owns
  <2> QED
    BY <1>1, <2>1, <2>3, <2>4, <2>5 DEF TypesOK, ReadonlyKept
<1>4. CASE onHeap(owned[x])
  <2> DEFINE a == owned[x].address
  <2>1. a \in Addresses /\ x \in references(a)
    BY <1>0, <1>4, OwnedIs
  <2>2. /\ heap' = [heap EXCEPT ![a] = heap'[a]]
        /\ heap'[a] \in deced(heap[a])
    BY <1>0, <1>4, <2>1, OwnedIs DEF dec, deced, TypesOK, Values, Types
  <2>3. /\ heap'[a] \in Allocation /\ Counted(heap'[a], references(a) \ {x})
        /\ references(a) # {x} => heap'[a].live /\ heap'[a].text = heap[a].text
        /\ heap[a].rc >= 0 => heap'[a].live /\ heap'[a].rc >= 0 /\ heap'[a].text = heap[a].text
    BY <1>0, <1>4, <2>2, DecIs DEF GivenUpBy
  <2>4. \A address \in Addresses \ {a} :
          references(address)' = references(address) /\ heap'[address] = heap[address]
    BY <1>2, <2>2 DEF TypesOK, references
  <2>5. TypesOK'
    BY <1>1, <2>2, <2>3 DEF TypesOK
  <2>6. ReferencesCounted'
    BY <1>2, <2>1, <2>3, <2>4, HeapCounted, HeapCountedNext
  <2>7. TextKept'
    <3> SUFFICES ASSUME NEW z \in Variables, Owns(z)', onHeap(owned'[z])
                 PROVE  heap'[owned'[z].address].text = owned'[z].text
      BY DEF TextKept, Owns
    <3>1. z # x /\ owned'[z] = owned[z] /\ Owns(z)
      BY <1>1
    <3>2. /\ owned[z].address \in Addresses /\ z \in references(owned[z].address)
          /\ heap[owned[z].address].text = owned[z].text
      BY <3>1, OwnedIs DEF TextKept
    <3> QED
      BY <3>1, <3>2, <2>3, <2>4
  <2>8. SendSafeAlone'
    <3> SUFFICES ASSUME NEW z \in Variables, Owns(z)', owned'[z].sendSafe, onHeap(owned'[z])
                 PROVE  \/ references(owned[z].address)' = {z}
                        \/ heap'[owned'[z].address].rc >= 0
      BY DEF SendSafeAlone, Owns
    <3>1. z # x /\ owned'[z] = owned[z] /\ Owns(z)
      BY <1>1
    <3>2. /\ owned[z].address \in Addresses
          /\ references(owned[z].address) = {z} \/ heap[owned[z].address].rc >= 0
      BY <3>1, OwnedIs DEF SendSafeAlone, Owns
    <3> QED
      BY <3>1, <3>2, <1>2, <2>1, <2>3, <2>4
  <2> QED
    BY <2>1, <2>3, <2>4, <2>5, <2>6, <2>7, <2>8 DEF ReadonlyKept
<1> QED
  BY <1>3, <1>4

(* A value that is shared is copied, and given up.                         *)
LEMMA CopyKeeps ==
  ASSUME MemoryInv, NEW x \in Variables, Owns(x), onHeap(owned[x]),
         NEW v \in Values, v.address \in unused, v.text = owned[x].text,
         NEW a, a = [live |-> TRUE, rc |-> REFCOUNT_1, text |-> v.text],
         NEW b \in deced(heap[owned[x].address]),
         heap' = [heap EXCEPT ![v.address] = a, ![owned[x].address] = b],
         owned' = [owned EXCEPT ![x] = v]
  PROVE  MemoryInv' /\ ReadonlyKept
<1> USE DEF MemoryInv
<1> DEFINE old == owned[x].address
           new == v.address
<1>1. old \in Addresses /\ x \in references(old) /\ heap[old] \in Allocation
  BY OwnedIs
<1>2. new \in Addresses /\ ~heap[new].live /\ references(new) = {}
  BY HeapCounted DEF unused, Counted
<1>3. new # old /\ v # NoValue
  BY <1>1, <1>2, ValueIs
<1>4. /\ owned'[x] = v /\ Owns(x)'
      /\ \A z \in Variables \ {x} : owned'[z] = owned[z] /\ (Owns(z)' <=> Owns(z))
  BY <1>3 DEF TypesOK, Owns
<1>5. /\ heap'[new] = a /\ heap'[old] = b
      /\ \A address \in Addresses \ {old, new} : heap'[address] = heap[address]
  BY <1>1, <1>2, <1>3 DEF TypesOK
<1>6. /\ a \in Allocation /\ a.live /\ a.text = v.text /\ a.rc = REFCOUNT_1
      /\ REFCOUNT_1 \in Int
  BY ValueIs, MemoryAssumption DEF Allocation, REFCOUNT_1, MemoryAssumption
<1>7. Counted(a, {x})
  <2>1. Cardinality({x}) = 1
    BY FS_Singleton
  <2> QED
    BY <1>6, <2>1 DEF Counted
<1>8. GivenUpBy(heap[old], references(old), x, b)
  BY DecIs
<1>9. references(new)' = {x}
  BY <1>2, <1>4 DEF references, Owns
<1>10. \A address \in Addresses \ {new} : references(address)' = references(address) \ {x}
  BY <1>4 DEF references, Owns
<1>11. \A address \in Addresses \ {old, new} : references(address)' = references(address)
  BY <1>10 DEF references
<1>12. Counted(heap'[new], references(new)')
  BY <1>5, <1>7, <1>9
<1>13. ASSUME NEW address \in Addresses \ {new}, address = old
       PROVE  Counted(heap'[address], references(address)')
  BY <1>5, <1>8, <1>10, <1>13 DEF GivenUpBy
<1>14. ASSUME NEW address \in Addresses \ {old, new}
       PROVE  Counted(heap'[address], references(address)')
  BY <1>5, <1>11, HeapCounted
<1>15. ReferencesCounted'
  <2>1. \A address \in Addresses : Counted(heap'[address], references(address)')
    BY <1>12, <1>13, <1>14
  <2> QED
    BY <2>1, HeapCountedNext
<1>16. TypesOK'
  BY <1>6, <1>8 DEF TypesOK, GivenUpBy
<1>17. TextKept'
  <2> SUFFICES ASSUME NEW z \in Variables, Owns(z)', onHeap(owned'[z])
               PROVE  heap'[owned'[z].address].text = owned'[z].text
    BY DEF TextKept, Owns
  <2>1. CASE z = x
    BY <2>1, <1>4, <1>5, <1>6
  <2>2. CASE z # x
    <3>1. owned'[z] = owned[z] /\ Owns(z)
      BY <2>2, <1>4
    <3>2. /\ owned[z].address \in Addresses /\ z \in references(owned[z].address)
          /\ heap[owned[z].address].text = owned[z].text
      BY <3>1, OwnedIs DEF TextKept
    <3>3. owned[z].address # new
      BY <3>2, <1>2
    <3>4. CASE owned[z].address = old
      <4>1. b.text = heap[old].text
        BY <3>2, <3>4, <2>2, <1>8 DEF GivenUpBy
      <4> QED
        BY <4>1, <3>1, <3>2, <3>4, <1>5
    <3>5. CASE owned[z].address # old
      BY <3>1, <3>2, <3>3, <3>5, <1>5
    <3> QED
      BY <3>4, <3>5
  <2> QED
    BY <2>1, <2>2
<1>18. SendSafeAlone'
  <2> SUFFICES ASSUME NEW z \in Variables, Owns(z)', owned'[z].sendSafe, onHeap(owned'[z])
               PROVE  \/ references(owned[z].address)' = {z}
                      \/ heap'[owned'[z].address].rc >= 0
    BY DEF SendSafeAlone, Owns
  <2>1. CASE z = x
    BY <2>1, <1>4, <1>9
  <2>2. CASE z # x
    <3>1. owned'[z] = owned[z] /\ Owns(z)
      BY <2>2, <1>4
    <3>2. /\ owned[z].address \in Addresses /\ z \in references(owned[z].address)
          /\ references(owned[z].address) = {z} \/ heap[owned[z].address].rc >= 0
      BY <3>1, OwnedIs DEF SendSafeAlone, Owns
    <3>3. owned[z].address # new
      BY <3>2, <1>2
    <3>4. CASE owned[z].address = old
      <4>1. heap[old].rc >= 0
        BY <3>2, <3>4, <2>2, <1>1
      <4> QED
        BY <4>1, <3>1, <3>4, <1>5, <1>8 DEF GivenUpBy
    <3>5. CASE owned[z].address # old
      BY <3>1, <3>2, <3>3, <3>5, <1>5, <1>11
    <3> QED
      BY <3>4, <3>5
  <2> QED
    BY <2>1, <2>2
<1>19. ReadonlyKept
  BY <1>2, <1>5, <1>8 DEF ReadonlyKept, GivenUpBy
<1> QED
  BY <1>15, <1>16, <1>17, <1>18, <1>19
-----------------------------------------------------------------------------
(* What is done to a value where it is.                                    *)

(* It is wrapped or unwrapped, in a result or for another thread.          *)
LEMMA RetagKeeps ==
  ASSUME MemoryInv, NEW x \in Variables, Owns(x), UNCHANGED heap, NEW v \in Values,
         v.address = owned[x].address, v.text = owned[x].text,
         v.sendSafe /\ onHeap(v) =>
           \/ owned[x].sendSafe
           \/ references(v.address) = {x} \/ heap[v.address].rc >= 0,
         owned' = [owned EXCEPT ![x] = v]
  PROVE  MemoryInv' /\ ReadonlyKept
<1> USE DEF MemoryInv
<1>1. /\ owned'[x] = v /\ Owns(x)'
      /\ \A z \in Variables \ {x} : owned'[z] = owned[z] /\ (Owns(z)' <=> Owns(z))
  BY ValueIs DEF TypesOK, Owns
<1>2. \A address \in Addresses : references(address)' = references(address)
  BY <1>1 DEF references, Owns
<1>3. TypesOK'
  BY DEF TypesOK
<1>4. ReferencesCounted'
  BY <1>2, HeapCounted, HeapCountedNext
<1>5. TextKept'
  BY <1>1 DEF TextKept, Owns, onHeap
<1>6. SendSafeAlone'
  <2> SUFFICES ASSUME NEW z \in Variables, Owns(z)', owned'[z].sendSafe, onHeap(owned'[z])
               PROVE  \/ references(owned[z].address)' = {z}
                      \/ heap'[owned'[z].address].rc >= 0
    BY DEF SendSafeAlone, Owns
  <2>1. Owns(z) /\ onHeap(owned[z]) /\ owned'[z].address = owned[z].address
    BY <1>1 DEF onHeap
  <2>2. owned[z].address \in Addresses
    BY <2>1, OwnedIs
  <2>3. references(owned[z].address) = {z} \/ heap[owned[z].address].rc >= 0
    BY <1>1, <2>1 DEF SendSafeAlone, Owns
  <2> QED
    BY <1>2, <2>1, <2>2, <2>3
<1> QED
  BY <1>3, <1>4, <1>5, <1>6 DEF ReadonlyKept

LEMMA ReadonlyKeeps ==
  ASSUME MemoryInv, NEW x \in Variables, set_readonly(x)
  PROVE  MemoryInv' /\ ReadonlyKept
<1> USE DEF MemoryInv
<1> DEFINE a == owned[x].address
<1>1. Owns(x) /\ onHeap(owned[x]) /\ heap' = [heap EXCEPT ![a].rc = 0] /\ owned' = owned
  BY DEF set_readonly, Owns
<1>2. a \in Addresses /\ x \in references(a) /\ heap[a] \in Allocation
  BY <1>1, OwnedIs
<1>3. heap[a].live
  BY <1>2, HeapCounted DEF Counted
<1>4. /\ heap'[a] \in Allocation /\ heap'[a].live /\ heap'[a].rc = 0
      /\ heap'[a].text = heap[a].text
  BY <1>1, <1>2, <1>3 DEF TypesOK, Allocation
<1>5. \A address \in Addresses \ {a} : heap'[address] = heap[address]
  BY <1>1 DEF TypesOK
<1>6. \A address : references(address)' = references(address)
  BY <1>1 DEF references
<1>7. TypesOK'
  BY <1>1, <1>4 DEF TypesOK
<1>8. ReferencesCounted'
  BY <1>4, <1>5, <1>6, HeapCounted, HeapCountedNext DEF Counted
<1>9. TextKept'
  BY <1>1, <1>4, <1>5, OwnedIs DEF TextKept, Owns
<1>10. SendSafeAlone'
  BY <1>1, <1>4, <1>5, <1>6, OwnedIs DEF SendSafeAlone, Owns
<1> QED
  BY <1>2, <1>4, <1>5, <1>7, <1>8, <1>9, <1>10 DEF ReadonlyKept
-----------------------------------------------------------------------------
(* The operations.                                                         *)

LEMMA MadeKeeps ==
  ASSUME MemoryInv, NEW x \in Variables, NEW type \in Types, NEW text \in Texts, ~Owns(x),
         inPlace(x, type, text) \/ allocated(x, type, text)
  PROVE  MemoryInv' /\ ReadonlyKept
<1>1. \A address \in Addresses \cup {Nothing} :
        /\ value(type, address, text) \in Values
        /\ value(type, address, text).address = address
        /\ value(type, address, text).text = text
  BY DEF value, Values
<1>2. CASE inPlace(x, type, text)
  <2>1. value(type, Nothing, text) \in Values /\ ~onHeap(value(type, Nothing, text))
    BY <1>1 DEF onHeap
  <2> QED
    BY <1>2, <2>1, PlaceKeeps DEF inPlace
<1>3. CASE allocated(x, type, text)
  <2>1. PICK address \in unused :
          /\ heap' = elems_with_capacity(heap, address, text)
          /\ owned' = [owned EXCEPT ![x] = value(type, address, text)]
    BY <1>3 DEF allocated
  <2> DEFINE v == value(type, address, text)
  <2>2. v \in Values /\ v.address = address /\ v.text = text
    BY <1>1 DEF unused
  <2>3. /\ v.address \in unused /\ heap' = elems_with_capacity(heap, v.address, v.text)
        /\ owned' = [owned EXCEPT ![x] = v]
    BY <2>1, <2>2
  <2> HIDE DEF v
  <2> QED
    BY <2>2, <2>3, AllocKeeps
<1> QED
  BY <1>2, <1>3

(* A unique value has no other reference.                                  *)
LEMMA UniqueAlone ==
  ASSUME MemoryInv, NEW x \in Variables, Owns(x), onHeap(owned[x]),
         sendable(heap, owned[x])
  PROVE  references(owned[x].address) = {x} \/ heap[owned[x].address].rc >= 0
<1> USE DEF MemoryInv
<1>1. /\ owned[x].address \in Addresses /\ x \in references(owned[x].address)
      /\ heap[owned[x].address] \in Allocation
  BY OwnedIs
<1>2. IsFiniteSet(references(owned[x].address))
  BY FS_Subset, MemoryAssumption DEF references, MemoryAssumption
<1>3. Counted(heap[owned[x].address], references(owned[x].address))
  BY <1>1, HeapCounted
<1>4. SUFFICES ASSUME heap[owned[x].address].rc = REFCOUNT_1
               PROVE  references(owned[x].address) = {x}
  BY DEF sendable, is_unique, is_readonly
<1>5. Cardinality(references(owned[x].address)) = 1
  <2>1. Cardinality(references(owned[x].address)) \in Nat /\ MaxRefs \in Nat \ {0}
    BY <1>2, FS_CardinalityType, MemoryAssumption DEF MemoryAssumption
  <2> QED
    BY <1>1, <1>3, <1>4, <2>1 DEF Counted, REFCOUNT_1
<1>6. PICK z : references(owned[x].address) = {z}
  BY <1>2, <1>5, FS_Singleton
<1> QED
  BY <1>1, <1>6

LEMMA SendSafeKeeps ==
  ASSUME MemoryInv, NEW x \in Variables, SendSafe(x)
  PROVE  MemoryInv' /\ ReadonlyKept
<1>0. Owns(x) /\ owned[x] \in Values
  BY OwnedIs DEF SendSafe, Owns, MemoryInv
<1>1. CASE /\ sendable(heap, owned[x])
           /\ owned' = [owned EXCEPT ![x].sendSafe = TRUE] /\ UNCHANGED heap
  <2> DEFINE v == [owned[x] EXCEPT !.sendSafe = TRUE]
  <2>1. v \in Values /\ v.address = owned[x].address /\ v.text = owned[x].text
    BY <1>0 DEF Values
  <2>2. owned' = [owned EXCEPT ![x] = v]
    BY <1>1
  <2>3. onHeap(v) => references(v.address) = {x} \/ heap[v.address].rc >= 0
    BY <1>0, <1>1, <2>1, UniqueAlone DEF onHeap
  <2> HIDE DEF v
  <2> QED
    BY <1>0, <1>1, <2>1, <2>2, <2>3, RetagKeeps
<1>2. ASSUME ~sendable(heap, owned[x]), NEW address \in unused,
             heap' = dec(elems_with_capacity(heap, address, contents(heap, owned[x])), owned[x]),
             owned' = [owned EXCEPT ![x].sendSafe = TRUE, ![x].address = address]
      PROVE  MemoryInv' /\ ReadonlyKept
  <2> DEFINE old == owned[x].address
             v == [owned[x] EXCEPT !.sendSafe = TRUE, !.address = address]
             a == [live |-> TRUE, rc |-> REFCOUNT_1, text |-> v.text]
  <2>1. onHeap(owned[x]) /\ old \in Addresses /\ heap[old] \in Allocation
    BY <1>0, <1>2, OwnedIs DEF sendable, MemoryInv
  <2>2. address \in Addresses /\ old # address
    BY <1>0, <2>1, OwnedIs, HeapCounted DEF unused, Counted, MemoryInv
  <2>3. v \in Values /\ v.address = address /\ v.text = owned[x].text
    BY <1>0, <2>2 DEF Values
  <2>4. owned' = [owned EXCEPT ![x] = v]
    BY <1>2
  <2>5. contents(heap, owned[x]) = v.text
    BY <1>0, <2>1, <2>3 DEF contents, TextKept, MemoryInv
  <2>6. heap' = dec([heap EXCEPT ![address] = a], owned[x])
    BY <1>2, <2>5 DEF elems_with_capacity
  <2> HIDE DEF a, v
  <2>7. \E b \in deced(heap[old]) : heap' = [heap EXCEPT ![address] = a, ![old] = b]
    BY <1>0, <2>1, <2>2, <2>6 DEF dec, deced, TypesOK, MemoryInv, Values, Types
  <2>8. PICK b \in deced(heap[old]) : heap' = [heap EXCEPT ![address] = a, ![old] = b]
    BY <2>7
  <2>9. a = [live |-> TRUE, rc |-> REFCOUNT_1, text |-> v.text]
    BY DEF a
  <2>10. /\ v.address \in unused
         /\ heap' = [heap EXCEPT ![v.address] = a, ![owned[x].address] = b]
    BY <1>2, <2>3, <2>8
  <2> QED
    BY <1>0, <2>1, <2>3, <2>4, <2>9, <2>10, CopyKeeps
<1> QED
  BY <1>1, <1>2 DEF SendSafe

LEMMA SendSafeCloneKeeps ==
  ASSUME MemoryInv, NEW x \in Variables, NEW y \in Variables, SendSafeClone(x, y)
  PROVE  MemoryInv' /\ ReadonlyKept
<1>0. Owns(x) /\ ~Owns(y) /\ owned[x] \in Values
  BY OwnedIs DEF SendSafeClone, Owns, MemoryInv
<1>1. CASE /\ onHeap(owned[x]) => is_readonly(heap[owned[x].address].rc)
           /\ heap' = clone(heap, owned[x])
           /\ owned' = [owned EXCEPT ![y] = owned[x]]
  <2>1. onHeap(owned[x]) => heap[owned[x].address].rc >= 0
    BY <1>1 DEF is_readonly
  <2> QED
    BY <1>0, <1>1, <2>1, CloneKeeps
<1>2. ASSUME onHeap(owned[x]), NEW address \in unused,
             heap' = elems_with_capacity(heap, address, contents(heap, owned[x])),
             owned' = [owned EXCEPT ![y] = [owned[x] EXCEPT !.address = address]]
      PROVE  MemoryInv' /\ ReadonlyKept
  <2> DEFINE v == [owned[x] EXCEPT !.address = address]
  <2>1. v \in Values /\ v.address = address /\ v.text = owned[x].text
    BY <1>0 DEF Values, unused
  <2>2. contents(heap, owned[x]) = v.text
    BY <1>0, <1>2, <2>1 DEF contents, TextKept, MemoryInv
  <2>3. /\ v.address \in unused /\ heap' = elems_with_capacity(heap, v.address, v.text)
        /\ owned' = [owned EXCEPT ![y] = v]
    BY <1>2, <2>1, <2>2
  <2> HIDE DEF v
  <2> QED
    BY <1>0, <2>1, <2>3, AllocKeeps
<1> QED
  BY <1>1, <1>2 DEF SendSafeClone

LEMMA WrapKeeps ==
  ASSUME MemoryInv, NEW x \in Variables,
         \/ Unwrap(x) \/ into_payload(x)
         \/ RocResult(x, "RocOk") \/ RocResult(x, "RocErr")
  PROVE  MemoryInv' /\ ReadonlyKept
<1>1. Owns(x) /\ owned[x] \in Values /\ UNCHANGED heap
  BY OwnedIs DEF Unwrap, into_payload, RocResult, Owns, MemoryInv
<1>2. PICK v \in {[owned[x] EXCEPT !.sendSafe = FALSE], [owned[x] EXCEPT !.tag = "none"],
                  [owned[x] EXCEPT !.tag = "RocOk"], [owned[x] EXCEPT !.tag = "RocErr"]} :
        owned' = [owned EXCEPT ![x] = v]
  BY <1>1 DEF Unwrap, into_payload, RocResult
<1>3. /\ v \in Values /\ v.address = owned[x].address /\ v.text = owned[x].text
      /\ v.sendSafe => owned[x].sendSafe
  BY <1>1 DEF Values
<1> QED
  BY <1>1, <1>2, <1>3, RetagKeeps
-----------------------------------------------------------------------------
(* The specification.                                                      *)

LEMMA MemoryInit == Init => MemoryInv
<1> SUFFICES ASSUME Init PROVE MemoryInv
  OBVIOUS
<1>1. \A x \in Variables : ~Owns(x)
  BY DEF Init, Owns
<1>2. free \in Allocation /\ ~free.live
  BY DEF free, Allocation
<1>3. TypesOK
  BY <1>2 DEF Init, TypesOK
<1>4. \A address \in Addresses : references(address) = {} /\ ~heap[address].live
  BY <1>1, <1>2 DEF Init, references, Owns
<1> QED
  BY <1>1, <1>3, <1>4 DEF MemoryInv, ReferencesCounted, TextKept, SendSafeAlone, Owns

LEMMA MemoryStep == MemoryInv /\ [Next]_vars => MemoryInv' /\ ReadonlyKept
<1> SUFFICES ASSUME MemoryInv, [Next]_vars PROVE MemoryInv' /\ ReadonlyKept
  OBVIOUS
<1>1. ASSUME NEW x \in Variables, NEW text \in Texts,
             RocStr_from(x, text) \/ RocList_from_slice(x, text) \/ RocBox_new(x, text)
      PROVE  MemoryInv' /\ ReadonlyKept
  <2>1. ~Owns(x)
    BY <1>1 DEF RocStr_from, RocList_from_slice, RocBox_new, Owns
  <2>2. \E type \in Types : inPlace(x, type, text) \/ allocated(x, type, text)
    BY <1>1 DEF RocStr_from, RocList_from_slice, RocBox_new, Types
  <2> QED
    BY <2>1, <2>2, MadeKeeps
<1>2. ASSUME NEW x \in Variables, NEW y \in Variables, Clone(x, y)
      PROVE  MemoryInv' /\ ReadonlyKept
  BY <1>2, CloneKeeps DEF Clone, Owns
<1>3. ASSUME NEW x \in Variables, NEW y \in Variables, SendSafeClone(x, y)
      PROVE  MemoryInv' /\ ReadonlyKept
  BY <1>3, SendSafeCloneKeeps
<1>4. ASSUME NEW x \in Variables, Drop(x)
      PROVE  MemoryInv' /\ ReadonlyKept
  BY <1>4, DropKeeps
<1>5. ASSUME NEW x \in Variables, set_readonly(x)
      PROVE  MemoryInv' /\ ReadonlyKept
  BY <1>5, ReadonlyKeeps
<1>6. ASSUME NEW x \in Variables, SendSafe(x)
      PROVE  MemoryInv' /\ ReadonlyKept
  BY <1>6, SendSafeKeeps
<1>7. ASSUME NEW x \in Variables,
             \/ Unwrap(x) \/ into_payload(x)
             \/ RocResult(x, "RocOk") \/ RocResult(x, "RocErr")
      PROVE  MemoryInv' /\ ReadonlyKept
  BY <1>7, WrapKeeps
<1>8. CASE UNCHANGED vars
  BY <1>8 DEF vars, MemoryInv, TypesOK, ReferencesCounted, TextKept, SendSafeAlone,
              ReadonlyKept, references, Owns
<1> QED
  BY <1>1, <1>2, <1>3, <1>4, <1>5, <1>6, <1>7, <1>8 DEF Next

LEMMA MemoryInvariant == Spec => []MemoryInv
<1>1. Init => MemoryInv
  BY MemoryInit
<1>2. MemoryInv /\ [Next]_vars => MemoryInv'
  BY MemoryStep
<1> QED
  BY <1>1, <1>2, PTL DEF Spec

(* Nothing is freed while it is referred to, and nothing is leaked that    *)
(* can still be counted, however many variables share it.                  *)
THEOREM CountsReferences == Spec => []ReferencesCounted
<1>1. MemoryInv => ReferencesCounted
  BY DEF MemoryInv
<1> QED
  BY <1>1, MemoryInvariant, PTL

(* What may be sent to another thread is not shared with this one.         *)
THEOREM SendsAlone == Spec => []SendSafeAlone
<1>1. MemoryInv => SendSafeAlone
  BY DEF MemoryInv
<1> QED
  BY <1>1, MemoryInvariant, PTL

(* What is read-only is never freed, nor counted again.                    *)
THEOREM KeepsReadonly == Spec => StaysReadonly
<1>1. MemoryInv /\ [Next]_vars => [ReadonlyKept]_vars
  BY MemoryStep
<1> QED
  BY <1>1, MemoryInvariant, PTL DEF Spec, StaysReadonly, ReadonlyKept
-----------------------------------------------------------------------------
(* Values of their own.                                                    *)

read == [x \in Variables |-> IF owned[x] = NoValue THEN Nothing ELSE contents(heap, owned[x])]

(* What a variable reads is what its value was made from.                  *)
LEMMA ReadIs ==
  ASSUME MemoryInv
  PROVE  read = [x \in Variables |-> IF Owns(x) THEN owned[x].text ELSE Nothing]
BY DEF read, contents, MemoryInv, TextKept, Owns

LEMMA ReadIsNext ==
  ASSUME MemoryInv'
  PROVE  read' = [x \in Variables |-> IF Owns(x)' THEN owned'[x].text ELSE Nothing]
BY DEF read, contents, onHeap, MemoryInv, TextKept, Owns

(* A step changes what one variable reads at most.                         *)
LEMMA ReadStep ==
  ASSUME MemoryInv, MemoryInv', [Next]_vars
  PROVE  [RocValues!Next]_read
<1>1. \A x \in Variables : Owns(x) => owned[x].text \in Texts /\ owned[x].text # Nothing
  BY OwnedIs, ValueIs, MemoryAssumption DEF MemoryInv, MemoryAssumption
<1>2. ASSUME NEW x \in Variables, NEW text \in Texts,
             RocStr_from(x, text) \/ RocList_from_slice(x, text) \/ RocBox_new(x, text)
      PROVE  RocValues!Create
  <2>1. \E type \in Types, address \in Addresses \cup {Nothing} :
          owned' = [owned EXCEPT ![x] = value(type, address, text)]
    BY <1>2 DEF RocStr_from, RocList_from_slice, RocBox_new, inPlace, allocated, unused, Types
  <2>2. PICK v \in Values : v.text = text /\ owned' = [owned EXCEPT ![x] = v]
    BY <2>1 DEF value, Values
  <2>3. ~Owns(x)
    BY <1>2 DEF RocStr_from, RocList_from_slice, RocBox_new, Owns
  <2>4. read[x] = Nothing /\ read' = [read EXCEPT ![x] = text]
    BY <2>2, <2>3, ReadIs, ReadIsNext, ValueIs DEF MemoryInv, TypesOK, Owns
  <2> QED
    BY <2>4 DEF RocValues!Create, read
<1>3. ASSUME NEW x \in Variables, NEW y \in Variables, Clone(x, y) \/ SendSafeClone(x, y)
      PROVE  RocValues!Copy
  <2>1. PICK v \in Values : v.text = owned[x].text /\ owned' = [owned EXCEPT ![y] = v]
    <3>1. Owns(x) /\ owned[x] \in Values
      BY <1>3, OwnedIs DEF Clone, SendSafeClone, Owns, MemoryInv
    <3>2. \E v \in {owned[x]} \cup {[owned[x] EXCEPT !.address = address] : address \in unused} :
            owned' = [owned EXCEPT ![y] = v]
      BY <1>3 DEF Clone, SendSafeClone
    <3> QED
      BY <3>1, <3>2 DEF Values, unused
  <2>2. Owns(x) /\ ~Owns(y)
    BY <1>3 DEF Clone, SendSafeClone, Owns
  <2>3. /\ read[x] # Nothing /\ read[y] = Nothing
        /\ read' = [read EXCEPT ![y] = read[x]]
    BY <1>1, <2>1, <2>2, ReadIs, ReadIsNext, ValueIs DEF MemoryInv, TypesOK, Owns
  <2> QED
    BY <2>3 DEF RocValues!Copy, read
<1>4. ASSUME NEW x \in Variables, Drop(x)
      PROVE  RocValues!Drop
  <2>1. Owns(x) /\ owned' = [owned EXCEPT ![x] = NoValue]
    BY <1>4 DEF Drop, Owns
  <2>2. read[x] # Nothing /\ read' = [read EXCEPT ![x] = Nothing]
    BY <1>1, <2>1, ReadIs, ReadIsNext DEF MemoryInv, TypesOK, Owns
  <2> QED
    BY <2>2 DEF RocValues!Drop, read
<1>5. ASSUME NEW x \in Variables,
             \/ set_readonly(x) \/ SendSafe(x) \/ Unwrap(x) \/ into_payload(x)
             \/ RocResult(x, "RocOk") \/ RocResult(x, "RocErr")
      PROVE  read' = read
  <2>1. Owns(x) /\ owned[x] \in Values
    BY <1>5, OwnedIs DEF set_readonly, SendSafe, Unwrap, into_payload, RocResult, Owns, MemoryInv
  <2>2. PICK v : owned' = [owned EXCEPT ![x] = v] /\ v \in Values /\ v.text = owned[x].text
    <3>1. CASE set_readonly(x)
      BY <2>1, <3>1 DEF set_readonly, MemoryInv, TypesOK
    <3>2. CASE SendSafe(x)
      <4> DEFINE sent == [owned[x] EXCEPT !.sendSafe = TRUE]
      <4>1. sent \in Values /\ sent.text = owned[x].text
        BY <2>1 DEF Values
      <4>2. CASE owned' = [owned EXCEPT ![x].sendSafe = TRUE]
        <5>1. owned' = [owned EXCEPT ![x] = sent]
          BY <4>2
        <5> QED
          BY <4>1, <5>1
      <4>3. ASSUME NEW address \in unused,
                   owned' = [owned EXCEPT ![x].sendSafe = TRUE, ![x].address = address]
            PROVE  \E v \in Values :
                     owned' = [owned EXCEPT ![x] = v] /\ v.text = owned[x].text
        <5> DEFINE copy == [sent EXCEPT !.address = address]
        <5>1. owned' = [owned EXCEPT ![x] = copy]
          BY <4>3
        <5>2. copy \in Values /\ copy.text = owned[x].text
          BY <2>1, <4>3 DEF Values, unused
        <5> QED
          BY <5>1, <5>2
      <4> QED
        BY <3>2, <4>2, <4>3 DEF SendSafe
    <3>3. CASE \/ Unwrap(x) \/ into_payload(x)
               \/ RocResult(x, "RocOk") \/ RocResult(x, "RocErr")
      BY <2>1, <3>3 DEF Unwrap, into_payload, RocResult, Values
    <3> QED
      BY <1>5, <3>1, <3>2, <3>3
  <2> QED
    BY <2>1, <2>2, ReadIs, ReadIsNext, ValueIs DEF MemoryInv, TypesOK, Owns
<1>6. CASE UNCHANGED vars
  BY <1>6 DEF vars, read, contents, onHeap
<1> QED
  BY <1>2, <1>3, <1>4, <1>5, <1>6 DEF Next, RocValues!Next

(* Whatever is shared, every variable has a value of its own.              *)
THEOREM ImplementsValues == Spec => ValuesKept
<1>1. Init => RocValues!Init
  BY DEF Init, RocValues!Init
<1>2. MemoryInv /\ MemoryInv' /\ [Next]_vars => [RocValues!Next]_read
  BY ReadStep
<1> QED
  BY <1>1, <1>2, MemoryInvariant, PTL DEF Spec, ValuesKept, RocValues!Spec, read
=============================================================================
