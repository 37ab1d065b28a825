---------------------------- MODULE StorageProofs ---------------------------
(***************************************************************************)
(* Proofs about Storage for every number of threads, values, keys,         *)
(* properties and structs, and every assignment of locks to them.          *)
(***************************************************************************)
EXTENDS Storage, FiniteSetTheorems, TLAPS

----------------------------------------------------------------------------
(* The inductive invariant.                                                *)

AssociationPCs == {"set", "get", "retainReturned"}
PropertyPCs == {"getProperty", "retainProperty", "compare", "swap", "store"}
StructPCs == {"lockTwo", "lockSecond", "memmove"}
GetterPCs == {"get", "retainReturned", "getProperty", "retainProperty"}
DeallocPCs == {"cxxDestruct", "remove", "releaseRefs", "free"}
PCs == AssociationPCs \cup PropertyPCs \cup StructPCs \cup DeallocPCs
         \cup {"idle", "setHasAssociatedObjects", "release", "return", "sameValue", "hasAssociatedObjects",
               "nothingToRemove"}

AllPolicies == {"assign", "retain_nonatomic", "copy_nonatomic", "retain", "copy", "system"}
ObjcAssociation == [value : Values \cup {nil}, policy : AllPolicies]
Call ==
  [pc : PCs, cell : Keys \cup Slots \cup Structs \cup {nil}, a : ObjcAssociation, old : Values \cup {nil},
   assoc : BOOLEAN, refs : SUBSET [key : Keys, a : ObjcAssociation], src : Structs \cup {nil}]

\* Every variable has its type.
TypeOK ==
  /\ count \in [Values -> Int] /\ held \in [Threads -> [Values -> 0..MaxHeld]]
  /\ th \in [Threads -> Call] /\ object \in {"alive", "deallocating", "free"}
  /\ refs \in [Keys -> ObjcAssociation] /\ has_assoc \in BOOLEAN
  /\ slot \in [Slots -> Values \cup {nil}] /\ atomic \in SUBSET Slots

\* What the locals of a call mean.
LocalsInv ==
  \A t \in Threads :
    /\ th[t].pc \in AssociationPCs => th[t].cell \in Keys
    /\ th[t].pc \in PropertyPCs => th[t].cell \in Slots
    /\ th[t].pc \in StructPCs => th[t].cell \in Structs /\ th[t].src \in Structs
    /\ th[t].pc \notin StructPCs => th[t].src = nil
    /\ th[t].pc = "retainProperty" => th[t].cell \in atomic
    /\ th[t].pc \in {"compare", "swap", "store"} => th[t].a = Property(th[t].a.value)
    /\ th[t].pc \in GetterPCs => Room(t)
    /\ th[t].pc # "releaseRefs" => th[t].refs = {}
    /\ \A r, s \in th[t].refs : r.key = s.key => r = s

\* What a call has read is still there while it is inside of the lock.
ReadInv ==
  \A t \in Threads :
    /\ th[t].pc = "retainReturned" => th[t].a = refs[th[t].cell] /\ Setter(th[t].a)
    /\ th[t].pc = "retainProperty" => th[t].a = Property(slot[th[t].cell])
    /\ th[t].pc = "store" => th[t].old = slot[th[t].cell]

\* One thread at a time uses a property that is not atomic.
UsableInv ==
  \A t, u \in Threads : t # u /\ th[t].cell \in Slots \ atomic => th[u].cell # th[t].cell

\* One thread at a time holds a lock of PropertyLocks, or one of StructLocks.
PropertyLockInv ==
  \A t, u \in Threads :
    t # u /\ th[t].pc \in Inside /\ th[u].pc \in Inside /\ th[t].cell \in atomic /\ th[u].cell \in atomic =>
      StripeOf[th[t].cell] # StripeOf[th[u].cell]
StructLockInv == \A t, u \in Threads : t # u => StructHeld(t) \cap StructHeld(u) = {}

\* Only one thread is left with the object when it is deallocated.
PhaseInv ==
  /\ \A t \in Threads :
       /\ th[t].pc \in {"cxxDestruct", "free"} => object = "deallocating"
       /\ object = "deallocating" => th[t].pc \in {"idle"} \cup StructPCs \cup DeallocPCs
       /\ object = "free" => th[t].pc \in {"idle"} \cup StructPCs
  /\ object = "deallocating" => \A t, u \in Threads : th[t].pc \in DeallocPCs /\ th[u].pc \in DeallocPCs => t = u

NoAssociations == \A k \in Keys : refs[k] = No
NoProperties == \A s \in Slots : slot[s] = nil

\* has_assoc says that there are associations, or a thread is about to set it; a
\* deallocation leaves nothing behind.
EmptyInv ==
  /\ object = "alive" => NoAssociations \/ has_assoc \/ \E t \in Threads : th[t].pc = "setHasAssociatedObjects"
  /\ object = "free" => NoAssociations /\ NoProperties
  /\ \A t \in Threads :
       /\ th[t].pc = "cxxDestruct" => NoAssociations \/ th[t].assoc
       /\ th[t].pc \in {"remove", "releaseRefs", "free"} /\ object = "deallocating" => NoProperties
       /\ th[t].pc \in {"releaseRefs", "free"} /\ object = "deallocating" => NoAssociations

CountsAll(v) ==
  count[v] = Cardinality(ClientRefs(v)) + Cardinality(SetterRefs(v)) + Cardinality(RemovedRefs(v))
             + Cardinality(AssociationRefs(v)) + Cardinality(PropertyRefs(v))
CountInv == \A v \in Values : CountsAll(v)

\* What every step preserves.
IndInv ==
  /\ TypeOK /\ LocalsInv /\ ReadInv /\ UsableInv /\ PropertyLockInv /\ StructLockInv
  /\ PhaseInv /\ EmptyInv /\ CountInv

----------------------------------------------------------------------------
(* Counting the owners.                                                    *)

Number(x, S) == IF x \in S THEN 1 ELSE 0

\* Adding or removing one element changes the cardinality by one.
LEMMA OneElement ==
  ASSUME NEW S, NEW T, NEW x, IsFiniteSet(S), S \ {x} = T \ {x}
  PROVE  /\ IsFiniteSet(T) /\ Cardinality(S) \in Nat /\ Cardinality(T) \in Nat
         /\ Cardinality(T) = Cardinality(S) + Number(x, T) - Number(x, S)
<1>1. IsFiniteSet(S \ {x}) /\ Cardinality(S) \in Nat /\ Cardinality(S \ {x}) \in Nat
  BY FS_RemoveElement, FS_CardinalityType
<1>2. CASE x \in T
  <2>1. T = (S \ {x}) \cup {x} /\ x \notin S \ {x}
    BY <1>2
  <2>2. IsFiniteSet(T) /\ Cardinality(T) = Cardinality(S \ {x}) + 1
    BY <1>1, <2>1, FS_AddElement
  <2>3. Cardinality(S \ {x}) = Cardinality(S) - Number(x, S)
    BY <1>1, FS_RemoveElement DEF Number
  <2> QED
    BY <1>1, <1>2, <2>2, <2>3 DEF Number
<1>3. CASE x \notin T
  <2>1. T = S \ {x}
    BY <1>3
  <2> QED
    BY <1>1, <1>3, <2>1, FS_RemoveElement DEF Number
<1> QED
  BY <1>2, <1>3

LEMMA RefsFinite ==
  ASSUME TypeOK, NEW v \in Values
  PROVE  /\ IsFiniteSet(ClientRefs(v)) /\ IsFiniteSet(SetterRefs(v)) /\ IsFiniteSet(RemovedRefs(v))
         /\ IsFiniteSet(AssociationRefs(v)) /\ IsFiniteSet(PropertyRefs(v))
         /\ Cardinality(ClientRefs(v)) \in Nat /\ Cardinality(SetterRefs(v)) \in Nat
         /\ Cardinality(RemovedRefs(v)) \in Nat /\ Cardinality(AssociationRefs(v)) \in Nat
         /\ Cardinality(PropertyRefs(v)) \in Nat
<1>1. IsFiniteSet(Threads) /\ IsFiniteSet(1..MaxHeld) /\ IsFiniteSet(Keys) /\ IsFiniteSet(Slots)
  BY ValuesAssumption, AssociationsAssumption, AccessorsAssumption, FS_Interval
<1>2. IsFiniteSet(Threads \X (1..MaxHeld)) /\ IsFiniteSet(Threads \X Keys)
  BY <1>1, FS_Product
<1>3. /\ ClientRefs(v) \subseteq Threads \X (1..MaxHeld) /\ SetterRefs(v) \subseteq Threads
      /\ RemovedRefs(v) \subseteq Threads \X Keys /\ AssociationRefs(v) \subseteq Keys
      /\ PropertyRefs(v) \subseteq Slots
  BY DEF ClientRefs, SetterRefs, RemovedRefs, AssociationRefs, PropertyRefs
<1>4. /\ IsFiniteSet(ClientRefs(v)) /\ IsFiniteSet(SetterRefs(v)) /\ IsFiniteSet(RemovedRefs(v))
      /\ IsFiniteSet(AssociationRefs(v)) /\ IsFiniteSet(PropertyRefs(v))
  BY <1>1, <1>2, <1>3, FS_Subset
<1> QED
  BY <1>4, FS_CardinalityType

\* Retain and release of one value.
LEMMA CountEdit ==
  ASSUME TypeOK, NEW c \in Values \cup {nil}
  PROVE  /\ Retained(c) \in [Values -> Int] /\ Released(c) \in [Values -> Int]
         /\ \A v \in Values : /\ Retained(c)[v] = count[v] + (IF v = c THEN 1 ELSE 0)
                              /\ Released(c)[v] = count[v] - (IF v = c THEN 1 ELSE 0)
  BY ValuesAssumption DEF TypeOK, Retained, Released

\* What is written into an ObjcAssociation; nobody owns anything through No.
LEMMA AssociationTypes ==
  /\ No \in ObjcAssociation
  /\ \A v \in Values \cup {nil} : Property(v) \in ObjcAssociation /\ Property(v).value = v
  BY DEF No, Property, ObjcAssociation, AllPolicies

LEMMA NoOwner == \A v : ~Owns(No, v)
  BY DEF Owns, Setter, No

\* The lower and the higher of two locks.
LEMMA MinMaxPair ==
  ASSUME NEW i \in Nat, NEW j \in Nat
  PROVE  LET S == {i, j} IN {Min(S), Max(S)} = S /\ (Cardinality(S) = 1 => S = {Min(S)})
<1> DEFINE S == {i, j}
<1>1. CASE i = j
  <2>1. S = {i} /\ Min({i}) = i /\ Max({i}) = i
    BY <1>1 DEF Min, Max
  <2> QED
    BY <2>1
<1>2. CASE i # j
  <2>1. {Min(S), Max(S)} = S
    BY <1>2 DEF Min, Max
  <2>2. IsFiniteSet({i}) /\ Cardinality({i}) = 1 /\ j \notin {i} /\ S = {i} \cup {j}
    BY <1>2, FS_Singleton
  <2>3. Cardinality({i} \cup {j}) = 2
    BY <2>2, FS_AddElement
  <2> QED
    BY <2>1, <2>2, <2>3
<1> QED
  BY <1>1, <1>2

\* A client of thread t gets or gives up a reference to v.
LEMMA ClientChange ==
  ASSUME TypeOK, NEW t \in Threads, NEW v \in Values, NEW d \in {-1, 1},
         held[t][v] + d \in 0..MaxHeld,
         held' = [held EXCEPT ![t][v] = held[t][v] + d], NEW w \in Values
  PROVE  Cardinality(ClientRefs(w))' = Cardinality(ClientRefs(w)) + (IF w = v THEN d ELSE 0)
<1>0. held[t][v] \in 0..MaxHeld /\ MaxHeld \in Nat /\ IsFiniteSet(ClientRefs(w)) /\ Cardinality(ClientRefs(w)) \in Nat
  BY ValuesAssumption, RefsFinite DEF TypeOK
<1>1. \A u \in Threads : held'[u][w] = IF u = t /\ w = v THEN held[t][v] + d ELSE held[u][w]
  BY DEF TypeOK
<1>2. CASE w # v
  <2>1. ClientRefs(w)' = ClientRefs(w)
    BY <1>1, <1>2 DEF ClientRefs
  <2> QED
    BY <1>0, <1>2, <2>1
<1>3. CASE w = v
  <2> DEFINE n == IF d = 1 THEN held[t][v] + 1 ELSE held[t][v]
             x == <<t, n>>
  <2>1. n \in 1..MaxHeld /\ x \in Threads \X (1..MaxHeld)
    BY <1>0
  <2>2. ASSUME NEW o \in Threads \X (1..MaxHeld), o # x
        PROVE  o \in ClientRefs(w)' <=> o \in ClientRefs(w)
    <3>1. o = <<o[1], o[2]>> /\ o[1] \in Threads /\ o[2] \in 1..MaxHeld
      BY <2>2
    <3>2. held[o[1]][w] \in 0..MaxHeld
      BY <3>1, <1>3 DEF TypeOK
    <3>3. o[2] <= held'[o[1]][w] <=> o[2] <= held[o[1]][w]
      BY <1>0, <1>1, <1>3, <2>1, <2>2, <3>1, <3>2
    <3> QED
      BY <2>2, <3>3 DEF ClientRefs
  <2>3. ClientRefs(w) \ {x} = ClientRefs(w)' \ {x}
    BY <2>2 DEF ClientRefs
  <2>4. Cardinality(ClientRefs(w)') = Cardinality(ClientRefs(w)) + Number(x, ClientRefs(w)') - Number(x, ClientRefs(w))
    BY ONLY <1>0, <2>3, OneElement
  <2>5. (x \in ClientRefs(w)' <=> n <= held'[t][w]) /\ (x \in ClientRefs(w) <=> n <= held[t][w])
    BY <2>1 DEF ClientRefs
  <2> QED
    BY <1>0, <1>1, <1>3, <2>4, <2>5 DEF Number
<1> QED
  BY <1>2, <1>3

\* A step of one thread in the sets of setters.
LEMMA SetterChange ==
  ASSUME TypeOK, NEW t \in Threads, \A u \in Threads : u # t => th'[u] = th[u], NEW v \in Values
  PROVE  Cardinality(SetterRefs(v))' = Cardinality(SetterRefs(v)) + Number(t, SetterRefs(v))' - Number(t, SetterRefs(v))
<1>1. SetterRefs(v) \ {t} = SetterRefs(v)' \ {t}
  BY DEF SetterRefs
<1>2. IsFiniteSet(SetterRefs(v))
  BY RefsFinite
<1>3. Cardinality(SetterRefs(v)') = Cardinality(SetterRefs(v)) + Number(t, SetterRefs(v)') - Number(t, SetterRefs(v))
  BY ONLY <1>1, <1>2, OneElement
<1> QED
  BY <1>3 DEF Number

\* One property, or one association, gets another value.
LEMMA PropertyChange ==
  ASSUME TypeOK, NEW s \in Slots, \A p \in Slots : p # s => slot'[p] = slot[p], NEW v \in Values
  PROVE  Cardinality(PropertyRefs(v))' =
           Cardinality(PropertyRefs(v)) + (IF slot'[s] = v THEN 1 ELSE 0) - (IF slot[s] = v THEN 1 ELSE 0)
<1>1. PropertyRefs(v) \ {s} = PropertyRefs(v)' \ {s}
  BY DEF PropertyRefs
<1>2. IsFiniteSet(PropertyRefs(v))
  BY RefsFinite
<1>3. Cardinality(PropertyRefs(v)') = Cardinality(PropertyRefs(v)) + Number(s, PropertyRefs(v)') - Number(s, PropertyRefs(v))
  BY ONLY <1>1, <1>2, OneElement
<1>4. (s \in PropertyRefs(v) <=> slot[s] = v) /\ (s \in PropertyRefs(v)' <=> slot'[s] = v)
  BY DEF PropertyRefs
<1> QED
  BY <1>3, <1>4 DEF Number

LEMMA AssociationChange ==
  ASSUME TypeOK, NEW k \in Keys, \A l \in Keys : l # k => refs'[l] = refs[l], NEW v \in Values
  PROVE  Cardinality(AssociationRefs(v))' =
           Cardinality(AssociationRefs(v)) + (IF Owns(refs'[k], v) THEN 1 ELSE 0) - (IF Owns(refs[k], v) THEN 1 ELSE 0)
<1>1. AssociationRefs(v) \ {k} = AssociationRefs(v)' \ {k}
  BY DEF AssociationRefs
<1>2. IsFiniteSet(AssociationRefs(v))
  BY RefsFinite
<1>3. Cardinality(AssociationRefs(v)') =
        Cardinality(AssociationRefs(v)) + Number(k, AssociationRefs(v)') - Number(k, AssociationRefs(v))
  BY ONLY <1>1, <1>2, OneElement
<1>4. (k \in AssociationRefs(v) <=> Owns(refs[k], v)) /\ (k \in AssociationRefs(v)' <=> Owns(refs'[k], v))
  BY DEF AssociationRefs
<1> QED
  BY <1>3, <1>4 DEF Number

----------------------------------------------------------------------------
(* Property accessors keep the invariant.                                  *)

\* objc_getProperty begins.
LEMMA GetPropertyKeeps ==
  ASSUME IndInv, NEW t \in Threads, NEW s \in Slots, GetProperty(t, s), UNCHANGED assocVars
  PROVE  IndInv'
<1>0. /\ TypeOK /\ LocalsInv /\ ReadInv /\ UsableInv /\ PropertyLockInv /\ StructLockInv
      /\ PhaseInv /\ EmptyInv /\ CountInv
  BY DEF IndInv
<1>1. /\ th[t].pc = "idle" /\ object = "alive" /\ Room(t) /\ Usable(s)
      /\ UNCHANGED <<count, held, object, refs, has_assoc, slot, atomic>>
  BY DEF GetProperty, Calls, Goto, Return, accessorVars, assocVars
<1>2. th' = [th EXCEPT ![t] = [Idle EXCEPT !.pc = "getProperty", !.cell = s]]
  BY DEF GetProperty, Calls, Goto, Return, accessorVars, assocVars
<1>3. th[t] \in Call
  BY <1>0, <1>1 DEF TypeOK, LocalsInv, AssociationPCs, PropertyPCs, StructPCs
<1>4. /\ \A u \in Threads : u # t => th'[u] = th[u]
      /\ th'[t].pc = "getProperty" /\ th'[t].cell = s /\ th'[t].a = No /\ th'[t].old = nil
      /\ th'[t].assoc = FALSE /\ th'[t].refs = {} /\ th'[t].src = nil
  BY <1>0, <1>2, <1>3 DEF TypeOK, Call, Idle
<1>5. TypeOK'
  <2>1. th'[t] \in Call
    BY <1>0, <1>1, <1>2, <1>3, AssociationTypes DEF TypeOK, Call, Idle, PCs, AssociationPCs, PropertyPCs, StructPCs, DeallocPCs
  <2> QED
    BY <1>0, <1>1, <1>2, <1>3, <2>1 DEF TypeOK
<1>6. LocalsInv'
  BY <1>0, <1>1, <1>3, <1>4 DEF LocalsInv, Room, AssociationPCs, PropertyPCs, StructPCs, GetterPCs
<1>7. ReadInv'
  BY <1>0, <1>1, <1>3, <1>4 DEF ReadInv, LocalsInv, PropertyPCs, AssociationPCs
<1>8. UsableInv'
  BY <1>0, <1>1, <1>3, <1>4 DEF UsableInv, Usable
<1>9. PropertyLockInv'
  BY <1>0, <1>1, <1>3, <1>4 DEF PropertyLockInv, PropertyUnlocked, Inside
<1>10. StructLockInv'
  <2>1. \A u \in Threads : StructHeld(u)' = StructHeld(u)
    BY <1>0, <1>1, <1>3, <1>4 DEF StructHeld, Stripes
  <2> QED
    BY <1>0, <2>1 DEF StructLockInv
<1>11. PhaseInv'
  BY <1>0, <1>1, <1>3, <1>4 DEF PhaseInv, StructPCs, DeallocPCs
<1>12. EmptyInv'
  BY <1>0, <1>1, <1>3, <1>4 DEF EmptyInv, NoAssociations, NoProperties, LocalsInv, PhaseInv, StructPCs, DeallocPCs, No
<1>13. CountInv'
  <2>1. \A v \in Values : /\ ClientRefs(v)' = ClientRefs(v) /\ SetterRefs(v)' = SetterRefs(v)
                          /\ RemovedRefs(v)' = RemovedRefs(v) /\ AssociationRefs(v)' = AssociationRefs(v)
                          /\ PropertyRefs(v)' = PropertyRefs(v)
    BY <1>0, <1>1, <1>3, <1>4, NoOwner DEF ClientRefs, SetterRefs, RemovedRefs, AssociationRefs, PropertyRefs, LocalsInv
  <2> QED
    BY <1>0, <1>1, <2>1 DEF CountInv, CountsAll
<1> QED
  BY <1>5, <1>6, <1>7, <1>8, <1>9, <1>10, <1>11, <1>12, <1>13 DEF IndInv

\* The getter reads the property, inside of the lock when it is atomic.
LEMMA ReadPropertyKeeps ==
  ASSUME IndInv, NEW t \in Threads, ReadProperty(t), UNCHANGED assocVars
  PROVE  IndInv'
<1>0. /\ TypeOK /\ LocalsInv /\ ReadInv /\ UsableInv /\ PropertyLockInv /\ StructLockInv
      /\ PhaseInv /\ EmptyInv /\ CountInv
  BY DEF IndInv
<1>1. /\ th[t].pc = "getProperty" /\ (th[t].cell \in atomic => PropertyUnlocked(th[t].cell))
      /\ UNCHANGED <<count, held, object, refs, has_assoc, slot, atomic>>
  BY DEF ReadProperty, Goto, Return, accessorVars, assocVars
<1>2. th' = [th EXCEPT ![t] = [th[t] EXCEPT !.a = Property(slot[th[t].cell]), !.pc = IF th[t].cell \in atomic THEN "retainProperty" ELSE "return"]]
  BY DEF ReadProperty, Goto, Return, accessorVars, assocVars
<1>3. th[t] \in Call /\ th[t].cell \in Slots
  BY <1>0, <1>1 DEF TypeOK, LocalsInv, AssociationPCs, PropertyPCs, StructPCs
<1>4. /\ \A u \in Threads : u # t => th'[u] = th[u]
      /\ th'[t].pc = (IF th[t].cell \in atomic THEN "retainProperty" ELSE "return") /\ th'[t].cell = th[t].cell /\ th'[t].a = Property(slot[th[t].cell]) /\ th'[t].old = th[t].old
      /\ th'[t].assoc = th[t].assoc /\ th'[t].refs = th[t].refs /\ th'[t].src = th[t].src
  BY <1>0, <1>2, <1>3 DEF TypeOK, Call
<1>5. TypeOK'
  <2>1. th'[t] \in Call
    BY <1>0, <1>1, <1>2, <1>3, AssociationTypes DEF TypeOK, Call, Idle, PCs, AssociationPCs, PropertyPCs, StructPCs, DeallocPCs
  <2> QED
    BY <1>0, <1>1, <1>2, <1>3, <2>1 DEF TypeOK
<1>6. LocalsInv'
  BY <1>0, <1>1, <1>3, <1>4 DEF LocalsInv, Room, AssociationPCs, PropertyPCs, StructPCs, GetterPCs
<1>7. ReadInv'
  BY <1>0, <1>1, <1>3, <1>4 DEF ReadInv, LocalsInv, PropertyPCs, AssociationPCs
<1>8. UsableInv'
  BY <1>0, <1>1, <1>3, <1>4 DEF UsableInv, Usable
<1>9. PropertyLockInv'
  BY <1>0, <1>1, <1>3, <1>4 DEF PropertyLockInv, PropertyUnlocked, Inside
<1>10. StructLockInv'
  <2>1. \A u \in Threads : StructHeld(u)' = StructHeld(u)
    BY <1>0, <1>1, <1>3, <1>4 DEF StructHeld, Stripes
  <2> QED
    BY <1>0, <2>1 DEF StructLockInv
<1>11. PhaseInv'
  BY <1>0, <1>1, <1>3, <1>4 DEF PhaseInv, StructPCs, DeallocPCs
<1>12. EmptyInv'
  BY <1>0, <1>1, <1>3, <1>4 DEF EmptyInv, NoAssociations, NoProperties, LocalsInv, PhaseInv, StructPCs, DeallocPCs, No
<1>13. CountInv'
  <2>1. \A v \in Values : /\ ClientRefs(v)' = ClientRefs(v) /\ SetterRefs(v)' = SetterRefs(v)
                          /\ RemovedRefs(v)' = RemovedRefs(v) /\ AssociationRefs(v)' = AssociationRefs(v)
                          /\ PropertyRefs(v)' = PropertyRefs(v)
    BY <1>0, <1>1, <1>3, <1>4, NoOwner DEF ClientRefs, SetterRefs, RemovedRefs, AssociationRefs, PropertyRefs, LocalsInv
  <2> QED
    BY <1>0, <1>1, <2>1 DEF CountInv, CountsAll
<1> QED
  BY <1>5, <1>6, <1>7, <1>8, <1>9, <1>10, <1>11, <1>12, <1>13 DEF IndInv

\* The setter reads the old value, inside of the lock when the property is atomic.
LEMMA ReadOldKeeps ==
  ASSUME IndInv, NEW t \in Threads, ReadOld(t), UNCHANGED assocVars
  PROVE  IndInv'
<1>0. /\ TypeOK /\ LocalsInv /\ ReadInv /\ UsableInv /\ PropertyLockInv /\ StructLockInv
      /\ PhaseInv /\ EmptyInv /\ CountInv
  BY DEF IndInv
<1>1. /\ th[t].pc = "swap" /\ (th[t].cell \in atomic => PropertyUnlocked(th[t].cell))
      /\ UNCHANGED <<count, held, object, refs, has_assoc, slot, atomic>>
  BY DEF ReadOld, Goto, Return, accessorVars, assocVars
<1>2. th' = [th EXCEPT ![t] = [th[t] EXCEPT !.pc = "store", !.old = slot[th[t].cell]]]
  BY DEF ReadOld, Goto, Return, accessorVars, assocVars
<1>3. th[t] \in Call /\ th[t].cell \in Slots
  BY <1>0, <1>1 DEF TypeOK, LocalsInv, AssociationPCs, PropertyPCs, StructPCs
<1>4. /\ \A u \in Threads : u # t => th'[u] = th[u]
      /\ th'[t].pc = "store" /\ th'[t].cell = th[t].cell /\ th'[t].a = th[t].a /\ th'[t].old = slot[th[t].cell]
      /\ th'[t].assoc = th[t].assoc /\ th'[t].refs = th[t].refs /\ th'[t].src = th[t].src
  BY <1>0, <1>2, <1>3 DEF TypeOK, Call
<1>5. TypeOK'
  <2>1. th'[t] \in Call
    BY <1>0, <1>1, <1>2, <1>3, AssociationTypes DEF TypeOK, Call, Idle, PCs, AssociationPCs, PropertyPCs, StructPCs, DeallocPCs
  <2> QED
    BY <1>0, <1>1, <1>2, <1>3, <2>1 DEF TypeOK
<1>6. LocalsInv'
  BY <1>0, <1>1, <1>3, <1>4 DEF LocalsInv, Room, AssociationPCs, PropertyPCs, StructPCs, GetterPCs
<1>7. ReadInv'
  BY <1>0, <1>1, <1>3, <1>4 DEF ReadInv, LocalsInv, PropertyPCs, AssociationPCs
<1>8. UsableInv'
  BY <1>0, <1>1, <1>3, <1>4 DEF UsableInv, Usable
<1>9. PropertyLockInv'
  BY <1>0, <1>1, <1>3, <1>4 DEF PropertyLockInv, PropertyUnlocked, Inside
<1>10. StructLockInv'
  <2>1. \A u \in Threads : StructHeld(u)' = StructHeld(u)
    BY <1>0, <1>1, <1>3, <1>4 DEF StructHeld, Stripes
  <2> QED
    BY <1>0, <2>1 DEF StructLockInv
<1>11. PhaseInv'
  BY <1>0, <1>1, <1>3, <1>4 DEF PhaseInv, StructPCs, DeallocPCs
<1>12. EmptyInv'
  BY <1>0, <1>1, <1>3, <1>4 DEF EmptyInv, NoAssociations, NoProperties, LocalsInv, PhaseInv, StructPCs, DeallocPCs, No
<1>13. CountInv'
  <2>1. \A v \in Values : /\ ClientRefs(v)' = ClientRefs(v) /\ SetterRefs(v)' = SetterRefs(v)
                          /\ RemovedRefs(v)' = RemovedRefs(v) /\ AssociationRefs(v)' = AssociationRefs(v)
                          /\ PropertyRefs(v)' = PropertyRefs(v)
    BY <1>0, <1>1, <1>3, <1>4, NoOwner DEF ClientRefs, SetterRefs, RemovedRefs, AssociationRefs, PropertyRefs, LocalsInv
  <2> QED
    BY <1>0, <1>1, <2>1 DEF CountInv, CountsAll
<1> QED
  BY <1>5, <1>6, <1>7, <1>8, <1>9, <1>10, <1>11, <1>12, <1>13 DEF IndInv

\* objc_copyStruct begins.
LEMMA CopyStructKeeps ==
  ASSUME IndInv, NEW t \in Threads, NEW src \in Structs, NEW dest \in Structs, copyStruct(t, src, dest), UNCHANGED assocVars
  PROVE  IndInv'
<1>0. /\ TypeOK /\ LocalsInv /\ ReadInv /\ UsableInv /\ PropertyLockInv /\ StructLockInv
      /\ PhaseInv /\ EmptyInv /\ CountInv
  BY DEF IndInv
<1>1. /\ th[t].pc = "idle"
      /\ UNCHANGED <<count, held, object, refs, has_assoc, slot, atomic>>
  BY DEF copyStruct, Goto, Return, accessorVars, assocVars
<1>2. th' = [th EXCEPT ![t] = [Idle EXCEPT !.pc = "lockTwo", !.src = src, !.cell = dest]]
  BY DEF copyStruct, Goto, Return, accessorVars, assocVars
<1>3. th[t] \in Call
  BY <1>0, <1>1 DEF TypeOK, LocalsInv, AssociationPCs, PropertyPCs, StructPCs
<1>4. /\ \A u \in Threads : u # t => th'[u] = th[u]
      /\ th'[t].pc = "lockTwo" /\ th'[t].cell = dest /\ th'[t].a = No /\ th'[t].old = nil
      /\ th'[t].assoc = FALSE /\ th'[t].refs = {} /\ th'[t].src = src
  BY <1>0, <1>2, <1>3 DEF TypeOK, Call, Idle
<1>5. TypeOK'
  <2>1. th'[t] \in Call
    BY <1>0, <1>1, <1>2, <1>3, AssociationTypes DEF TypeOK, Call, Idle, PCs, AssociationPCs, PropertyPCs, StructPCs, DeallocPCs
  <2> QED
    BY <1>0, <1>1, <1>2, <1>3, <2>1 DEF TypeOK
<1>6. LocalsInv'
  BY <1>0, <1>1, <1>3, <1>4 DEF LocalsInv, Room, AssociationPCs, PropertyPCs, StructPCs, GetterPCs
<1>7. ReadInv'
  BY <1>0, <1>1, <1>3, <1>4 DEF ReadInv, LocalsInv, PropertyPCs, AssociationPCs
<1>8. UsableInv'
  BY <1>0, <1>1, <1>3, <1>4, AccessorsAssumption DEF UsableInv, Usable
<1>9. PropertyLockInv'
  BY <1>0, <1>1, <1>3, <1>4 DEF PropertyLockInv, PropertyUnlocked, Inside
<1>10. StructLockInv'
  <2>1. \A u \in Threads : StructHeld(u)' = StructHeld(u)
    BY <1>0, <1>1, <1>3, <1>4 DEF StructHeld, Stripes
  <2> QED
    BY <1>0, <2>1 DEF StructLockInv
<1>11. PhaseInv'
  BY <1>0, <1>1, <1>3, <1>4 DEF PhaseInv, StructPCs, DeallocPCs
<1>12. EmptyInv'
  BY <1>0, <1>1, <1>3, <1>4 DEF EmptyInv, NoAssociations, NoProperties, LocalsInv, PhaseInv, StructPCs, DeallocPCs, No
<1>13. CountInv'
  <2>1. \A v \in Values : /\ ClientRefs(v)' = ClientRefs(v) /\ SetterRefs(v)' = SetterRefs(v)
                          /\ RemovedRefs(v)' = RemovedRefs(v) /\ AssociationRefs(v)' = AssociationRefs(v)
                          /\ PropertyRefs(v)' = PropertyRefs(v)
    BY <1>0, <1>1, <1>3, <1>4, NoOwner DEF ClientRefs, SetterRefs, RemovedRefs, AssociationRefs, PropertyRefs, LocalsInv
  <2> QED
    BY <1>0, <1>1, <2>1 DEF CountInv, CountsAll
<1> QED
  BY <1>5, <1>6, <1>7, <1>8, <1>9, <1>10, <1>11, <1>12, <1>13 DEF IndInv

\* objc_copyStruct ends.
LEMMA UnlockTwoKeeps ==
  ASSUME IndInv, NEW t \in Threads, unlockTwo(t), UNCHANGED assocVars
  PROVE  IndInv'
<1>0. /\ TypeOK /\ LocalsInv /\ ReadInv /\ UsableInv /\ PropertyLockInv /\ StructLockInv
      /\ PhaseInv /\ EmptyInv /\ CountInv
  BY DEF IndInv
<1>1. /\ th[t].pc = "memmove"
      /\ UNCHANGED <<count, held, object, refs, has_assoc, slot, atomic>>
  BY DEF unlockTwo, Goto, Return, accessorVars, assocVars
<1>2. th' = [th EXCEPT ![t] = Idle]
  BY DEF unlockTwo, Goto, Return, accessorVars, assocVars
<1>3. th[t] \in Call
  BY <1>0, <1>1 DEF TypeOK, LocalsInv, AssociationPCs, PropertyPCs, StructPCs
<1>4. /\ \A u \in Threads : u # t => th'[u] = th[u]
      /\ th'[t].pc = "idle" /\ th'[t].cell = nil /\ th'[t].a = No /\ th'[t].old = nil
      /\ th'[t].assoc = FALSE /\ th'[t].refs = {} /\ th'[t].src = nil
  BY <1>0, <1>2, <1>3 DEF TypeOK, Call, Idle
<1>5. TypeOK'
  <2>1. th'[t] \in Call
    BY <1>0, <1>1, <1>2, <1>3, AssociationTypes DEF TypeOK, Call, Idle, PCs, AssociationPCs, PropertyPCs, StructPCs, DeallocPCs
  <2> QED
    BY <1>0, <1>1, <1>2, <1>3, <2>1 DEF TypeOK
<1>6. LocalsInv'
  BY <1>0, <1>1, <1>3, <1>4 DEF LocalsInv, Room, AssociationPCs, PropertyPCs, StructPCs, GetterPCs
<1>7. ReadInv'
  BY <1>0, <1>1, <1>3, <1>4 DEF ReadInv, LocalsInv, PropertyPCs, AssociationPCs
<1>8. UsableInv'
  BY <1>0, <1>1, <1>3, <1>4, AccessorsAssumption DEF UsableInv, Usable
<1>9. PropertyLockInv'
  BY <1>0, <1>1, <1>3, <1>4 DEF PropertyLockInv, PropertyUnlocked, Inside
<1>10. StructLockInv'
  <2>1. \A u \in Threads : u # t => StructHeld(u)' = StructHeld(u)
    BY <1>0, <1>1, <1>4 DEF StructHeld, Stripes
  <2>2. StructHeld(t)' = {}
    BY <1>4 DEF StructHeld
  <2> QED
    BY <1>0, <2>1, <2>2 DEF StructLockInv
<1>11. PhaseInv'
  BY <1>0, <1>1, <1>3, <1>4 DEF PhaseInv, StructPCs, DeallocPCs
<1>12. EmptyInv'
  BY <1>0, <1>1, <1>3, <1>4 DEF EmptyInv, NoAssociations, NoProperties, LocalsInv, PhaseInv, StructPCs, DeallocPCs, No
<1>13. CountInv'
  <2>1. \A v \in Values : /\ ClientRefs(v)' = ClientRefs(v) /\ SetterRefs(v)' = SetterRefs(v)
                          /\ RemovedRefs(v)' = RemovedRefs(v) /\ AssociationRefs(v)' = AssociationRefs(v)
                          /\ PropertyRefs(v)' = PropertyRefs(v)
    BY <1>0, <1>1, <1>3, <1>4, NoOwner DEF ClientRefs, SetterRefs, RemovedRefs, AssociationRefs, PropertyRefs, LocalsInv
  <2> QED
    BY <1>0, <1>1, <2>1 DEF CountInv, CountsAll
<1> QED
  BY <1>5, <1>6, <1>7, <1>8, <1>9, <1>10, <1>11, <1>12, <1>13 DEF IndInv

\* The two locks of objc_copyStruct, the lower one first.
LEMMA LockTwoKeeps ==
  ASSUME IndInv, NEW t \in Threads, lockTwo(t), UNCHANGED assocVars
  PROVE  IndInv'
<1>0. /\ TypeOK /\ LocalsInv /\ ReadInv /\ UsableInv /\ PropertyLockInv /\ StructLockInv
      /\ PhaseInv /\ EmptyInv /\ CountInv
  BY DEF IndInv
<1>a. PICK p \in {"lockSecond", "memmove"} :
        /\ th' = [th EXCEPT ![t] = [th[t] EXCEPT !.pc = p]]
        /\ th[t].pc \in {"lockTwo", "lockSecond"}
        /\ UNCHANGED <<count, held, object, refs, has_assoc, slot, atomic>>
  BY DEF lockTwo, Goto, Return, accessorVars, assocVars
<1>1. /\ th[t].pc \in {"lockTwo", "lockSecond"}
      /\ UNCHANGED <<count, held, object, refs, has_assoc, slot, atomic>>
  BY <1>a
<1>2. th' = [th EXCEPT ![t] = [th[t] EXCEPT !.pc = p]]
  BY <1>a
<1>3. th[t] \in Call /\ th[t].src \in Structs /\ th[t].cell \in Structs
  BY <1>0, <1>1 DEF TypeOK, LocalsInv, AssociationPCs, PropertyPCs, StructPCs
<1>4. /\ \A u \in Threads : u # t => th'[u] = th[u]
      /\ th'[t].pc = p /\ th'[t].cell = th[t].cell /\ th'[t].a = th[t].a /\ th'[t].old = th[t].old
      /\ th'[t].assoc = th[t].assoc /\ th'[t].refs = th[t].refs /\ th'[t].src = th[t].src
  BY <1>0, <1>2, <1>3 DEF TypeOK, Call
<1>5. TypeOK'
  <2>1. th'[t] \in Call
    BY <1>0, <1>1, <1>2, <1>3, AssociationTypes DEF TypeOK, Call, Idle, PCs, AssociationPCs, PropertyPCs, StructPCs, DeallocPCs
  <2> QED
    BY <1>0, <1>1, <1>2, <1>3, <2>1 DEF TypeOK
<1>6. LocalsInv'
  BY <1>0, <1>1, <1>3, <1>4 DEF LocalsInv, Room, AssociationPCs, PropertyPCs, StructPCs, GetterPCs
<1>7. ReadInv'
  BY <1>0, <1>1, <1>3, <1>4 DEF ReadInv, LocalsInv, PropertyPCs, AssociationPCs
<1>8. UsableInv'
  BY <1>0, <1>1, <1>3, <1>4 DEF UsableInv, Usable
<1>9. PropertyLockInv'
  BY <1>0, <1>1, <1>3, <1>4 DEF PropertyLockInv, PropertyUnlocked, Inside
<1>10. StructLockInv'
  <2> DEFINE S == Stripes(t)
  <2>1. \A u \in Threads : u # t => StructHeld(u)' = StructHeld(u)
    BY <1>4 DEF StructHeld, Stripes
  <2>2. Stripes(t)' = S
    BY <1>4 DEF Stripes
  <2>3. {Min(S), Max(S)} = S /\ (Cardinality(S) = 1 => S = {Min(S)})
    BY <1>3, AccessorsAssumption, MinMaxPair DEF Stripes
  <2>4. PICK l : StructUnlocked(l) /\ StructHeld(t)' \subseteq StructHeld(t) \cup {l}
    <3>1. CASE th[t].pc = "lockTwo"
      <4>1. StructUnlocked(Min(S)) /\ p = IF Cardinality(S) = 1 THEN "memmove" ELSE "lockSecond"
        <5>1. StructUnlocked(Min(S)) /\ th' = [th EXCEPT ![t] = [th[t] EXCEPT !.pc = IF Cardinality(S) = 1 THEN "memmove" ELSE "lockSecond"]]
          BY <3>1 DEF lockTwo, Goto
        <5>2. th'[t].pc = IF Cardinality(S) = 1 THEN "memmove" ELSE "lockSecond"
          BY <1>0, <1>3, <5>1 DEF TypeOK, Call
        <5> QED
          BY <1>4, <5>1, <5>2
      <4>2. StructHeld(t)' = {Min(S)}
        BY <1>4, <2>2, <2>3, <4>1 DEF StructHeld
      <4> QED
        BY <4>1, <4>2
    <3>2. CASE th[t].pc = "lockSecond"
      <4>1. StructUnlocked(Max(S)) /\ th' = [th EXCEPT ![t] = [th[t] EXCEPT !.pc = "memmove"]]
        BY <3>2 DEF lockTwo, Goto
      <4>2. th'[t].pc = "memmove"
        BY <1>0, <1>3, <4>1 DEF TypeOK, Call
      <4>3. StructHeld(t)' = S /\ StructHeld(t) = {Min(S)}
        BY <2>2, <3>2, <4>2 DEF StructHeld
      <4> QED
        BY <2>3, <4>1, <4>3
    <3> QED
      BY <1>1, <3>1, <3>2
  <2> QED
    BY <1>0, <2>1, <2>4 DEF StructLockInv, StructUnlocked
<1>11. PhaseInv'
  BY <1>0, <1>1, <1>3, <1>4 DEF PhaseInv, StructPCs, DeallocPCs
<1>12. EmptyInv'
  BY <1>0, <1>1, <1>3, <1>4 DEF EmptyInv, NoAssociations, NoProperties, LocalsInv, PhaseInv, StructPCs, DeallocPCs, No
<1>13. CountInv'
  <2>1. \A v \in Values : /\ ClientRefs(v)' = ClientRefs(v) /\ SetterRefs(v)' = SetterRefs(v)
                          /\ RemovedRefs(v)' = RemovedRefs(v) /\ AssociationRefs(v)' = AssociationRefs(v)
                          /\ PropertyRefs(v)' = PropertyRefs(v)
    BY <1>0, <1>1, <1>3, <1>4, NoOwner DEF ClientRefs, SetterRefs, RemovedRefs, AssociationRefs, PropertyRefs, LocalsInv
  <2> QED
    BY <1>0, <1>1, <2>1 DEF CountInv, CountsAll
<1> QED
  BY <1>5, <1>6, <1>7, <1>8, <1>9, <1>10, <1>11, <1>12, <1>13 DEF IndInv

\* The getter retains and autoreleases what it read.
LEMMA RetainPropertyKeeps ==
  ASSUME IndInv, NEW t \in Threads, RetainProperty(t), UNCHANGED assocVars
  PROVE  IndInv'
<1>0. /\ TypeOK /\ LocalsInv /\ ReadInv /\ UsableInv /\ PropertyLockInv /\ StructLockInv
      /\ PhaseInv /\ EmptyInv /\ CountInv
  BY DEF IndInv
<1>1. /\ th[t].pc = "retainProperty"
      /\ count' = Retained(th[t].a.value) /\ held' = Autoreleased(t, th[t].a.value)
      /\ UNCHANGED <<object, refs, has_assoc, slot, atomic>>
  BY DEF RetainProperty, Goto, Return, accessorVars, assocVars
<1>2. th' = [th EXCEPT ![t] = Idle]
  BY DEF RetainProperty, Goto, Return, accessorVars, assocVars
<1>3. th[t] \in Call /\ th[t].a.value \in Values \cup {nil} /\ Room(t)
  BY <1>0, <1>1 DEF TypeOK, LocalsInv, GetterPCs, Call, ObjcAssociation
<1>4. /\ \A u \in Threads : u # t => th'[u] = th[u]
      /\ th'[t].pc = "idle" /\ th'[t].cell = nil /\ th'[t].a = No /\ th'[t].old = nil
      /\ th'[t].assoc = FALSE /\ th'[t].refs = {} /\ th'[t].src = nil
  BY <1>0, <1>2, <1>3 DEF TypeOK, Call, Idle
<1>c. Retained(th[t].a.value) \in [Values -> Int] /\ \A v \in Values : Retained(th[t].a.value)[v] = count[v] + (IF v = th[t].a.value THEN 1 ELSE 0)
  BY <1>0, <1>3, CountEdit
<1>5. TypeOK'
  <2>1. th'[t] \in Call
    BY <1>2, <1>0, AssociationTypes DEF TypeOK, Call, Idle, PCs
  <2>2. held' \in [Threads -> [Values -> 0..MaxHeld]]
    BY <1>0, <1>1, <1>3, ValuesAssumption DEF TypeOK, Autoreleased, Room
  <2> QED
    BY <1>0, <1>1, <1>2, <1>3, <1>c, <2>1, <2>2 DEF TypeOK
<1>6. LocalsInv'
  <2>1. \A u \in Threads : u # t => held'[u] = held[u]
    BY <1>0, <1>1 DEF TypeOK, Autoreleased
  <2> QED
    BY <1>0, <1>1, <1>3, <1>4, <2>1 DEF LocalsInv, Room, AssociationPCs, PropertyPCs, StructPCs, GetterPCs
<1>7. ReadInv'
  BY <1>0, <1>1, <1>3, <1>4 DEF ReadInv, LocalsInv, PropertyPCs, AssociationPCs
<1>8. UsableInv'
  BY <1>0, <1>1, <1>3, <1>4, AccessorsAssumption DEF UsableInv, Usable
<1>9. PropertyLockInv'
  BY <1>0, <1>1, <1>3, <1>4 DEF PropertyLockInv, PropertyUnlocked, Inside
<1>10. StructLockInv'
  <2>1. \A u \in Threads : StructHeld(u)' = StructHeld(u)
    BY <1>0, <1>1, <1>3, <1>4 DEF StructHeld, Stripes
  <2> QED
    BY <1>0, <2>1 DEF StructLockInv
<1>11. PhaseInv'
  BY <1>0, <1>1, <1>3, <1>4 DEF PhaseInv, StructPCs, DeallocPCs
<1>12. EmptyInv'
  BY <1>0, <1>1, <1>3, <1>4 DEF EmptyInv, NoAssociations, NoProperties, LocalsInv, PhaseInv, StructPCs, DeallocPCs, No
<1>13. CountInv'
  <2> SUFFICES ASSUME NEW v \in Values
               PROVE  CountsAll(v)'
    BY DEF CountInv
  <2>0. /\ Cardinality(ClientRefs(v)) \in Nat /\ Cardinality(SetterRefs(v)) \in Nat /\ Cardinality(RemovedRefs(v)) \in Nat
        /\ Cardinality(AssociationRefs(v)) \in Nat /\ Cardinality(PropertyRefs(v)) \in Nat
    BY <1>0, RefsFinite
  <2>1. Cardinality(ClientRefs(v))' = Cardinality(ClientRefs(v)) + (IF v = th[t].a.value THEN 1 ELSE 0)
    <3>1. CASE th[t].a.value = nil
      BY <1>1, <2>0, <3>1, ValuesAssumption DEF Autoreleased, ClientRefs
    <3>2. CASE th[t].a.value # nil
      <4> DEFINE c == th[t].a.value
      <4>1. c \in Values /\ held[t][c] + 1 \in 0..MaxHeld
        BY <1>0, <1>3, <3>2, ValuesAssumption DEF TypeOK, Room
      <4>2. held' = [held EXCEPT ![t][c] = held[t][c] + 1]
        BY <1>1, <3>2 DEF Autoreleased
      <4> HIDE DEF c
      <4>3. Cardinality(ClientRefs(v))' = Cardinality(ClientRefs(v)) + (IF v = c THEN 1 ELSE 0)
        BY <1>0, <4>1, <4>2, ClientChange
      <4> QED
        BY <4>3 DEF c
    <3> QED
      BY <3>1, <3>2
  <2>2. SetterRefs(v)' = SetterRefs(v)
    BY <1>0, <1>1, <1>3, <1>4, NoOwner DEF SetterRefs
  <2>3. RemovedRefs(v)' = RemovedRefs(v)
    BY <1>0, <1>1, <1>3, <1>4 DEF RemovedRefs, LocalsInv
  <2>4. AssociationRefs(v)' = AssociationRefs(v)
    BY <1>1 DEF AssociationRefs
  <2>5. PropertyRefs(v)' = PropertyRefs(v)
    BY <1>1 DEF PropertyRefs
  <2>7. CountsAll(v) /\ count[v] \in Int
    BY <1>0 DEF CountInv, TypeOK
  <2>6. count'[v] = count[v] + (IF v = th[t].a.value THEN 1 ELSE 0)
    BY <1>1, <1>c, <2>7
  <2> QED
    BY <1>1, <1>3, <2>0, <2>1, <2>2, <2>3, <2>4, <2>5, <2>6, <2>7 DEF CountsAll
<1> QED
  BY <1>5, <1>6, <1>7, <1>8, <1>9, <1>10, <1>11, <1>12, <1>13 DEF IndInv

\* reallySetProperty begins; a copy is made before the value is compared with the old one.
LEMMA SetPropertyKeeps ==
  ASSUME IndInv, NEW t \in Threads, NEW s \in Slots, SetProperty(t, s), UNCHANGED assocVars
  PROVE  IndInv'
<1>0. /\ TypeOK /\ LocalsInv /\ ReadInv /\ UsableInv /\ PropertyLockInv /\ StructLockInv
      /\ PhaseInv /\ EmptyInv /\ CountInv
  BY DEF IndInv
<1>a. PICK p \in {"compare", "swap"}, c \in Values \cup {nil} :
        /\ th' = [th EXCEPT ![t] = [Idle EXCEPT !.pc = p, !.cell = s, !.a = Property(c)]]
        /\ th[t].pc = "idle" /\ object = "alive" /\ Usable(s)
        /\ count' = IF p = "swap" THEN Retained(c) ELSE count
        /\ UNCHANGED <<held, object, refs, has_assoc, slot, atomic>>
  BY DEF SetProperty, Calls, Arguments, Copies, Goto, Return, accessorVars, assocVars
<1>1. /\ th[t].pc = "idle" /\ object = "alive" /\ Usable(s)
      /\ count' = IF p = "swap" THEN Retained(c) ELSE count
      /\ UNCHANGED <<held, object, refs, has_assoc, slot, atomic>>
  BY <1>a
<1>2. th' = [th EXCEPT ![t] = [Idle EXCEPT !.pc = p, !.cell = s, !.a = Property(c)]]
  BY <1>a
<1>3. th[t] \in Call
  BY <1>0, <1>1 DEF TypeOK, LocalsInv, AssociationPCs, PropertyPCs, StructPCs
<1>4. /\ \A u \in Threads : u # t => th'[u] = th[u]
      /\ th'[t].pc = p /\ th'[t].cell = s /\ th'[t].a = Property(c) /\ th'[t].old = nil
      /\ th'[t].assoc = FALSE /\ th'[t].refs = {} /\ th'[t].src = nil
  BY <1>0, <1>2, <1>3 DEF TypeOK, Call, Idle
<1>c. Retained(c) \in [Values -> Int] /\ \A v \in Values : Retained(c)[v] = count[v] + (IF v = c THEN 1 ELSE 0)
  BY <1>0, <1>3, CountEdit
<1>5. TypeOK'
  <2>1. th'[t] \in Call
    BY <1>0, <1>1, <1>2, <1>3, AssociationTypes, ZenonT(60) DEF TypeOK, Call, Idle, PCs, AssociationPCs, PropertyPCs, StructPCs, DeallocPCs
  <2> QED
    BY <1>0, <1>1, <1>2, <1>3, <2>1, <1>c DEF TypeOK
<1>6. LocalsInv'
  BY <1>0, <1>1, <1>3, <1>4, AssociationTypes DEF LocalsInv, Room, AssociationPCs, PropertyPCs, StructPCs, GetterPCs
<1>7. ReadInv'
  BY <1>0, <1>1, <1>3, <1>4 DEF ReadInv, LocalsInv, PropertyPCs, AssociationPCs
<1>8. UsableInv'
  BY <1>0, <1>1, <1>3, <1>4 DEF UsableInv, Usable
<1>9. PropertyLockInv'
  BY <1>0, <1>1, <1>3, <1>4 DEF PropertyLockInv, PropertyUnlocked, Inside
<1>10. StructLockInv'
  <2>1. \A u \in Threads : StructHeld(u)' = StructHeld(u)
    BY <1>0, <1>1, <1>3, <1>4 DEF StructHeld, Stripes
  <2> QED
    BY <1>0, <2>1 DEF StructLockInv
<1>11. PhaseInv'
  BY <1>0, <1>1, <1>3, <1>4 DEF PhaseInv, StructPCs, DeallocPCs
<1>12. EmptyInv'
  BY <1>0, <1>1, <1>3, <1>4 DEF EmptyInv, NoAssociations, NoProperties, LocalsInv, PhaseInv, StructPCs, DeallocPCs, No
<1>13. CountInv'
  <2> SUFFICES ASSUME NEW v \in Values
               PROVE  CountsAll(v)'
    BY DEF CountInv
  <2>0. /\ Cardinality(ClientRefs(v)) \in Nat /\ Cardinality(SetterRefs(v)) \in Nat /\ Cardinality(RemovedRefs(v)) \in Nat
        /\ Cardinality(AssociationRefs(v)) \in Nat /\ Cardinality(PropertyRefs(v)) \in Nat
    BY <1>0, RefsFinite
  <2>1. ClientRefs(v)' = ClientRefs(v)
    BY <1>1 DEF ClientRefs
  <2>2. Cardinality(SetterRefs(v))' =
          Cardinality(SetterRefs(v)) + (IF p = "swap" /\ v = c THEN 1 ELSE 0) - (IF FALSE THEN 1 ELSE 0)
    <3>1. (t \in SetterRefs(v)' <=> p = "swap" /\ v = c) /\ (t \in SetterRefs(v) <=> FALSE)
      BY <1>0, <1>1, <1>3, <1>4, ValuesAssumption DEF SetterRefs, Owns, Setter, Property
    <3> QED
      BY <1>0, <1>4, <2>0, <3>1, SetterChange DEF Number
  <2>3. RemovedRefs(v)' = RemovedRefs(v)
    BY <1>0, <1>1, <1>3, <1>4 DEF RemovedRefs, LocalsInv
  <2>4. AssociationRefs(v)' = AssociationRefs(v)
    BY <1>1 DEF AssociationRefs
  <2>5. PropertyRefs(v)' = PropertyRefs(v)
    BY <1>1 DEF PropertyRefs
  <2>7. CountsAll(v) /\ count[v] \in Int
    BY <1>0 DEF CountInv, TypeOK
  <2>6. count'[v] = count[v] + (IF p = "swap" /\ v = c THEN 1 ELSE 0)
    BY <1>1, <1>c, <2>7
  <2> QED
    BY <1>1, <1>3, <2>0, <2>1, <2>2, <2>3, <2>4, <2>5, <2>6, <2>7 DEF CountsAll
<1> QED
  BY <1>5, <1>6, <1>7, <1>8, <1>9, <1>10, <1>11, <1>12, <1>13 DEF IndInv

\* The setter compares without the lock and retains the new value.
LEMMA CompareKeeps ==
  ASSUME IndInv, NEW t \in Threads, Compare(t), UNCHANGED assocVars
  PROVE  IndInv'
<1>0. /\ TypeOK /\ LocalsInv /\ ReadInv /\ UsableInv /\ PropertyLockInv /\ StructLockInv
      /\ PhaseInv /\ EmptyInv /\ CountInv
  BY DEF IndInv
<1>a. PICK p \in {"sameValue", "swap"} :
        /\ th' = [th EXCEPT ![t] = [th[t] EXCEPT !.pc = p]]
        /\ th[t].pc = "compare"
        /\ count' = IF p = "swap" THEN Retained(th[t].a.value) ELSE count
        /\ UNCHANGED <<held, object, refs, has_assoc, slot, atomic>>
  BY DEF Compare, Goto, Return, accessorVars, assocVars
<1>1. /\ th[t].pc = "compare"
      /\ count' = IF p = "swap" THEN Retained(th[t].a.value) ELSE count
      /\ UNCHANGED <<held, object, refs, has_assoc, slot, atomic>>
  BY <1>a
<1>2. th' = [th EXCEPT ![t] = [th[t] EXCEPT !.pc = p]]
  BY <1>a
<1>3. th[t] \in Call /\ th[t].a.value \in Values \cup {nil} /\ th[t].a = Property(th[t].a.value)
  BY <1>0, <1>1 DEF TypeOK, LocalsInv, Call, ObjcAssociation
<1>4. /\ \A u \in Threads : u # t => th'[u] = th[u]
      /\ th'[t].pc = p /\ th'[t].cell = th[t].cell /\ th'[t].a = th[t].a /\ th'[t].old = th[t].old
      /\ th'[t].assoc = th[t].assoc /\ th'[t].refs = th[t].refs /\ th'[t].src = th[t].src
  BY <1>0, <1>2, <1>3 DEF TypeOK, Call
<1>c. Retained(th[t].a.value) \in [Values -> Int] /\ \A v \in Values : Retained(th[t].a.value)[v] = count[v] + (IF v = th[t].a.value THEN 1 ELSE 0)
  BY <1>0, <1>3, CountEdit
<1>5. TypeOK'
  <2>1. th'[t] \in Call
    BY <1>0, <1>1, <1>2, <1>3, AssociationTypes DEF TypeOK, Call, Idle, PCs, AssociationPCs, PropertyPCs, StructPCs, DeallocPCs
  <2> QED
    BY <1>0, <1>1, <1>2, <1>3, <2>1, <1>c DEF TypeOK
<1>6. LocalsInv'
  BY <1>0, <1>1, <1>3, <1>4 DEF LocalsInv, Room, AssociationPCs, PropertyPCs, StructPCs, GetterPCs
<1>7. ReadInv'
  BY <1>0, <1>1, <1>3, <1>4 DEF ReadInv, LocalsInv, PropertyPCs, AssociationPCs
<1>8. UsableInv'
  BY <1>0, <1>1, <1>3, <1>4 DEF UsableInv, Usable
<1>9. PropertyLockInv'
  BY <1>0, <1>1, <1>3, <1>4 DEF PropertyLockInv, PropertyUnlocked, Inside
<1>10. StructLockInv'
  <2>1. \A u \in Threads : StructHeld(u)' = StructHeld(u)
    BY <1>0, <1>1, <1>3, <1>4 DEF StructHeld, Stripes
  <2> QED
    BY <1>0, <2>1 DEF StructLockInv
<1>11. PhaseInv'
  BY <1>0, <1>1, <1>3, <1>4 DEF PhaseInv, StructPCs, DeallocPCs
<1>12. EmptyInv'
  BY <1>0, <1>1, <1>3, <1>4 DEF EmptyInv, NoAssociations, NoProperties, LocalsInv, PhaseInv, StructPCs, DeallocPCs, No
<1>13. CountInv'
  <2> SUFFICES ASSUME NEW v \in Values
               PROVE  CountsAll(v)'
    BY DEF CountInv
  <2>0. /\ Cardinality(ClientRefs(v)) \in Nat /\ Cardinality(SetterRefs(v)) \in Nat /\ Cardinality(RemovedRefs(v)) \in Nat
        /\ Cardinality(AssociationRefs(v)) \in Nat /\ Cardinality(PropertyRefs(v)) \in Nat
    BY <1>0, RefsFinite
  <2>1. ClientRefs(v)' = ClientRefs(v)
    BY <1>1 DEF ClientRefs
  <2>2. Cardinality(SetterRefs(v))' =
          Cardinality(SetterRefs(v)) + (IF p = "swap" /\ v = th[t].a.value THEN 1 ELSE 0) - (IF FALSE THEN 1 ELSE 0)
    <3>1. (t \in SetterRefs(v)' <=> p = "swap" /\ v = th[t].a.value) /\ (t \in SetterRefs(v) <=> FALSE)
      BY <1>0, <1>1, <1>3, <1>4, ValuesAssumption DEF SetterRefs, Owns, Setter, Property
    <3> QED
      BY <1>0, <1>4, <2>0, <3>1, SetterChange DEF Number
  <2>3. RemovedRefs(v)' = RemovedRefs(v)
    BY <1>0, <1>1, <1>3, <1>4 DEF RemovedRefs, LocalsInv
  <2>4. AssociationRefs(v)' = AssociationRefs(v)
    BY <1>1 DEF AssociationRefs
  <2>5. PropertyRefs(v)' = PropertyRefs(v)
    BY <1>1 DEF PropertyRefs
  <2>7. CountsAll(v) /\ count[v] \in Int
    BY <1>0 DEF CountInv, TypeOK
  <2>6. count'[v] = count[v] + (IF p = "swap" /\ v = th[t].a.value THEN 1 ELSE 0)
    BY <1>1, <1>c, <2>7
  <2> QED
    BY <1>1, <1>3, <2>0, <2>1, <2>2, <2>3, <2>4, <2>5, <2>6, <2>7 DEF CountsAll
<1> QED
  BY <1>5, <1>6, <1>7, <1>8, <1>9, <1>10, <1>11, <1>12, <1>13 DEF IndInv

\* The setter stores the new value and keeps the old one to release it.
LEMMA StoreKeeps ==
  ASSUME IndInv, NEW t \in Threads, Store(t), UNCHANGED assocVars
  PROVE  IndInv'
<1>0. /\ TypeOK /\ LocalsInv /\ ReadInv /\ UsableInv /\ PropertyLockInv /\ StructLockInv
      /\ PhaseInv /\ EmptyInv /\ CountInv
  BY DEF IndInv
<1>1. /\ th[t].pc = "store"
      /\ slot' = [slot EXCEPT ![th[t].cell] = th[t].a.value]
      /\ UNCHANGED <<count, held, object, refs, has_assoc, atomic>>
  BY DEF Store, Goto, Return, accessorVars, assocVars
<1>2. th' = [th EXCEPT ![t] = [th[t] EXCEPT !.pc = "release", !.a = Property(th[t].old), !.old = nil]]
  BY DEF Store, Goto, Return, accessorVars, assocVars
<1>3. th[t] \in Call /\ th[t].a.value \in Values \cup {nil} /\ th[t].old \in Values \cup {nil} /\ th[t].a = Property(th[t].a.value) /\ th[t].cell \in Slots /\ th[t].old = slot[th[t].cell]
  BY <1>0, <1>1 DEF TypeOK, LocalsInv, ReadInv, Call, ObjcAssociation, PropertyPCs
<1>4. /\ \A u \in Threads : u # t => th'[u] = th[u]
      /\ th'[t].pc = "release" /\ th'[t].cell = th[t].cell /\ th'[t].a = Property(th[t].old) /\ th'[t].old = nil
      /\ th'[t].assoc = th[t].assoc /\ th'[t].refs = th[t].refs /\ th'[t].src = th[t].src
  BY <1>0, <1>2, <1>3 DEF TypeOK, Call
<1>5. TypeOK'
  <2>1. th'[t] \in Call
    BY <1>0, <1>1, <1>2, <1>3, AssociationTypes DEF TypeOK, Call, Idle, PCs, AssociationPCs, PropertyPCs, StructPCs, DeallocPCs
  <2> QED
    BY <1>0, <1>1, <1>2, <1>3, <2>1 DEF TypeOK
<1>6. LocalsInv'
  BY <1>0, <1>1, <1>3, <1>4 DEF LocalsInv, Room, AssociationPCs, PropertyPCs, StructPCs, GetterPCs
<1>7. ReadInv'
  <2>1. ASSUME NEW u \in Threads, u # t, th[u].pc \in {"retainProperty", "store"}
        PROVE  th[u].cell # th[t].cell /\ th[u].cell \in Slots
    BY <1>0, <1>1, <1>3, <2>1 DEF UsableInv, PropertyLockInv, Inside, LocalsInv, PropertyPCs
  <2>2. \A s \in Slots : s # th[t].cell => slot'[s] = slot[s]
    BY <1>0, <1>1, <1>3 DEF TypeOK
  <2> QED
    BY <1>0, <1>1, <1>4, <2>1, <2>2 DEF ReadInv
<1>8. UsableInv'
  BY <1>0, <1>1, <1>3, <1>4 DEF UsableInv, Usable
<1>9. PropertyLockInv'
  BY <1>0, <1>1, <1>3, <1>4 DEF PropertyLockInv, PropertyUnlocked, Inside
<1>10. StructLockInv'
  <2>1. \A u \in Threads : StructHeld(u)' = StructHeld(u)
    BY <1>0, <1>1, <1>3, <1>4 DEF StructHeld, Stripes
  <2> QED
    BY <1>0, <2>1 DEF StructLockInv
<1>11. PhaseInv'
  BY <1>0, <1>1, <1>3, <1>4 DEF PhaseInv, StructPCs, DeallocPCs
<1>12. EmptyInv'
  BY <1>0, <1>1, <1>3, <1>4 DEF EmptyInv, NoAssociations, NoProperties, LocalsInv, PhaseInv, StructPCs, DeallocPCs, No
<1>13. CountInv'
  <2> SUFFICES ASSUME NEW v \in Values
               PROVE  CountsAll(v)'
    BY DEF CountInv
  <2>0. /\ Cardinality(ClientRefs(v)) \in Nat /\ Cardinality(SetterRefs(v)) \in Nat /\ Cardinality(RemovedRefs(v)) \in Nat
        /\ Cardinality(AssociationRefs(v)) \in Nat /\ Cardinality(PropertyRefs(v)) \in Nat
    BY <1>0, RefsFinite
  <2>1. ClientRefs(v)' = ClientRefs(v)
    BY <1>1 DEF ClientRefs
  <2>2. Cardinality(SetterRefs(v))' =
          Cardinality(SetterRefs(v)) + (IF v = th[t].old THEN 1 ELSE 0) - (IF v = th[t].a.value THEN 1 ELSE 0)
    <3>1. (t \in SetterRefs(v)' <=> v = th[t].old) /\ (t \in SetterRefs(v) <=> v = th[t].a.value)
      BY <1>0, <1>1, <1>3, <1>4, ValuesAssumption DEF SetterRefs, Owns, Setter, Property
    <3> QED
      BY <1>0, <1>4, <2>0, <3>1, SetterChange DEF Number
  <2>3. RemovedRefs(v)' = RemovedRefs(v)
    BY <1>0, <1>1, <1>3, <1>4 DEF RemovedRefs, LocalsInv
  <2>4. AssociationRefs(v)' = AssociationRefs(v)
    BY <1>1 DEF AssociationRefs
  <2>5. Cardinality(PropertyRefs(v))' =
          Cardinality(PropertyRefs(v)) + (IF v = th[t].a.value THEN 1 ELSE 0) - (IF v = th[t].old THEN 1 ELSE 0)
    <3>1. slot'[th[t].cell] = th[t].a.value /\ \A s \in Slots : s # th[t].cell => slot'[s] = slot[s]
      BY <1>0, <1>1, <1>3 DEF TypeOK
    <3> QED
      BY <1>0, <1>3, <3>1, PropertyChange
  <2>7. CountsAll(v) /\ count[v] \in Int
    BY <1>0 DEF CountInv, TypeOK
  <2>6. count'[v] = count[v]
    BY <1>1
  <2> QED
    BY <1>1, <1>3, <2>0, <2>1, <2>2, <2>3, <2>4, <2>5, <2>6, <2>7 DEF CountsAll
<1> QED
  BY <1>5, <1>6, <1>7, <1>8, <1>9, <1>10, <1>11, <1>12, <1>13 DEF IndInv

\* cxxDestruct is done with the properties.
LEMMA CxxDestructEndKeeps ==
  ASSUME IndInv, NEW t \in Threads, NoProperties, cxxDestruct(t), UNCHANGED assocVars
  PROVE  IndInv'
<1>0. /\ TypeOK /\ LocalsInv /\ ReadInv /\ UsableInv /\ PropertyLockInv /\ StructLockInv
      /\ PhaseInv /\ EmptyInv /\ CountInv
  BY DEF IndInv
<1>1. /\ th[t].pc = "cxxDestruct"
      /\ UNCHANGED <<count, held, object, refs, has_assoc, slot, atomic>>
  BY DEF cxxDestruct, NoProperties, Goto, Return, accessorVars, assocVars
<1>2. th' = [th EXCEPT ![t] = [th[t] EXCEPT !.pc = IF th[t].assoc THEN "remove" ELSE "free"]]
  BY DEF cxxDestruct, NoProperties, Goto, Return, accessorVars, assocVars
<1>3. th[t] \in Call
  BY <1>0, <1>1 DEF TypeOK, LocalsInv, AssociationPCs, PropertyPCs, StructPCs
<1>4. /\ \A u \in Threads : u # t => th'[u] = th[u]
      /\ th'[t].pc = (IF th[t].assoc THEN "remove" ELSE "free") /\ th'[t].cell = th[t].cell /\ th'[t].a = th[t].a /\ th'[t].old = th[t].old
      /\ th'[t].assoc = th[t].assoc /\ th'[t].refs = th[t].refs /\ th'[t].src = th[t].src
  BY <1>0, <1>2, <1>3 DEF TypeOK, Call
<1>5. TypeOK'
  <2>1. th'[t] \in Call
    BY <1>0, <1>1, <1>2, <1>3, AssociationTypes DEF TypeOK, Call, Idle, PCs, AssociationPCs, PropertyPCs, StructPCs, DeallocPCs
  <2> QED
    BY <1>0, <1>1, <1>2, <1>3, <2>1 DEF TypeOK
<1>6. LocalsInv'
  BY <1>0, <1>1, <1>3, <1>4 DEF LocalsInv, Room, AssociationPCs, PropertyPCs, StructPCs, GetterPCs
<1>7. ReadInv'
  BY <1>0, <1>1, <1>3, <1>4 DEF ReadInv, LocalsInv, PropertyPCs, AssociationPCs
<1>8. UsableInv'
  BY <1>0, <1>1, <1>3, <1>4 DEF UsableInv, Usable
<1>9. PropertyLockInv'
  BY <1>0, <1>1, <1>3, <1>4 DEF PropertyLockInv, PropertyUnlocked, Inside
<1>10. StructLockInv'
  <2>1. \A u \in Threads : StructHeld(u)' = StructHeld(u)
    BY <1>0, <1>1, <1>3, <1>4 DEF StructHeld, Stripes
  <2> QED
    BY <1>0, <2>1 DEF StructLockInv
<1>11. PhaseInv'
  BY <1>0, <1>1, <1>3, <1>4 DEF PhaseInv, StructPCs, DeallocPCs
<1>12. EmptyInv'
  BY <1>0, <1>1, <1>3, <1>4 DEF EmptyInv, NoAssociations, NoProperties, LocalsInv, PhaseInv, StructPCs, DeallocPCs, No
<1>13. CountInv'
  <2>1. \A v \in Values : /\ ClientRefs(v)' = ClientRefs(v) /\ SetterRefs(v)' = SetterRefs(v)
                          /\ RemovedRefs(v)' = RemovedRefs(v) /\ AssociationRefs(v)' = AssociationRefs(v)
                          /\ PropertyRefs(v)' = PropertyRefs(v)
    BY <1>0, <1>1, <1>3, <1>4, NoOwner DEF ClientRefs, SetterRefs, RemovedRefs, AssociationRefs, PropertyRefs, LocalsInv
  <2> QED
    BY <1>0, <1>1, <2>1 DEF CountInv, CountsAll
<1> QED
  BY <1>5, <1>6, <1>7, <1>8, <1>9, <1>10, <1>11, <1>12, <1>13 DEF IndInv

----------------------------------------------------------------------------
(* Associated objects keep the invariant.                                  *)

\* _object_get_associative_reference begins.
LEMMA GetAssociationKeeps ==
  ASSUME IndInv, NEW t \in Threads, NEW k \in Keys, GetAssociation(t, k), UNCHANGED accessorVars
  PROVE  IndInv'
<1>0. /\ TypeOK /\ LocalsInv /\ ReadInv /\ UsableInv /\ PropertyLockInv /\ StructLockInv
      /\ PhaseInv /\ EmptyInv /\ CountInv
  BY DEF IndInv
<1>1. /\ th[t].pc = "idle" /\ object = "alive" /\ Room(t)
      /\ UNCHANGED <<count, held, object, refs, has_assoc, slot, atomic>>
  BY DEF GetAssociation, Calls, Goto, Return, accessorVars, assocVars
<1>2. th' = [th EXCEPT ![t] = [Idle EXCEPT !.pc = "get", !.cell = k]]
  BY DEF GetAssociation, Calls, Goto, Return, accessorVars, assocVars
<1>3. th[t] \in Call
  BY <1>0, <1>1 DEF TypeOK, LocalsInv, AssociationPCs, PropertyPCs, StructPCs
<1>4. /\ \A u \in Threads : u # t => th'[u] = th[u]
      /\ th'[t].pc = "get" /\ th'[t].cell = k /\ th'[t].a = No /\ th'[t].old = nil
      /\ th'[t].assoc = FALSE /\ th'[t].refs = {} /\ th'[t].src = nil
  BY <1>0, <1>2, <1>3 DEF TypeOK, Call, Idle
<1>5. TypeOK'
  <2>1. th'[t] \in Call
    BY <1>0, <1>1, <1>2, <1>3, AssociationTypes DEF TypeOK, Call, Idle, PCs, AssociationPCs, PropertyPCs, StructPCs, DeallocPCs
  <2> QED
    BY <1>0, <1>1, <1>2, <1>3, <2>1 DEF TypeOK
<1>6. LocalsInv'
  BY <1>0, <1>1, <1>3, <1>4 DEF LocalsInv, Room, AssociationPCs, PropertyPCs, StructPCs, GetterPCs
<1>7. ReadInv'
  BY <1>0, <1>1, <1>3, <1>4 DEF ReadInv, LocalsInv, PropertyPCs, AssociationPCs
<1>8. UsableInv'
  BY <1>0, <1>1, <1>3, <1>4, StorageAssumption DEF UsableInv, Usable
<1>9. PropertyLockInv'
  BY <1>0, <1>1, <1>3, <1>4 DEF PropertyLockInv, PropertyUnlocked, Inside
<1>10. StructLockInv'
  <2>1. \A u \in Threads : StructHeld(u)' = StructHeld(u)
    BY <1>0, <1>1, <1>3, <1>4 DEF StructHeld, Stripes
  <2> QED
    BY <1>0, <2>1 DEF StructLockInv
<1>11. PhaseInv'
  BY <1>0, <1>1, <1>3, <1>4 DEF PhaseInv, StructPCs, DeallocPCs
<1>12. EmptyInv'
  BY <1>0, <1>1, <1>3, <1>4 DEF EmptyInv, NoAssociations, NoProperties, LocalsInv, PhaseInv, StructPCs, DeallocPCs, No
<1>13. CountInv'
  <2>1. \A v \in Values : /\ ClientRefs(v)' = ClientRefs(v) /\ SetterRefs(v)' = SetterRefs(v)
                          /\ RemovedRefs(v)' = RemovedRefs(v) /\ AssociationRefs(v)' = AssociationRefs(v)
                          /\ PropertyRefs(v)' = PropertyRefs(v)
    BY <1>0, <1>1, <1>3, <1>4, NoOwner DEF ClientRefs, SetterRefs, RemovedRefs, AssociationRefs, PropertyRefs, LocalsInv
  <2> QED
    BY <1>0, <1>1, <2>1 DEF CountInv, CountsAll
<1> QED
  BY <1>5, <1>6, <1>7, <1>8, <1>9, <1>10, <1>11, <1>12, <1>13 DEF IndInv

\* The getter finds the association inside of the lock.
LEMMA FindAssociationKeeps ==
  ASSUME IndInv, NEW t \in Threads, FindAssociation(t), UNCHANGED accessorVars
  PROVE  IndInv'
<1>0. /\ TypeOK /\ LocalsInv /\ ReadInv /\ UsableInv /\ PropertyLockInv /\ StructLockInv
      /\ PhaseInv /\ EmptyInv /\ CountInv
  BY DEF IndInv
<1>1. /\ th[t].pc = "get" /\ ManagerUnlocked
      /\ UNCHANGED <<count, held, object, refs, has_assoc, slot, atomic>>
  BY DEF FindAssociation, Goto, Return, accessorVars, assocVars
<1>2. th' = [th EXCEPT ![t] = [th[t] EXCEPT !.a = refs[th[t].cell], !.pc = IF GetterRetain(refs[th[t].cell]) THEN "retainReturned" ELSE "return"]]
  BY DEF FindAssociation, Goto, Return, accessorVars, assocVars
<1>3. th[t] \in Call /\ th[t].cell \in Keys
  BY <1>0, <1>1 DEF TypeOK, LocalsInv, AssociationPCs, PropertyPCs, StructPCs
<1>4. /\ \A u \in Threads : u # t => th'[u] = th[u]
      /\ th'[t].pc = (IF GetterRetain(refs[th[t].cell]) THEN "retainReturned" ELSE "return") /\ th'[t].cell = th[t].cell /\ th'[t].a = refs[th[t].cell] /\ th'[t].old = th[t].old
      /\ th'[t].assoc = th[t].assoc /\ th'[t].refs = th[t].refs /\ th'[t].src = th[t].src
  BY <1>0, <1>2, <1>3 DEF TypeOK, Call
<1>5. TypeOK'
  <2>1. th'[t] \in Call
    BY <1>0, <1>1, <1>2, <1>3, AssociationTypes DEF TypeOK, Call, Idle, PCs, AssociationPCs, PropertyPCs, StructPCs, DeallocPCs
  <2> QED
    BY <1>0, <1>1, <1>2, <1>3, <2>1 DEF TypeOK
<1>6. LocalsInv'
  BY <1>0, <1>1, <1>3, <1>4 DEF LocalsInv, Room, AssociationPCs, PropertyPCs, StructPCs, GetterPCs
<1>7. ReadInv'
  BY <1>0, <1>1, <1>3, <1>4 DEF ReadInv, LocalsInv, PropertyPCs, AssociationPCs, GetterRetain, Setter
<1>8. UsableInv'
  BY <1>0, <1>1, <1>3, <1>4 DEF UsableInv, Usable
<1>9. PropertyLockInv'
  BY <1>0, <1>1, <1>3, <1>4 DEF PropertyLockInv, PropertyUnlocked, Inside
<1>10. StructLockInv'
  <2>1. \A u \in Threads : StructHeld(u)' = StructHeld(u)
    BY <1>0, <1>1, <1>3, <1>4 DEF StructHeld, Stripes
  <2> QED
    BY <1>0, <2>1 DEF StructLockInv
<1>11. PhaseInv'
  BY <1>0, <1>1, <1>3, <1>4 DEF PhaseInv, StructPCs, DeallocPCs
<1>12. EmptyInv'
  BY <1>0, <1>1, <1>3, <1>4 DEF EmptyInv, NoAssociations, NoProperties, LocalsInv, PhaseInv, StructPCs, DeallocPCs, No
<1>13. CountInv'
  <2>1. \A v \in Values : /\ ClientRefs(v)' = ClientRefs(v) /\ SetterRefs(v)' = SetterRefs(v)
                          /\ RemovedRefs(v)' = RemovedRefs(v) /\ AssociationRefs(v)' = AssociationRefs(v)
                          /\ PropertyRefs(v)' = PropertyRefs(v)
    BY <1>0, <1>1, <1>3, <1>4, NoOwner DEF ClientRefs, SetterRefs, RemovedRefs, AssociationRefs, PropertyRefs, LocalsInv
  <2> QED
    BY <1>0, <1>1, <2>1 DEF CountInv, CountsAll
<1> QED
  BY <1>5, <1>6, <1>7, <1>8, <1>9, <1>10, <1>11, <1>12, <1>13 DEF IndInv

\* The getter retains what it found, still inside of the lock.
LEMMA RetainReturnedKeeps ==
  ASSUME IndInv, NEW t \in Threads, RetainReturned(t), UNCHANGED accessorVars
  PROVE  IndInv'
<1>0. /\ TypeOK /\ LocalsInv /\ ReadInv /\ UsableInv /\ PropertyLockInv /\ StructLockInv
      /\ PhaseInv /\ EmptyInv /\ CountInv
  BY DEF IndInv
<1>1. /\ th[t].pc = "retainReturned"
      /\ count' = Retained(th[t].a.value) /\ held' = Autoreleased(t, th[t].a.value)
      /\ UNCHANGED <<object, refs, has_assoc, slot, atomic>>
  BY DEF RetainReturned, Goto, Return, accessorVars, assocVars
<1>2. th' = [th EXCEPT ![t] = Idle]
  BY DEF RetainReturned, Goto, Return, accessorVars, assocVars
<1>3. th[t] \in Call /\ th[t].a.value \in Values \cup {nil} /\ Room(t)
  BY <1>0, <1>1 DEF TypeOK, LocalsInv, GetterPCs, Call, ObjcAssociation
<1>4. /\ \A u \in Threads : u # t => th'[u] = th[u]
      /\ th'[t].pc = "idle" /\ th'[t].cell = nil /\ th'[t].a = No /\ th'[t].old = nil
      /\ th'[t].assoc = FALSE /\ th'[t].refs = {} /\ th'[t].src = nil
  BY <1>0, <1>2, <1>3 DEF TypeOK, Call, Idle
<1>c. Retained(th[t].a.value) \in [Values -> Int] /\ \A v \in Values : Retained(th[t].a.value)[v] = count[v] + (IF v = th[t].a.value THEN 1 ELSE 0)
  BY <1>0, <1>3, CountEdit
<1>5. TypeOK'
  <2>1. th'[t] \in Call
    BY <1>2, <1>0, AssociationTypes DEF TypeOK, Call, Idle, PCs
  <2>2. held' \in [Threads -> [Values -> 0..MaxHeld]]
    BY <1>0, <1>1, <1>3, ValuesAssumption DEF TypeOK, Autoreleased, Room
  <2> QED
    BY <1>0, <1>1, <1>2, <1>3, <1>c, <2>1, <2>2 DEF TypeOK
<1>6. LocalsInv'
  <2>1. \A u \in Threads : u # t => held'[u] = held[u]
    BY <1>0, <1>1 DEF TypeOK, Autoreleased
  <2> QED
    BY <1>0, <1>1, <1>3, <1>4, <2>1 DEF LocalsInv, Room, AssociationPCs, PropertyPCs, StructPCs, GetterPCs
<1>7. ReadInv'
  BY <1>0, <1>1, <1>3, <1>4 DEF ReadInv, LocalsInv, PropertyPCs, AssociationPCs
<1>8. UsableInv'
  BY <1>0, <1>1, <1>3, <1>4, AccessorsAssumption DEF UsableInv, Usable
<1>9. PropertyLockInv'
  BY <1>0, <1>1, <1>3, <1>4 DEF PropertyLockInv, PropertyUnlocked, Inside
<1>10. StructLockInv'
  <2>1. \A u \in Threads : StructHeld(u)' = StructHeld(u)
    BY <1>0, <1>1, <1>3, <1>4 DEF StructHeld, Stripes
  <2> QED
    BY <1>0, <2>1 DEF StructLockInv
<1>11. PhaseInv'
  BY <1>0, <1>1, <1>3, <1>4 DEF PhaseInv, StructPCs, DeallocPCs
<1>12. EmptyInv'
  BY <1>0, <1>1, <1>3, <1>4 DEF EmptyInv, NoAssociations, NoProperties, LocalsInv, PhaseInv, StructPCs, DeallocPCs, No
<1>13. CountInv'
  <2> SUFFICES ASSUME NEW v \in Values
               PROVE  CountsAll(v)'
    BY DEF CountInv
  <2>0. /\ Cardinality(ClientRefs(v)) \in Nat /\ Cardinality(SetterRefs(v)) \in Nat /\ Cardinality(RemovedRefs(v)) \in Nat
        /\ Cardinality(AssociationRefs(v)) \in Nat /\ Cardinality(PropertyRefs(v)) \in Nat
    BY <1>0, RefsFinite
  <2>1. Cardinality(ClientRefs(v))' = Cardinality(ClientRefs(v)) + (IF v = th[t].a.value THEN 1 ELSE 0)
    <3>1. CASE th[t].a.value = nil
      BY <1>1, <2>0, <3>1, ValuesAssumption DEF Autoreleased, ClientRefs
    <3>2. CASE th[t].a.value # nil
      <4> DEFINE c == th[t].a.value
      <4>1. c \in Values /\ held[t][c] + 1 \in 0..MaxHeld
        BY <1>0, <1>3, <3>2, ValuesAssumption DEF TypeOK, Room
      <4>2. held' = [held EXCEPT ![t][c] = held[t][c] + 1]
        BY <1>1, <3>2 DEF Autoreleased
      <4> HIDE DEF c
      <4>3. Cardinality(ClientRefs(v))' = Cardinality(ClientRefs(v)) + (IF v = c THEN 1 ELSE 0)
        BY <1>0, <4>1, <4>2, ClientChange
      <4> QED
        BY <4>3 DEF c
    <3> QED
      BY <3>1, <3>2
  <2>2. SetterRefs(v)' = SetterRefs(v)
    BY <1>0, <1>1, <1>3, <1>4, NoOwner DEF SetterRefs
  <2>3. RemovedRefs(v)' = RemovedRefs(v)
    BY <1>0, <1>1, <1>3, <1>4 DEF RemovedRefs, LocalsInv
  <2>4. AssociationRefs(v)' = AssociationRefs(v)
    BY <1>1 DEF AssociationRefs
  <2>5. PropertyRefs(v)' = PropertyRefs(v)
    BY <1>1 DEF PropertyRefs
  <2>7. CountsAll(v) /\ count[v] \in Int
    BY <1>0 DEF CountInv, TypeOK
  <2>6. count'[v] = count[v] + (IF v = th[t].a.value THEN 1 ELSE 0)
    BY <1>1, <1>c, <2>7
  <2> QED
    BY <1>1, <1>3, <2>0, <2>1, <2>2, <2>3, <2>4, <2>5, <2>6, <2>7 DEF CountsAll
<1> QED
  BY <1>5, <1>6, <1>7, <1>8, <1>9, <1>10, <1>11, <1>12, <1>13 DEF IndInv

\* objc_removeAssociatedObjects begins.
LEMMA RemoveAllKeeps ==
  ASSUME IndInv, NEW t \in Threads, RemoveAll(t), UNCHANGED accessorVars
  PROVE  IndInv'
<1>0. /\ TypeOK /\ LocalsInv /\ ReadInv /\ UsableInv /\ PropertyLockInv /\ StructLockInv
      /\ PhaseInv /\ EmptyInv /\ CountInv
  BY DEF IndInv
<1>1. /\ th[t].pc = "idle" /\ object = "alive"
      /\ UNCHANGED <<count, held, object, refs, has_assoc, slot, atomic>>
  BY DEF RemoveAll, Calls, Goto, Return, accessorVars, assocVars
<1>2. th' = [th EXCEPT ![t] = [Idle EXCEPT !.pc = "hasAssociatedObjects"]]
  BY DEF RemoveAll, Calls, Goto, Return, accessorVars, assocVars
<1>3. th[t] \in Call
  BY <1>0, <1>1 DEF TypeOK, LocalsInv, AssociationPCs, PropertyPCs, StructPCs
<1>4. /\ \A u \in Threads : u # t => th'[u] = th[u]
      /\ th'[t].pc = "hasAssociatedObjects" /\ th'[t].cell = nil /\ th'[t].a = No /\ th'[t].old = nil
      /\ th'[t].assoc = FALSE /\ th'[t].refs = {} /\ th'[t].src = nil
  BY <1>0, <1>2, <1>3 DEF TypeOK, Call, Idle
<1>5. TypeOK'
  <2>1. th'[t] \in Call
    BY <1>0, <1>1, <1>2, <1>3, AssociationTypes DEF TypeOK, Call, Idle, PCs, AssociationPCs, PropertyPCs, StructPCs, DeallocPCs
  <2> QED
    BY <1>0, <1>1, <1>2, <1>3, <2>1 DEF TypeOK
<1>6. LocalsInv'
  BY <1>0, <1>1, <1>3, <1>4 DEF LocalsInv, Room, AssociationPCs, PropertyPCs, StructPCs, GetterPCs
<1>7. ReadInv'
  BY <1>0, <1>1, <1>3, <1>4 DEF ReadInv, LocalsInv, PropertyPCs, AssociationPCs
<1>8. UsableInv'
  BY <1>0, <1>1, <1>3, <1>4, AccessorsAssumption DEF UsableInv, Usable
<1>9. PropertyLockInv'
  BY <1>0, <1>1, <1>3, <1>4 DEF PropertyLockInv, PropertyUnlocked, Inside
<1>10. StructLockInv'
  <2>1. \A u \in Threads : StructHeld(u)' = StructHeld(u)
    BY <1>0, <1>1, <1>3, <1>4 DEF StructHeld, Stripes
  <2> QED
    BY <1>0, <2>1 DEF StructLockInv
<1>11. PhaseInv'
  BY <1>0, <1>1, <1>3, <1>4 DEF PhaseInv, StructPCs, DeallocPCs
<1>12. EmptyInv'
  BY <1>0, <1>1, <1>3, <1>4 DEF EmptyInv, NoAssociations, NoProperties, LocalsInv, PhaseInv, StructPCs, DeallocPCs, No
<1>13. CountInv'
  <2>1. \A v \in Values : /\ ClientRefs(v)' = ClientRefs(v) /\ SetterRefs(v)' = SetterRefs(v)
                          /\ RemovedRefs(v)' = RemovedRefs(v) /\ AssociationRefs(v)' = AssociationRefs(v)
                          /\ PropertyRefs(v)' = PropertyRefs(v)
    BY <1>0, <1>1, <1>3, <1>4, NoOwner DEF ClientRefs, SetterRefs, RemovedRefs, AssociationRefs, PropertyRefs, LocalsInv
  <2> QED
    BY <1>0, <1>1, <2>1 DEF CountInv, CountsAll
<1> QED
  BY <1>5, <1>6, <1>7, <1>8, <1>9, <1>10, <1>11, <1>12, <1>13 DEF IndInv

\* objc_removeAssociatedObjects reads the flag.
LEMMA HasAssociatedObjectsKeeps ==
  ASSUME IndInv, NEW t \in Threads, HasAssociatedObjects(t), UNCHANGED accessorVars
  PROVE  IndInv'
<1>0. /\ TypeOK /\ LocalsInv /\ ReadInv /\ UsableInv /\ PropertyLockInv /\ StructLockInv
      /\ PhaseInv /\ EmptyInv /\ CountInv
  BY DEF IndInv
<1>1. /\ th[t].pc = "hasAssociatedObjects"
      /\ UNCHANGED <<count, held, object, refs, has_assoc, slot, atomic>>
  BY DEF HasAssociatedObjects, Goto, Return, accessorVars, assocVars
<1>2. th' = [th EXCEPT ![t] = [th[t] EXCEPT !.pc = IF has_assoc THEN "remove" ELSE "nothingToRemove"]]
  BY DEF HasAssociatedObjects, Goto, Return, accessorVars, assocVars
<1>3. th[t] \in Call
  BY <1>0, <1>1 DEF TypeOK, LocalsInv, AssociationPCs, PropertyPCs, StructPCs
<1>4. /\ \A u \in Threads : u # t => th'[u] = th[u]
      /\ th'[t].pc = (IF has_assoc THEN "remove" ELSE "nothingToRemove") /\ th'[t].cell = th[t].cell /\ th'[t].a = th[t].a /\ th'[t].old = th[t].old
      /\ th'[t].assoc = th[t].assoc /\ th'[t].refs = th[t].refs /\ th'[t].src = th[t].src
  BY <1>0, <1>2, <1>3 DEF TypeOK, Call
<1>5. TypeOK'
  <2>1. th'[t] \in Call
    BY <1>0, <1>1, <1>2, <1>3, AssociationTypes DEF TypeOK, Call, Idle, PCs, AssociationPCs, PropertyPCs, StructPCs, DeallocPCs
  <2> QED
    BY <1>0, <1>1, <1>2, <1>3, <2>1 DEF TypeOK
<1>6. LocalsInv'
  BY <1>0, <1>1, <1>3, <1>4 DEF LocalsInv, Room, AssociationPCs, PropertyPCs, StructPCs, GetterPCs
<1>7. ReadInv'
  BY <1>0, <1>1, <1>3, <1>4 DEF ReadInv, LocalsInv, PropertyPCs, AssociationPCs
<1>8. UsableInv'
  BY <1>0, <1>1, <1>3, <1>4 DEF UsableInv, Usable
<1>9. PropertyLockInv'
  BY <1>0, <1>1, <1>3, <1>4 DEF PropertyLockInv, PropertyUnlocked, Inside
<1>10. StructLockInv'
  <2>1. \A u \in Threads : StructHeld(u)' = StructHeld(u)
    BY <1>0, <1>1, <1>3, <1>4 DEF StructHeld, Stripes
  <2> QED
    BY <1>0, <2>1 DEF StructLockInv
<1>11. PhaseInv'
  BY <1>0, <1>1, <1>3, <1>4 DEF PhaseInv, StructPCs, DeallocPCs
<1>12. EmptyInv'
  BY <1>0, <1>1, <1>3, <1>4 DEF EmptyInv, NoAssociations, NoProperties, LocalsInv, PhaseInv, StructPCs, DeallocPCs, No
<1>13. CountInv'
  <2>1. \A v \in Values : /\ ClientRefs(v)' = ClientRefs(v) /\ SetterRefs(v)' = SetterRefs(v)
                          /\ RemovedRefs(v)' = RemovedRefs(v) /\ AssociationRefs(v)' = AssociationRefs(v)
                          /\ PropertyRefs(v)' = PropertyRefs(v)
    BY <1>0, <1>1, <1>3, <1>4, NoOwner DEF ClientRefs, SetterRefs, RemovedRefs, AssociationRefs, PropertyRefs, LocalsInv
  <2> QED
    BY <1>0, <1>1, <2>1 DEF CountInv, CountsAll
<1> QED
  BY <1>5, <1>6, <1>7, <1>8, <1>9, <1>10, <1>11, <1>12, <1>13 DEF IndInv

\* The flag of the object is set, outside of the lock.
LEMMA SetHasAssociatedObjectsKeeps ==
  ASSUME IndInv, NEW t \in Threads, SetHasAssociatedObjects(t), UNCHANGED accessorVars
  PROVE  IndInv'
<1>0. /\ TypeOK /\ LocalsInv /\ ReadInv /\ UsableInv /\ PropertyLockInv /\ StructLockInv
      /\ PhaseInv /\ EmptyInv /\ CountInv
  BY DEF IndInv
<1>1. /\ th[t].pc = "setHasAssociatedObjects"
      /\ has_assoc' = TRUE
      /\ UNCHANGED <<count, held, object, refs, slot, atomic>>
  BY DEF SetHasAssociatedObjects, Goto, Return, accessorVars, assocVars
<1>2. th' = [th EXCEPT ![t] = [th[t] EXCEPT !.pc = "release"]]
  BY DEF SetHasAssociatedObjects, Goto, Return, accessorVars, assocVars
<1>3. th[t] \in Call
  BY <1>0, <1>1 DEF TypeOK, LocalsInv, AssociationPCs, PropertyPCs, StructPCs
<1>4. /\ \A u \in Threads : u # t => th'[u] = th[u]
      /\ th'[t].pc = "release" /\ th'[t].cell = th[t].cell /\ th'[t].a = th[t].a /\ th'[t].old = th[t].old
      /\ th'[t].assoc = th[t].assoc /\ th'[t].refs = th[t].refs /\ th'[t].src = th[t].src
  BY <1>0, <1>2, <1>3 DEF TypeOK, Call
<1>5. TypeOK'
  <2>1. th'[t] \in Call
    BY <1>0, <1>1, <1>2, <1>3, AssociationTypes DEF TypeOK, Call, Idle, PCs, AssociationPCs, PropertyPCs, StructPCs, DeallocPCs
  <2> QED
    BY <1>0, <1>1, <1>2, <1>3, <2>1 DEF TypeOK
<1>6. LocalsInv'
  BY <1>0, <1>1, <1>3, <1>4 DEF LocalsInv, Room, AssociationPCs, PropertyPCs, StructPCs, GetterPCs
<1>7. ReadInv'
  BY <1>0, <1>1, <1>3, <1>4 DEF ReadInv, LocalsInv, PropertyPCs, AssociationPCs
<1>8. UsableInv'
  BY <1>0, <1>1, <1>3, <1>4 DEF UsableInv, Usable
<1>9. PropertyLockInv'
  BY <1>0, <1>1, <1>3, <1>4 DEF PropertyLockInv, PropertyUnlocked, Inside
<1>10. StructLockInv'
  <2>1. \A u \in Threads : StructHeld(u)' = StructHeld(u)
    BY <1>0, <1>1, <1>3, <1>4 DEF StructHeld, Stripes
  <2> QED
    BY <1>0, <2>1 DEF StructLockInv
<1>11. PhaseInv'
  BY <1>0, <1>1, <1>3, <1>4 DEF PhaseInv, StructPCs, DeallocPCs
<1>12. EmptyInv'
  BY <1>0, <1>1, <1>3, <1>4 DEF EmptyInv, NoAssociations, NoProperties, LocalsInv, PhaseInv, StructPCs, DeallocPCs, No
<1>13. CountInv'
  <2>1. \A v \in Values : /\ ClientRefs(v)' = ClientRefs(v) /\ SetterRefs(v)' = SetterRefs(v)
                          /\ RemovedRefs(v)' = RemovedRefs(v) /\ AssociationRefs(v)' = AssociationRefs(v)
                          /\ PropertyRefs(v)' = PropertyRefs(v)
    BY <1>0, <1>1, <1>3, <1>4, NoOwner DEF ClientRefs, SetterRefs, RemovedRefs, AssociationRefs, PropertyRefs, LocalsInv
  <2> QED
    BY <1>0, <1>1, <2>1 DEF CountInv, CountsAll
<1> QED
  BY <1>5, <1>6, <1>7, <1>8, <1>9, <1>10, <1>11, <1>12, <1>13 DEF IndInv

\* _object_set_associative_reference retains or copies the value before it takes the lock.
LEMMA SetAssociationKeeps ==
  ASSUME IndInv, NEW t \in Threads, NEW k \in Keys, NEW policy \in Policies[k], SetAssociation(t, k, policy), UNCHANGED accessorVars
  PROVE  IndInv'
<1>0. /\ TypeOK /\ LocalsInv /\ ReadInv /\ UsableInv /\ PropertyLockInv /\ StructLockInv
      /\ PhaseInv /\ EmptyInv /\ CountInv
  BY DEF IndInv
<1>a. PICK c, a :
        /\ c \in Values \cup {nil} /\ a \in {No, [value |-> c, policy |-> policy]}
        /\ th' = [th EXCEPT ![t] = [Idle EXCEPT !.pc = "set", !.cell = k, !.a = a]]
        /\ th[t].pc = "idle" /\ object = "alive"
        /\ count' = IF Setter(a) THEN Retained(c) ELSE count
        /\ UNCHANGED <<held, object, refs, has_assoc, slot, atomic>>
  BY DEF SetAssociation, Calls, Arguments, Copies, Goto, Return, accessorVars, assocVars
<1>1. /\ th[t].pc = "idle" /\ object = "alive"
      /\ count' = IF Setter(a) THEN Retained(c) ELSE count
      /\ UNCHANGED <<held, object, refs, has_assoc, slot, atomic>>
  BY <1>a
<1>2. th' = [th EXCEPT ![t] = [Idle EXCEPT !.pc = "set", !.cell = k, !.a = a]]
  BY <1>a
<1>3. th[t] \in Call
  BY <1>0, <1>1 DEF TypeOK, LocalsInv, AssociationPCs, PropertyPCs, StructPCs
<1>4. /\ \A u \in Threads : u # t => th'[u] = th[u]
      /\ th'[t].pc = "set" /\ th'[t].cell = k /\ th'[t].a = a /\ th'[t].old = nil
      /\ th'[t].assoc = FALSE /\ th'[t].refs = {} /\ th'[t].src = nil
  BY <1>0, <1>2, <1>3 DEF TypeOK, Call, Idle
<1>c. Retained(c) \in [Values -> Int] /\ \A v \in Values : Retained(c)[v] = count[v] + (IF v = c THEN 1 ELSE 0)
  BY <1>0, <1>3, <1>a, CountEdit
<1>d. a \in ObjcAssociation /\ (Setter(a) => a.value = c)
  BY <1>a, AssociationsAssumption, AssociationTypes DEF ObjcAssociation, AllPolicies, No, Setter
<1>5. TypeOK'
  <2>1. th'[t] \in Call
    BY <1>0, <1>1, <1>2, <1>3, AssociationTypes, <1>d DEF TypeOK, Call, Idle, PCs, AssociationPCs, PropertyPCs, StructPCs, DeallocPCs
  <2> QED
    BY <1>0, <1>1, <1>2, <1>3, <2>1, <1>c DEF TypeOK
<1>6. LocalsInv'
  BY <1>0, <1>1, <1>3, <1>4 DEF LocalsInv, Room, AssociationPCs, PropertyPCs, StructPCs, GetterPCs
<1>7. ReadInv'
  BY <1>0, <1>1, <1>3, <1>4 DEF ReadInv, LocalsInv, PropertyPCs, AssociationPCs
<1>8. UsableInv'
  BY <1>0, <1>1, <1>3, <1>4, StorageAssumption DEF UsableInv, Usable
<1>9. PropertyLockInv'
  BY <1>0, <1>1, <1>3, <1>4 DEF PropertyLockInv, PropertyUnlocked, Inside
<1>10. StructLockInv'
  <2>1. \A u \in Threads : StructHeld(u)' = StructHeld(u)
    BY <1>0, <1>1, <1>3, <1>4 DEF StructHeld, Stripes
  <2> QED
    BY <1>0, <2>1 DEF StructLockInv
<1>11. PhaseInv'
  BY <1>0, <1>1, <1>3, <1>4 DEF PhaseInv, StructPCs, DeallocPCs
<1>12. EmptyInv'
  BY <1>0, <1>1, <1>3, <1>4 DEF EmptyInv, NoAssociations, NoProperties, LocalsInv, PhaseInv, StructPCs, DeallocPCs, No
<1>13. CountInv'
  <2> SUFFICES ASSUME NEW v \in Values
               PROVE  CountsAll(v)'
    BY DEF CountInv
  <2>0. /\ Cardinality(ClientRefs(v)) \in Nat /\ Cardinality(SetterRefs(v)) \in Nat /\ Cardinality(RemovedRefs(v)) \in Nat
        /\ Cardinality(AssociationRefs(v)) \in Nat /\ Cardinality(PropertyRefs(v)) \in Nat
    BY <1>0, RefsFinite
  <2>1. ClientRefs(v)' = ClientRefs(v)
    BY <1>1 DEF ClientRefs
  <2>2. Cardinality(SetterRefs(v))' =
          Cardinality(SetterRefs(v)) + (IF Setter(a) /\ v = c THEN 1 ELSE 0) - (IF FALSE THEN 1 ELSE 0)
    <3>1. (t \in SetterRefs(v)' <=> Setter(a) /\ v = c) /\ (t \in SetterRefs(v) <=> FALSE)
      BY <1>0, <1>1, <1>3, <1>4, <1>d DEF SetterRefs, Owns
    <3> QED
      BY <1>0, <1>4, <2>0, <3>1, SetterChange DEF Number
  <2>3. RemovedRefs(v)' = RemovedRefs(v)
    BY <1>0, <1>1, <1>3, <1>4 DEF RemovedRefs, LocalsInv
  <2>4. AssociationRefs(v)' = AssociationRefs(v)
    BY <1>1 DEF AssociationRefs
  <2>5. PropertyRefs(v)' = PropertyRefs(v)
    BY <1>1 DEF PropertyRefs
  <2>7. CountsAll(v) /\ count[v] \in Int
    BY <1>0 DEF CountInv, TypeOK
  <2>6. count'[v] = count[v] + (IF Setter(a) /\ v = c THEN 1 ELSE 0)
    BY <1>1, <1>c, <2>7
  <2> QED
    BY <1>1, <1>3, <2>0, <2>1, <2>2, <2>3, <2>4, <2>5, <2>6, <2>7 DEF CountsAll
<1> QED
  BY <1>5, <1>6, <1>7, <1>8, <1>9, <1>10, <1>11, <1>12, <1>13 DEF IndInv

\* The association is swapped inside of the lock.
LEMMA SwapAssociationKeeps ==
  ASSUME IndInv, NEW t \in Threads, SwapAssociation(t), UNCHANGED accessorVars
  PROVE  IndInv'
<1>0. /\ TypeOK /\ LocalsInv /\ ReadInv /\ UsableInv /\ PropertyLockInv /\ StructLockInv
      /\ PhaseInv /\ EmptyInv /\ CountInv
  BY DEF IndInv
<1>1. /\ th[t].pc = "set" /\ ManagerUnlocked
      /\ refs' = [refs EXCEPT ![th[t].cell] = th[t].a]
      /\ UNCHANGED <<count, held, object, has_assoc, slot, atomic>>
  BY DEF SwapAssociation, NoAssociations, Goto, Return, accessorVars, assocVars
<1>2. th' = [th EXCEPT ![t] = [th[t] EXCEPT !.a = refs[th[t].cell], !.pc = IF th[t].a # No /\ NoAssociations THEN "setHasAssociatedObjects" ELSE "release"]]
  BY DEF SwapAssociation, NoAssociations, Goto, Return, accessorVars, assocVars
<1>3. th[t] \in Call /\ th[t].cell \in Keys /\ th[t].a \in ObjcAssociation
  BY <1>0, <1>1 DEF TypeOK, LocalsInv, Call, AssociationPCs
<1>4. /\ \A u \in Threads : u # t => th'[u] = th[u]
      /\ th'[t].pc = (IF th[t].a # No /\ NoAssociations THEN "setHasAssociatedObjects" ELSE "release") /\ th'[t].cell = th[t].cell /\ th'[t].a = refs[th[t].cell] /\ th'[t].old = th[t].old
      /\ th'[t].assoc = th[t].assoc /\ th'[t].refs = th[t].refs /\ th'[t].src = th[t].src
  BY <1>0, <1>2, <1>3 DEF TypeOK, Call
<1>5. TypeOK'
  <2>1. th'[t] \in Call
    BY <1>0, <1>1, <1>2, <1>3, AssociationTypes DEF TypeOK, Call, Idle, PCs, AssociationPCs, PropertyPCs, StructPCs, DeallocPCs
  <2> QED
    BY <1>0, <1>1, <1>2, <1>3, <2>1, AssociationTypes DEF TypeOK
<1>6. LocalsInv'
  BY <1>0, <1>1, <1>3, <1>4 DEF LocalsInv, Room, AssociationPCs, PropertyPCs, StructPCs, GetterPCs
<1>7. ReadInv'
  BY <1>0, <1>1, <1>3, <1>4 DEF ReadInv, LocalsInv, PropertyPCs, AssociationPCs, ManagerUnlocked
<1>8. UsableInv'
  BY <1>0, <1>1, <1>3, <1>4 DEF UsableInv, Usable
<1>9. PropertyLockInv'
  BY <1>0, <1>1, <1>3, <1>4 DEF PropertyLockInv, PropertyUnlocked, Inside
<1>10. StructLockInv'
  <2>1. \A u \in Threads : StructHeld(u)' = StructHeld(u)
    BY <1>0, <1>1, <1>3, <1>4 DEF StructHeld, Stripes
  <2> QED
    BY <1>0, <2>1 DEF StructLockInv
<1>11. PhaseInv'
  BY <1>0, <1>1, <1>3, <1>4 DEF PhaseInv, StructPCs, DeallocPCs
<1>12. EmptyInv'
  <2>1. /\ refs'[th[t].cell] = th[t].a
        /\ \A k \in Keys : k # th[t].cell => refs'[k] = refs[k]
    BY <1>0, <1>1, <1>3 DEF TypeOK
  <2>2. object = "alive"
    BY <1>0, <1>1 DEF TypeOK, PhaseInv, StructPCs, DeallocPCs
  <2>4. NoAssociations' \/ has_assoc' \/ \E u \in Threads : th'[u].pc = "setHasAssociatedObjects"
    <3>1. CASE NoAssociations
      BY <1>4, <2>1, <3>1 DEF NoAssociations
    <3>2. CASE ~NoAssociations
      BY <1>0, <1>1, <1>4, <2>2, <3>2 DEF EmptyInv
    <3> QED
      BY <3>1, <3>2
  <2> QED
    BY <1>0, <1>1, <1>4, <2>2, <2>4 DEF EmptyInv, PhaseInv
<1>13. CountInv'
  <2> SUFFICES ASSUME NEW v \in Values
               PROVE  CountsAll(v)'
    BY DEF CountInv
  <2>0. /\ Cardinality(ClientRefs(v)) \in Nat /\ Cardinality(SetterRefs(v)) \in Nat /\ Cardinality(RemovedRefs(v)) \in Nat
        /\ Cardinality(AssociationRefs(v)) \in Nat /\ Cardinality(PropertyRefs(v)) \in Nat
    BY <1>0, RefsFinite
  <2>1. ClientRefs(v)' = ClientRefs(v)
    BY <1>1 DEF ClientRefs
  <2>2. Cardinality(SetterRefs(v))' =
          Cardinality(SetterRefs(v)) + (IF Owns(refs[th[t].cell], v) THEN 1 ELSE 0) - (IF Owns(th[t].a, v) THEN 1 ELSE 0)
    <3>1. (t \in SetterRefs(v)' <=> Owns(refs[th[t].cell], v)) /\ (t \in SetterRefs(v) <=> Owns(th[t].a, v))
      BY <1>0, <1>1, <1>3, <1>4 DEF SetterRefs
    <3> QED
      BY <1>0, <1>4, <2>0, <3>1, SetterChange DEF Number
  <2>3. RemovedRefs(v)' = RemovedRefs(v)
    BY <1>0, <1>1, <1>3, <1>4 DEF RemovedRefs, LocalsInv
  <2>4. Cardinality(AssociationRefs(v))' =
          Cardinality(AssociationRefs(v)) + (IF Owns(th[t].a, v) THEN 1 ELSE 0) - (IF Owns(refs[th[t].cell], v) THEN 1 ELSE 0)
    <3>1. /\ refs'[th[t].cell] = th[t].a
          /\ \A k \in Keys : k # th[t].cell => refs'[k] = refs[k]
      BY <1>0, <1>1, <1>3 DEF TypeOK
    <3> QED
      BY <1>0, <1>3, <3>1, AssociationChange
  <2>5. PropertyRefs(v)' = PropertyRefs(v)
    BY <1>1 DEF PropertyRefs
  <2>7. CountsAll(v) /\ count[v] \in Int
    BY <1>0 DEF CountInv, TypeOK
  <2>6. count'[v] = count[v]
    BY <1>1
  <2> QED
    BY <1>1, <1>3, <2>0, <2>1, <2>2, <2>3, <2>4, <2>5, <2>6, <2>7 DEF CountsAll
<1> QED
  BY <1>5, <1>6, <1>7, <1>8, <1>9, <1>10, <1>11, <1>12, <1>13 DEF IndInv

\* The removal takes associations out inside of the lock.
LEMMA TakeAssociationsKeeps ==
  ASSUME IndInv, NEW t \in Threads, TakeAssociations(t), UNCHANGED accessorVars
  PROVE  IndInv'
<1>0. /\ TypeOK /\ LocalsInv /\ ReadInv /\ UsableInv /\ PropertyLockInv /\ StructLockInv
      /\ PhaseInv /\ EmptyInv /\ CountInv
  BY DEF IndInv
<1>1. /\ th[t].pc = "remove" /\ ManagerUnlocked
      /\ refs' = [k \in Keys |-> IF k \in Taken(object = "deallocating") THEN No ELSE refs[k]]
      /\ UNCHANGED <<count, held, object, has_assoc, slot, atomic>>
  BY DEF TakeAssociations, Goto, Return, accessorVars, assocVars
<1>2. th' = [th EXCEPT ![t] = [th[t] EXCEPT !.pc = "releaseRefs", !.refs = {[key |-> k, a |-> refs[k]] : k \in Taken(object = "deallocating")}]]
  BY DEF TakeAssociations, Goto, Return, accessorVars, assocVars
<1>3. th[t] \in Call /\ Taken(object = "deallocating") \subseteq Keys /\ th[t].refs = {}
  BY <1>0, <1>1 DEF TypeOK, LocalsInv, Taken
<1>4. /\ \A u \in Threads : u # t => th'[u] = th[u]
      /\ th'[t].pc = "releaseRefs" /\ th'[t].cell = th[t].cell /\ th'[t].a = th[t].a /\ th'[t].old = th[t].old
      /\ th'[t].assoc = th[t].assoc /\ th'[t].refs = {[key |-> k, a |-> refs[k]] : k \in Taken(object = "deallocating")} /\ th'[t].src = th[t].src
  BY <1>0, <1>2, <1>3 DEF TypeOK, Call
<1>d. {[key |-> k, a |-> refs[k]] : k \in Taken(object = "deallocating")} \in SUBSET [key : Keys, a : ObjcAssociation]
  BY <1>0, <1>3 DEF TypeOK
<1>5. TypeOK'
  <2>1. th'[t] \in Call
    BY <1>0, <1>1, <1>2, <1>3, AssociationTypes, <1>d, ZenonT(60) DEF TypeOK, Call, Idle, PCs, AssociationPCs, PropertyPCs, StructPCs, DeallocPCs
  <2> QED
    BY <1>0, <1>1, <1>2, <1>3, <2>1, AssociationTypes DEF TypeOK
<1>6. LocalsInv'
  BY <1>0, <1>1, <1>3, <1>4 DEF LocalsInv, Room, AssociationPCs, PropertyPCs, StructPCs, GetterPCs
<1>7. ReadInv'
  BY <1>0, <1>1, <1>3, <1>4 DEF ReadInv, LocalsInv, PropertyPCs, AssociationPCs, ManagerUnlocked
<1>8. UsableInv'
  BY <1>0, <1>1, <1>3, <1>4 DEF UsableInv, Usable
<1>9. PropertyLockInv'
  BY <1>0, <1>1, <1>3, <1>4 DEF PropertyLockInv, PropertyUnlocked, Inside
<1>10. StructLockInv'
  <2>1. \A u \in Threads : StructHeld(u)' = StructHeld(u)
    BY <1>0, <1>1, <1>3, <1>4 DEF StructHeld, Stripes
  <2> QED
    BY <1>0, <2>1 DEF StructLockInv
<1>11. PhaseInv'
  BY <1>0, <1>1, <1>3, <1>4 DEF PhaseInv, StructPCs, DeallocPCs
<1>12. EmptyInv'
  <2>1. object = "deallocating" => NoAssociations'
    BY <1>1 DEF Taken, NoAssociations
  <2>2. NoAssociations => NoAssociations'
    BY <1>1 DEF NoAssociations
  <2>4. object # "free"
    BY <1>0, <1>1 DEF PhaseInv, StructPCs
  <2> QED
    BY <1>0, <1>1, <1>4, <2>1, <2>2, <2>4 DEF EmptyInv, PhaseInv, NoProperties, DeallocPCs
<1>13. CountInv'
  <2> SUFFICES ASSUME NEW v \in Values
               PROVE  CountsAll(v)'
    BY DEF CountInv
  <2>0. /\ Cardinality(ClientRefs(v)) \in Nat /\ Cardinality(SetterRefs(v)) \in Nat /\ Cardinality(RemovedRefs(v)) \in Nat
        /\ Cardinality(AssociationRefs(v)) \in Nat /\ Cardinality(PropertyRefs(v)) \in Nat
    BY <1>0, RefsFinite
  <2> DEFINE M == {k \in Taken(object = "deallocating") : Owns(refs[k], v)}
  <2>a. IsFiniteSet(M) /\ Cardinality(M) \in Nat
    <3>1. M \subseteq Keys
      BY <1>3
    <3> QED
      BY <3>1, AssociationsAssumption, FS_Subset, FS_CardinalityType
  <2>1. ClientRefs(v)' = ClientRefs(v)
    BY <1>1 DEF ClientRefs
  <2>2. SetterRefs(v)' = SetterRefs(v)
    BY <1>0, <1>1, <1>3, <1>4, NoOwner DEF SetterRefs
  <2>3. Cardinality(RemovedRefs(v))' = Cardinality(RemovedRefs(v)) + Cardinality(M)
    <3>1. RemovedRefs(v)' = RemovedRefs(v) \cup ({t} \X M)
      <4>1. ASSUME NEW k \in Keys
            PROVE  <<t, k>> \in RemovedRefs(v)' <=> k \in M
        <5>1. <<t, k>> \in RemovedRefs(v)' <=> \E r \in th'[t].refs : r.key = k /\ Owns(r.a, v)
          BY DEF RemovedRefs
        <5>2. \A r \in th'[t].refs : \E l \in Taken(object = "deallocating") : r.key = l /\ r.a = refs[l]
          BY <1>4
        <5>3. ASSUME k \in M
              PROVE  [key |-> k, a |-> refs[k]] \in th'[t].refs
          BY <1>4, <5>3
        <5>4. ASSUME k \in M
              PROVE  \E r \in th'[t].refs : r.key = k /\ Owns(r.a, v)
          BY <5>3, <5>4
        <5> QED
          BY <5>1, <5>2, <5>4
      <4>2. ASSUME NEW u \in Threads, u # t, NEW k \in Keys
            PROVE  <<u, k>> \in RemovedRefs(v)' <=> <<u, k>> \in RemovedRefs(v)
        BY <1>4, <4>2 DEF RemovedRefs
      <4>3. \A k \in Keys : <<t, k>> \notin RemovedRefs(v)
        BY <1>3 DEF RemovedRefs
      <4>4. RemovedRefs(v) \subseteq Threads \X Keys /\ RemovedRefs(v)' \subseteq Threads \X Keys /\ {t} \X M \subseteq Threads \X Keys
        BY <1>3 DEF RemovedRefs
      <4> QED
        BY <1>3, <4>1, <4>2, <4>3, <4>4
    <3>2. RemovedRefs(v) \cap ({t} \X M) = {}
      BY <1>3 DEF RemovedRefs
    <3>3. IsFiniteSet({t} \X M) /\ Cardinality({t} \X M) = Cardinality(M)
      <4> HIDE DEF M
      <4>1. IsFiniteSet({t}) /\ Cardinality({t}) = 1
        BY FS_Singleton
      <4>2. IsFiniteSet({t} \X M) /\ Cardinality({t} \X M) = Cardinality({t}) * Cardinality(M)
        BY <2>a, <4>1, FS_Product
      <4> QED
        BY <2>a, <4>1, <4>2
    <3>4. IsFiniteSet(RemovedRefs(v))
      BY <1>0, RefsFinite
    <3> HIDE DEF M
    <3>5. Cardinality(RemovedRefs(v) \cup ({t} \X M)) = Cardinality(RemovedRefs(v)) + Cardinality({t} \X M)
      <4> DEFINE P == {t} \X M
      <4> HIDE DEF P
      <4>1. RemovedRefs(v) \cap P = {} /\ IsFiniteSet(P) /\ Cardinality(P) \in Nat
        BY <2>a, <3>2, <3>3 DEF P
      <4>2. Cardinality(RemovedRefs(v) \cup P) = Cardinality(RemovedRefs(v)) + Cardinality(P) - Cardinality(RemovedRefs(v) \cap P)
        BY <3>4, <4>1, FS_Union
      <4>3. Cardinality(RemovedRefs(v) \cap P) = 0
        BY <4>1, FS_EmptySet
      <4> QED
        BY <2>0, <4>1, <4>2, <4>3 DEF P
    <3> QED
      BY <3>1, <3>3, <3>5
  <2>4. Cardinality(AssociationRefs(v))' = Cardinality(AssociationRefs(v)) - Cardinality(M)
    <3>1. AssociationRefs(v)' = AssociationRefs(v) \ M /\ AssociationRefs(v) \cap M = M
      BY <1>1, <1>3, NoOwner DEF AssociationRefs
    <3>2. IsFiniteSet(AssociationRefs(v))
      BY <1>0, RefsFinite
    <3> HIDE DEF M
    <3>3. Cardinality(AssociationRefs(v) \ M) = Cardinality(AssociationRefs(v)) - Cardinality(AssociationRefs(v) \cap M)
      BY <3>2, FS_Difference
    <3> QED
      BY <3>1, <3>3
  <2>5. PropertyRefs(v)' = PropertyRefs(v)
    BY <1>1 DEF PropertyRefs
  <2>7. CountsAll(v) /\ count[v] \in Int
    BY <1>0 DEF CountInv, TypeOK
  <2>6. count'[v] = count[v]
    BY <1>1
  <2> QED
    BY <1>1, <1>3, <2>0, <2>a, <2>1, <2>2, <2>3, <2>4, <2>5, <2>6, <2>7 DEF CountsAll
<1> QED
  BY <1>5, <1>6, <1>7, <1>8, <1>9, <1>10, <1>11, <1>12, <1>13 DEF IndInv

\* The removal releases what it has taken out, outside of the lock.
LEMMA ReleaseRefKeeps ==
  ASSUME IndInv, NEW t \in Threads, ReleaseRef(t), UNCHANGED accessorVars
  PROVE  IndInv'
<1>0. /\ TypeOK /\ LocalsInv /\ ReadInv /\ UsableInv /\ PropertyLockInv /\ StructLockInv
      /\ PhaseInv /\ EmptyInv /\ CountInv
  BY DEF IndInv
<1>a. PICK r \in th[t].refs :
        /\ th' = [th EXCEPT ![t] = [th[t] EXCEPT !.refs = th[t].refs \ {r}]]
        /\ th[t].pc = "releaseRefs"
        /\ count' = IF Setter(r.a) THEN Released(r.a.value) ELSE count
        /\ UNCHANGED <<held, object, refs, has_assoc, slot, atomic>>
  BY DEF ReleaseRef, Goto, Return, accessorVars, assocVars
<1>1. /\ th[t].pc = "releaseRefs"
      /\ count' = IF Setter(r.a) THEN Released(r.a.value) ELSE count
      /\ UNCHANGED <<held, object, refs, has_assoc, slot, atomic>>
  BY <1>a
<1>2. th' = [th EXCEPT ![t] = [th[t] EXCEPT !.refs = th[t].refs \ {r}]]
  BY <1>a
<1>3. th[t] \in Call /\ r \in [key : Keys, a : ObjcAssociation] /\ r.a.value \in Values \cup {nil}
  BY <1>0, <1>1 DEF TypeOK, Call, ObjcAssociation
<1>4. /\ \A u \in Threads : u # t => th'[u] = th[u]
      /\ th'[t].pc = th[t].pc /\ th'[t].cell = th[t].cell /\ th'[t].a = th[t].a /\ th'[t].old = th[t].old
      /\ th'[t].assoc = th[t].assoc /\ th'[t].refs = th[t].refs \ {r} /\ th'[t].src = th[t].src
  BY <1>0, <1>2, <1>3 DEF TypeOK, Call
<1>c. Released(r.a.value) \in [Values -> Int] /\ \A v \in Values : Released(r.a.value)[v] = count[v] - (IF v = r.a.value THEN 1 ELSE 0)
  BY <1>0, <1>3, CountEdit
<1>5. TypeOK'
  <2>1. th'[t] \in Call
    BY <1>0, <1>1, <1>2, <1>3, AssociationTypes DEF TypeOK, Call, Idle, PCs, AssociationPCs, PropertyPCs, StructPCs, DeallocPCs
  <2> QED
    BY <1>0, <1>1, <1>2, <1>3, <2>1, <1>c DEF TypeOK
<1>6. LocalsInv'
  BY <1>0, <1>1, <1>3, <1>4 DEF LocalsInv, Room, AssociationPCs, PropertyPCs, StructPCs, GetterPCs
<1>7. ReadInv'
  BY <1>0, <1>1, <1>3, <1>4 DEF ReadInv, LocalsInv, PropertyPCs, AssociationPCs
<1>8. UsableInv'
  BY <1>0, <1>1, <1>3, <1>4 DEF UsableInv, Usable
<1>9. PropertyLockInv'
  BY <1>0, <1>1, <1>3, <1>4 DEF PropertyLockInv, PropertyUnlocked, Inside
<1>10. StructLockInv'
  <2>1. \A u \in Threads : StructHeld(u)' = StructHeld(u)
    BY <1>0, <1>1, <1>3, <1>4 DEF StructHeld, Stripes
  <2> QED
    BY <1>0, <2>1 DEF StructLockInv
<1>11. PhaseInv'
  BY <1>0, <1>1, <1>3, <1>4 DEF PhaseInv, StructPCs, DeallocPCs
<1>12. EmptyInv'
  BY <1>0, <1>1, <1>3, <1>4 DEF EmptyInv, NoAssociations, NoProperties, LocalsInv, PhaseInv, StructPCs, DeallocPCs, No
<1>13. CountInv'
  <2> SUFFICES ASSUME NEW v \in Values
               PROVE  CountsAll(v)'
    BY DEF CountInv
  <2>0. /\ Cardinality(ClientRefs(v)) \in Nat /\ Cardinality(SetterRefs(v)) \in Nat /\ Cardinality(RemovedRefs(v)) \in Nat
        /\ Cardinality(AssociationRefs(v)) \in Nat /\ Cardinality(PropertyRefs(v)) \in Nat
    BY <1>0, RefsFinite
  <2>1. ClientRefs(v)' = ClientRefs(v)
    BY <1>1 DEF ClientRefs
  <2>2. SetterRefs(v)' = SetterRefs(v)
    BY <1>0, <1>1, <1>3, <1>4, NoOwner DEF SetterRefs
  <2>3. Cardinality(RemovedRefs(v))' = Cardinality(RemovedRefs(v)) - (IF Owns(r.a, v) THEN 1 ELSE 0)
    <3> DEFINE x == <<t, r.key>>
    <3>1. RemovedRefs(v) \ {x} = RemovedRefs(v)' \ {x}
      <4>1. ASSUME NEW u \in Threads, NEW k \in Keys, <<u, k>> # x
            PROVE  <<u, k>> \in RemovedRefs(v) <=> <<u, k>> \in RemovedRefs(v)'
        <5>1. CASE u = t
          BY <1>4, <4>1, <5>1 DEF RemovedRefs
        <5>2. CASE u # t
          BY <1>4, <5>2 DEF RemovedRefs
        <5> QED
          BY <5>1, <5>2
      <4>2. RemovedRefs(v) \subseteq Threads \X Keys /\ RemovedRefs(v)' \subseteq Threads \X Keys
        BY DEF RemovedRefs
      <4> QED
        BY <4>1, <4>2
    <3>2. (x \in RemovedRefs(v) <=> Owns(r.a, v)) /\ x \notin RemovedRefs(v)'
      BY <1>0, <1>a, <1>3, <1>4 DEF RemovedRefs, LocalsInv
    <3>3. IsFiniteSet(RemovedRefs(v))
      BY <1>0, RefsFinite
    <3> HIDE DEF x
    <3>4. Cardinality(RemovedRefs(v)') = Cardinality(RemovedRefs(v)) + Number(x, RemovedRefs(v)') - Number(x, RemovedRefs(v))
      BY ONLY <3>1, <3>3, OneElement
    <3> QED
      BY <2>0, <3>2, <3>4 DEF Number
  <2>4. AssociationRefs(v)' = AssociationRefs(v)
    BY <1>1 DEF AssociationRefs
  <2>5. PropertyRefs(v)' = PropertyRefs(v)
    BY <1>1 DEF PropertyRefs
  <2>7. CountsAll(v) /\ count[v] \in Int
    BY <1>0 DEF CountInv, TypeOK
  <2>6. count'[v] = count[v] - (IF Owns(r.a, v) THEN 1 ELSE 0)
    BY <1>1, <1>c, <2>7, ValuesAssumption DEF Owns, Setter
  <2> QED
    BY <1>1, <1>3, <2>0, <2>1, <2>2, <2>3, <2>4, <2>5, <2>6, <2>7 DEF CountsAll
<1> QED
  BY <1>5, <1>6, <1>7, <1>8, <1>9, <1>10, <1>11, <1>12, <1>13 DEF IndInv

\* A deallocation has released its associations.
LEMMA RefsFreedKeeps ==
  ASSUME IndInv, NEW t \in Threads, object = "deallocating", RefsReleased(t), UNCHANGED accessorVars
  PROVE  IndInv'
<1>0. /\ TypeOK /\ LocalsInv /\ ReadInv /\ UsableInv /\ PropertyLockInv /\ StructLockInv
      /\ PhaseInv /\ EmptyInv /\ CountInv
  BY DEF IndInv
<1>1. /\ th[t].pc = "releaseRefs" /\ th[t].refs = {}
      /\ UNCHANGED <<count, held, object, refs, has_assoc, slot, atomic>>
  BY DEF RefsReleased, Goto, Return, accessorVars, assocVars
<1>2. th' = [th EXCEPT ![t] = [th[t] EXCEPT !.pc = "free"]]
  BY DEF RefsReleased, Goto, Return, accessorVars, assocVars
<1>3. th[t] \in Call
  BY <1>0, <1>1 DEF TypeOK, LocalsInv, AssociationPCs, PropertyPCs, StructPCs
<1>4. /\ \A u \in Threads : u # t => th'[u] = th[u]
      /\ th'[t].pc = "free" /\ th'[t].cell = th[t].cell /\ th'[t].a = th[t].a /\ th'[t].old = th[t].old
      /\ th'[t].assoc = th[t].assoc /\ th'[t].refs = th[t].refs /\ th'[t].src = th[t].src
  BY <1>0, <1>2, <1>3 DEF TypeOK, Call
<1>5. TypeOK'
  <2>1. th'[t] \in Call
    BY <1>0, <1>1, <1>2, <1>3, AssociationTypes DEF TypeOK, Call, Idle, PCs, AssociationPCs, PropertyPCs, StructPCs, DeallocPCs
  <2> QED
    BY <1>0, <1>1, <1>2, <1>3, <2>1 DEF TypeOK
<1>6. LocalsInv'
  BY <1>0, <1>1, <1>3, <1>4 DEF LocalsInv, Room, AssociationPCs, PropertyPCs, StructPCs, GetterPCs
<1>7. ReadInv'
  BY <1>0, <1>1, <1>3, <1>4 DEF ReadInv, LocalsInv, PropertyPCs, AssociationPCs
<1>8. UsableInv'
  BY <1>0, <1>1, <1>3, <1>4 DEF UsableInv, Usable
<1>9. PropertyLockInv'
  BY <1>0, <1>1, <1>3, <1>4 DEF PropertyLockInv, PropertyUnlocked, Inside
<1>10. StructLockInv'
  <2>1. \A u \in Threads : StructHeld(u)' = StructHeld(u)
    BY <1>0, <1>1, <1>3, <1>4 DEF StructHeld, Stripes
  <2> QED
    BY <1>0, <2>1 DEF StructLockInv
<1>11. PhaseInv'
  BY <1>0, <1>1, <1>3, <1>4 DEF PhaseInv, StructPCs, DeallocPCs
<1>12. EmptyInv'
  BY <1>0, <1>1, <1>3, <1>4 DEF EmptyInv, NoAssociations, NoProperties, LocalsInv, PhaseInv, StructPCs, DeallocPCs, No
<1>13. CountInv'
  <2>1. \A v \in Values : /\ ClientRefs(v)' = ClientRefs(v) /\ SetterRefs(v)' = SetterRefs(v)
                          /\ RemovedRefs(v)' = RemovedRefs(v) /\ AssociationRefs(v)' = AssociationRefs(v)
                          /\ PropertyRefs(v)' = PropertyRefs(v)
    BY <1>0, <1>1, <1>3, <1>4, NoOwner DEF ClientRefs, SetterRefs, RemovedRefs, AssociationRefs, PropertyRefs, LocalsInv
  <2> QED
    BY <1>0, <1>1, <2>1 DEF CountInv, CountsAll
<1> QED
  BY <1>5, <1>6, <1>7, <1>8, <1>9, <1>10, <1>11, <1>12, <1>13 DEF IndInv

\* objc_removeAssociatedObjects ends.
LEMMA RefsReturnKeeps ==
  ASSUME IndInv, NEW t \in Threads, object # "deallocating", RefsReleased(t), UNCHANGED accessorVars
  PROVE  IndInv'
<1>0. /\ TypeOK /\ LocalsInv /\ ReadInv /\ UsableInv /\ PropertyLockInv /\ StructLockInv
      /\ PhaseInv /\ EmptyInv /\ CountInv
  BY DEF IndInv
<1>1. /\ th[t].pc = "releaseRefs" /\ th[t].refs = {}
      /\ UNCHANGED <<count, held, object, refs, has_assoc, slot, atomic>>
  BY DEF RefsReleased, Goto, Return, accessorVars, assocVars
<1>2. th' = [th EXCEPT ![t] = Idle]
  BY DEF RefsReleased, Goto, Return, accessorVars, assocVars
<1>3. th[t] \in Call
  BY <1>0, <1>1 DEF TypeOK, LocalsInv, AssociationPCs, PropertyPCs, StructPCs
<1>4. /\ \A u \in Threads : u # t => th'[u] = th[u]
      /\ th'[t].pc = "idle" /\ th'[t].cell = nil /\ th'[t].a = No /\ th'[t].old = nil
      /\ th'[t].assoc = FALSE /\ th'[t].refs = {} /\ th'[t].src = nil
  BY <1>0, <1>2, <1>3 DEF TypeOK, Call, Idle
<1>5. TypeOK'
  <2>1. th'[t] \in Call
    BY <1>0, <1>1, <1>2, <1>3, AssociationTypes DEF TypeOK, Call, Idle, PCs, AssociationPCs, PropertyPCs, StructPCs, DeallocPCs
  <2> QED
    BY <1>0, <1>1, <1>2, <1>3, <2>1 DEF TypeOK
<1>6. LocalsInv'
  BY <1>0, <1>1, <1>3, <1>4 DEF LocalsInv, Room, AssociationPCs, PropertyPCs, StructPCs, GetterPCs
<1>7. ReadInv'
  BY <1>0, <1>1, <1>3, <1>4 DEF ReadInv, LocalsInv, PropertyPCs, AssociationPCs
<1>8. UsableInv'
  BY <1>0, <1>1, <1>3, <1>4, AccessorsAssumption DEF UsableInv, Usable
<1>9. PropertyLockInv'
  BY <1>0, <1>1, <1>3, <1>4 DEF PropertyLockInv, PropertyUnlocked, Inside
<1>10. StructLockInv'
  <2>1. \A u \in Threads : StructHeld(u)' = StructHeld(u)
    BY <1>0, <1>1, <1>3, <1>4 DEF StructHeld, Stripes
  <2> QED
    BY <1>0, <2>1 DEF StructLockInv
<1>11. PhaseInv'
  BY <1>0, <1>1, <1>3, <1>4 DEF PhaseInv, StructPCs, DeallocPCs
<1>12. EmptyInv'
  BY <1>0, <1>1, <1>3, <1>4 DEF EmptyInv, NoAssociations, NoProperties, LocalsInv, PhaseInv, StructPCs, DeallocPCs, No
<1>13. CountInv'
  <2>1. \A v \in Values : /\ ClientRefs(v)' = ClientRefs(v) /\ SetterRefs(v)' = SetterRefs(v)
                          /\ RemovedRefs(v)' = RemovedRefs(v) /\ AssociationRefs(v)' = AssociationRefs(v)
                          /\ PropertyRefs(v)' = PropertyRefs(v)
    BY <1>0, <1>1, <1>3, <1>4, NoOwner DEF ClientRefs, SetterRefs, RemovedRefs, AssociationRefs, PropertyRefs, LocalsInv
  <2> QED
    BY <1>0, <1>1, <2>1 DEF CountInv, CountsAll
<1> QED
  BY <1>5, <1>6, <1>7, <1>8, <1>9, <1>10, <1>11, <1>12, <1>13 DEF IndInv

----------------------------------------------------------------------------
(* Client code keeps the invariant.                                        *)

\* The last reference to the object is dropped.
LEMMA DeallocKeeps ==
  ASSUME IndInv, NEW t \in Threads, Dealloc(t, has_assoc), UNCHANGED <<assocVars, accessorVars>>
  PROVE  IndInv'
<1>0. /\ TypeOK /\ LocalsInv /\ ReadInv /\ UsableInv /\ PropertyLockInv /\ StructLockInv
      /\ PhaseInv /\ EmptyInv /\ CountInv
  BY DEF IndInv
<1>1. /\ th[t].pc = "idle" /\ object = "alive" /\ \A u \in Threads : th[u].pc = "idle" \/ th[u].src # nil
      /\ object' = "deallocating"
      /\ UNCHANGED <<count, held, refs, has_assoc, slot, atomic>>
  BY DEF Dealloc, Calls, Goto, Return, accessorVars, assocVars
<1>2. th' = [th EXCEPT ![t] = [Idle EXCEPT !.pc = "cxxDestruct", !.assoc = has_assoc]]
  BY DEF Dealloc, Calls, Goto, Return, accessorVars, assocVars
<1>3. th[t] \in Call /\ \A u \in Threads : th[u].pc \in {"idle"} \cup StructPCs
  BY <1>0, <1>1 DEF TypeOK, LocalsInv
<1>4. /\ \A u \in Threads : u # t => th'[u] = th[u]
      /\ th'[t].pc = "cxxDestruct" /\ th'[t].cell = nil /\ th'[t].a = No /\ th'[t].old = nil
      /\ th'[t].assoc = has_assoc /\ th'[t].refs = {} /\ th'[t].src = nil
  BY <1>0, <1>2, <1>3 DEF TypeOK, Call, Idle
<1>5. TypeOK'
  <2>1. th'[t] \in Call
    BY <1>0, <1>1, <1>2, <1>3, AssociationTypes, ZenonT(60) DEF TypeOK, Call, Idle, PCs, AssociationPCs, PropertyPCs, StructPCs, DeallocPCs
  <2> QED
    BY <1>0, <1>1, <1>2, <1>3, <2>1 DEF TypeOK
<1>6. LocalsInv'
  BY <1>0, <1>1, <1>3, <1>4 DEF LocalsInv, Room, AssociationPCs, PropertyPCs, StructPCs, GetterPCs
<1>7. ReadInv'
  BY <1>0, <1>1, <1>3, <1>4 DEF ReadInv, LocalsInv, PropertyPCs, AssociationPCs
<1>8. UsableInv'
  BY <1>0, <1>1, <1>3, <1>4, AccessorsAssumption DEF UsableInv, Usable
<1>9. PropertyLockInv'
  BY <1>0, <1>1, <1>3, <1>4 DEF PropertyLockInv, PropertyUnlocked, Inside
<1>10. StructLockInv'
  <2>1. \A u \in Threads : StructHeld(u)' = StructHeld(u)
    BY <1>0, <1>1, <1>3, <1>4 DEF StructHeld, Stripes
  <2> QED
    BY <1>0, <2>1 DEF StructLockInv
<1>11. PhaseInv'
  BY <1>0, <1>1, <1>3, <1>4 DEF PhaseInv, StructPCs, DeallocPCs
<1>12. EmptyInv'
  BY <1>0, <1>1, <1>3, <1>4 DEF EmptyInv, NoAssociations, NoProperties, LocalsInv, PhaseInv, StructPCs, DeallocPCs, No
<1>13. CountInv'
  <2>1. \A v \in Values : /\ ClientRefs(v)' = ClientRefs(v) /\ SetterRefs(v)' = SetterRefs(v)
                          /\ RemovedRefs(v)' = RemovedRefs(v) /\ AssociationRefs(v)' = AssociationRefs(v)
                          /\ PropertyRefs(v)' = PropertyRefs(v)
    BY <1>0, <1>1, <1>3, <1>4, NoOwner DEF ClientRefs, SetterRefs, RemovedRefs, AssociationRefs, PropertyRefs, LocalsInv
  <2> QED
    BY <1>0, <1>1, <2>1 DEF CountInv, CountsAll
<1> QED
  BY <1>5, <1>6, <1>7, <1>8, <1>9, <1>10, <1>11, <1>12, <1>13 DEF IndInv

\* The memory of the object is freed.
LEMMA FreeKeeps ==
  ASSUME IndInv, NEW t \in Threads, Free(t), UNCHANGED <<assocVars, accessorVars>>
  PROVE  IndInv'
<1>0. /\ TypeOK /\ LocalsInv /\ ReadInv /\ UsableInv /\ PropertyLockInv /\ StructLockInv
      /\ PhaseInv /\ EmptyInv /\ CountInv
  BY DEF IndInv
<1>1. /\ th[t].pc = "free"
      /\ object' = "free"
      /\ UNCHANGED <<count, held, refs, has_assoc, slot, atomic>>
  BY DEF Free, Goto, Return, accessorVars, assocVars
<1>2. th' = [th EXCEPT ![t] = Idle]
  BY DEF Free, Goto, Return, accessorVars, assocVars
<1>3. th[t] \in Call /\ object = "deallocating" /\ \A u \in Threads : u # t => th[u].pc \in {"idle"} \cup StructPCs
  BY <1>0, <1>1 DEF TypeOK, PhaseInv, DeallocPCs
<1>4. /\ \A u \in Threads : u # t => th'[u] = th[u]
      /\ th'[t].pc = "idle" /\ th'[t].cell = nil /\ th'[t].a = No /\ th'[t].old = nil
      /\ th'[t].assoc = FALSE /\ th'[t].refs = {} /\ th'[t].src = nil
  BY <1>0, <1>2, <1>3 DEF TypeOK, Call, Idle
<1>5. TypeOK'
  <2>1. th'[t] \in Call
    BY <1>0, <1>1, <1>2, <1>3, AssociationTypes DEF TypeOK, Call, Idle, PCs, AssociationPCs, PropertyPCs, StructPCs, DeallocPCs
  <2> QED
    BY <1>0, <1>1, <1>2, <1>3, <2>1 DEF TypeOK
<1>6. LocalsInv'
  BY <1>0, <1>1, <1>3, <1>4 DEF LocalsInv, Room, AssociationPCs, PropertyPCs, StructPCs, GetterPCs
<1>7. ReadInv'
  BY <1>0, <1>1, <1>3, <1>4 DEF ReadInv, LocalsInv, PropertyPCs, AssociationPCs
<1>8. UsableInv'
  BY <1>0, <1>1, <1>3, <1>4, AccessorsAssumption DEF UsableInv, Usable
<1>9. PropertyLockInv'
  BY <1>0, <1>1, <1>3, <1>4 DEF PropertyLockInv, PropertyUnlocked, Inside
<1>10. StructLockInv'
  <2>1. \A u \in Threads : StructHeld(u)' = StructHeld(u)
    BY <1>0, <1>1, <1>3, <1>4 DEF StructHeld, Stripes
  <2> QED
    BY <1>0, <2>1 DEF StructLockInv
<1>11. PhaseInv'
  BY <1>0, <1>1, <1>3, <1>4 DEF PhaseInv, StructPCs, DeallocPCs
<1>12. EmptyInv'
  BY <1>0, <1>1, <1>3, <1>4 DEF EmptyInv, NoAssociations, NoProperties, LocalsInv, PhaseInv, StructPCs, DeallocPCs, No
<1>13. CountInv'
  <2>1. \A v \in Values : /\ ClientRefs(v)' = ClientRefs(v) /\ SetterRefs(v)' = SetterRefs(v)
                          /\ RemovedRefs(v)' = RemovedRefs(v) /\ AssociationRefs(v)' = AssociationRefs(v)
                          /\ PropertyRefs(v)' = PropertyRefs(v)
    BY <1>0, <1>1, <1>3, <1>4, NoOwner DEF ClientRefs, SetterRefs, RemovedRefs, AssociationRefs, PropertyRefs, LocalsInv
  <2> QED
    BY <1>0, <1>1, <2>1 DEF CountInv, CountsAll
<1> QED
  BY <1>5, <1>6, <1>7, <1>8, <1>9, <1>10, <1>11, <1>12, <1>13 DEF IndInv

\* A setter releases the value it took out.
LEMMA ReleaseOldKeeps ==
  ASSUME IndInv, NEW t \in Threads, ReleaseOld(t), UNCHANGED <<assocVars, accessorVars>>
  PROVE  IndInv'
<1>0. /\ TypeOK /\ LocalsInv /\ ReadInv /\ UsableInv /\ PropertyLockInv /\ StructLockInv
      /\ PhaseInv /\ EmptyInv /\ CountInv
  BY DEF IndInv
<1>1. /\ th[t].pc = "release"
      /\ count' = IF Setter(th[t].a) THEN Released(th[t].a.value) ELSE count
      /\ UNCHANGED <<held, object, refs, has_assoc, slot, atomic>>
  BY DEF ReleaseOld, Goto, Return, accessorVars, assocVars
<1>2. th' = [th EXCEPT ![t] = Idle]
  BY DEF ReleaseOld, Goto, Return, accessorVars, assocVars
<1>3. th[t] \in Call /\ th[t].a.value \in Values \cup {nil}
  BY <1>0, <1>1 DEF TypeOK, Call, ObjcAssociation
<1>4. /\ \A u \in Threads : u # t => th'[u] = th[u]
      /\ th'[t].pc = "idle" /\ th'[t].cell = nil /\ th'[t].a = No /\ th'[t].old = nil
      /\ th'[t].assoc = FALSE /\ th'[t].refs = {} /\ th'[t].src = nil
  BY <1>0, <1>2, <1>3 DEF TypeOK, Call, Idle
<1>c. Released(th[t].a.value) \in [Values -> Int] /\ \A v \in Values : Released(th[t].a.value)[v] = count[v] - (IF v = th[t].a.value THEN 1 ELSE 0)
  BY <1>0, <1>3, CountEdit
<1>5. TypeOK'
  <2>1. th'[t] \in Call
    BY <1>0, <1>1, <1>2, <1>3, AssociationTypes DEF TypeOK, Call, Idle, PCs, AssociationPCs, PropertyPCs, StructPCs, DeallocPCs
  <2> QED
    BY <1>0, <1>1, <1>2, <1>3, <2>1, <1>c DEF TypeOK
<1>6. LocalsInv'
  BY <1>0, <1>1, <1>3, <1>4 DEF LocalsInv, Room, AssociationPCs, PropertyPCs, StructPCs, GetterPCs
<1>7. ReadInv'
  BY <1>0, <1>1, <1>3, <1>4 DEF ReadInv, LocalsInv, PropertyPCs, AssociationPCs
<1>8. UsableInv'
  BY <1>0, <1>1, <1>3, <1>4, AccessorsAssumption DEF UsableInv, Usable
<1>9. PropertyLockInv'
  BY <1>0, <1>1, <1>3, <1>4 DEF PropertyLockInv, PropertyUnlocked, Inside
<1>10. StructLockInv'
  <2>1. \A u \in Threads : StructHeld(u)' = StructHeld(u)
    BY <1>0, <1>1, <1>3, <1>4 DEF StructHeld, Stripes
  <2> QED
    BY <1>0, <2>1 DEF StructLockInv
<1>11. PhaseInv'
  BY <1>0, <1>1, <1>3, <1>4 DEF PhaseInv, StructPCs, DeallocPCs
<1>12. EmptyInv'
  BY <1>0, <1>1, <1>3, <1>4 DEF EmptyInv, NoAssociations, NoProperties, LocalsInv, PhaseInv, StructPCs, DeallocPCs, No
<1>13. CountInv'
  <2> SUFFICES ASSUME NEW v \in Values
               PROVE  CountsAll(v)'
    BY DEF CountInv
  <2>0. /\ Cardinality(ClientRefs(v)) \in Nat /\ Cardinality(SetterRefs(v)) \in Nat /\ Cardinality(RemovedRefs(v)) \in Nat
        /\ Cardinality(AssociationRefs(v)) \in Nat /\ Cardinality(PropertyRefs(v)) \in Nat
    BY <1>0, RefsFinite
  <2>1. ClientRefs(v)' = ClientRefs(v)
    BY <1>1 DEF ClientRefs
  <2>2. Cardinality(SetterRefs(v))' =
          Cardinality(SetterRefs(v)) + (IF FALSE THEN 1 ELSE 0) - (IF Owns(th[t].a, v) THEN 1 ELSE 0)
    <3>1. (t \in SetterRefs(v)' <=> FALSE) /\ (t \in SetterRefs(v) <=> Owns(th[t].a, v))
      BY <1>0, <1>1, <1>3, <1>4 DEF SetterRefs
    <3> QED
      BY <1>0, <1>4, <2>0, <3>1, SetterChange DEF Number
  <2>3. RemovedRefs(v)' = RemovedRefs(v)
    BY <1>0, <1>1, <1>3, <1>4 DEF RemovedRefs, LocalsInv
  <2>4. AssociationRefs(v)' = AssociationRefs(v)
    BY <1>1 DEF AssociationRefs
  <2>5. PropertyRefs(v)' = PropertyRefs(v)
    BY <1>1 DEF PropertyRefs
  <2>7. CountsAll(v) /\ count[v] \in Int
    BY <1>0 DEF CountInv, TypeOK
  <2>6. count'[v] = count[v] - (IF Owns(th[t].a, v) THEN 1 ELSE 0)
    BY <1>1, <1>c, <2>7, ValuesAssumption DEF Owns, Setter
  <2> QED
    BY <1>1, <1>3, <2>0, <2>1, <2>2, <2>3, <2>4, <2>5, <2>6, <2>7 DEF CountsAll
<1> QED
  BY <1>5, <1>6, <1>7, <1>8, <1>9, <1>10, <1>11, <1>12, <1>13 DEF IndInv

\* Calls that have nothing left to do.
LEMMA ReturnsKeeps ==
  ASSUME IndInv, NEW t \in Threads, Returns(t), UNCHANGED <<assocVars, accessorVars>>
  PROVE  IndInv'
<1>0. /\ TypeOK /\ LocalsInv /\ ReadInv /\ UsableInv /\ PropertyLockInv /\ StructLockInv
      /\ PhaseInv /\ EmptyInv /\ CountInv
  BY DEF IndInv
<1>1. /\ th[t].pc \in {"return", "sameValue", "nothingToRemove"}
      /\ UNCHANGED <<count, held, object, refs, has_assoc, slot, atomic>>
  BY DEF Returns, Goto, Return, accessorVars, assocVars
<1>2. th' = [th EXCEPT ![t] = Idle]
  BY DEF Returns, Goto, Return, accessorVars, assocVars
<1>3. th[t] \in Call
  BY <1>0, <1>1 DEF TypeOK, LocalsInv, AssociationPCs, PropertyPCs, StructPCs
<1>4. /\ \A u \in Threads : u # t => th'[u] = th[u]
      /\ th'[t].pc = "idle" /\ th'[t].cell = nil /\ th'[t].a = No /\ th'[t].old = nil
      /\ th'[t].assoc = FALSE /\ th'[t].refs = {} /\ th'[t].src = nil
  BY <1>0, <1>2, <1>3 DEF TypeOK, Call, Idle
<1>5. TypeOK'
  <2>1. th'[t] \in Call
    BY <1>0, <1>1, <1>2, <1>3, AssociationTypes DEF TypeOK, Call, Idle, PCs, AssociationPCs, PropertyPCs, StructPCs, DeallocPCs
  <2> QED
    BY <1>0, <1>1, <1>2, <1>3, <2>1 DEF TypeOK
<1>6. LocalsInv'
  BY <1>0, <1>1, <1>3, <1>4 DEF LocalsInv, Room, AssociationPCs, PropertyPCs, StructPCs, GetterPCs
<1>7. ReadInv'
  BY <1>0, <1>1, <1>3, <1>4 DEF ReadInv, LocalsInv, PropertyPCs, AssociationPCs
<1>8. UsableInv'
  BY <1>0, <1>1, <1>3, <1>4, AccessorsAssumption DEF UsableInv, Usable
<1>9. PropertyLockInv'
  BY <1>0, <1>1, <1>3, <1>4 DEF PropertyLockInv, PropertyUnlocked, Inside
<1>10. StructLockInv'
  <2>1. \A u \in Threads : StructHeld(u)' = StructHeld(u)
    BY <1>0, <1>1, <1>3, <1>4 DEF StructHeld, Stripes
  <2> QED
    BY <1>0, <2>1 DEF StructLockInv
<1>11. PhaseInv'
  BY <1>0, <1>1, <1>3, <1>4 DEF PhaseInv, StructPCs, DeallocPCs
<1>12. EmptyInv'
  BY <1>0, <1>1, <1>3, <1>4 DEF EmptyInv, NoAssociations, NoProperties, LocalsInv, PhaseInv, StructPCs, DeallocPCs, No
<1>13. CountInv'
  <2>1. \A v \in Values : /\ ClientRefs(v)' = ClientRefs(v) /\ SetterRefs(v)' = SetterRefs(v)
                          /\ RemovedRefs(v)' = RemovedRefs(v) /\ AssociationRefs(v)' = AssociationRefs(v)
                          /\ PropertyRefs(v)' = PropertyRefs(v)
    BY <1>0, <1>1, <1>3, <1>4, NoOwner DEF ClientRefs, SetterRefs, RemovedRefs, AssociationRefs, PropertyRefs, LocalsInv
  <2> QED
    BY <1>0, <1>1, <2>1 DEF CountInv, CountsAll
<1> QED
  BY <1>5, <1>6, <1>7, <1>8, <1>9, <1>10, <1>11, <1>12, <1>13 DEF IndInv

----------------------------------------------------------------------------
(* Steps that leave the calls alone.                                       *)

\* A property is emptied while the object is deallocated.
LEMMA CxxDestructKeeps ==
  ASSUME IndInv, NEW t \in Threads, th[t].pc = "cxxDestruct", NEW s \in Slots, slot[s] # nil,
         slot' = [slot EXCEPT ![s] = nil], count' = Released(slot[s]),
         UNCHANGED <<th, held, object, refs, has_assoc, atomic>>
  PROVE  IndInv'
<1>0. /\ TypeOK /\ LocalsInv /\ ReadInv /\ UsableInv /\ PropertyLockInv /\ StructLockInv
      /\ PhaseInv /\ EmptyInv /\ CountInv
  BY DEF IndInv
<1>1. object = "deallocating" /\ \A u \in Threads : th[u].pc \in {"idle"} \cup StructPCs \cup DeallocPCs
  BY <1>0 DEF PhaseInv
<1>2. slot[s] \in Values
  BY <1>0 DEF TypeOK
<1>3. Released(slot[s]) \in [Values -> Int] /\ \A v \in Values : Released(slot[s])[v] = count[v] - (IF v = slot[s] THEN 1 ELSE 0)
  BY <1>0, <1>2, CountEdit
<1>4. TypeOK'
  BY <1>0, <1>3 DEF TypeOK
<1>5. LocalsInv' /\ UsableInv' /\ PropertyLockInv' /\ PhaseInv'
  BY <1>0 DEF LocalsInv, Room, UsableInv, PropertyLockInv, PhaseInv
<1>6. ReadInv'
  BY <1>0, <1>1 DEF ReadInv, StructPCs, DeallocPCs
<1>7. StructLockInv'
  <2>1. \A u \in Threads : StructHeld(u)' = StructHeld(u)
    BY DEF StructHeld, Stripes
  <2> QED
    BY <1>0, <2>1 DEF StructLockInv
<1>8. EmptyInv'
  <2>1. NoProperties => NoProperties'
    BY <1>0 DEF NoProperties, TypeOK
  <2> QED
    BY <1>0, <1>1, <2>1 DEF EmptyInv, NoAssociations
<1>9. CountInv'
  <2> SUFFICES ASSUME NEW v \in Values
               PROVE  CountsAll(v)'
    BY DEF CountInv
  <2>0. /\ Cardinality(ClientRefs(v)) \in Nat /\ Cardinality(SetterRefs(v)) \in Nat /\ Cardinality(RemovedRefs(v)) \in Nat
        /\ Cardinality(AssociationRefs(v)) \in Nat /\ Cardinality(PropertyRefs(v)) \in Nat
    BY <1>0, RefsFinite
  <2>1. /\ ClientRefs(v)' = ClientRefs(v) /\ SetterRefs(v)' = SetterRefs(v)
        /\ RemovedRefs(v)' = RemovedRefs(v) /\ AssociationRefs(v)' = AssociationRefs(v)
    BY DEF ClientRefs, SetterRefs, RemovedRefs, AssociationRefs
  <2>2. Cardinality(PropertyRefs(v))' = Cardinality(PropertyRefs(v)) - (IF slot[s] = v THEN 1 ELSE 0)
    <3>1. slot'[s] = nil /\ nil # v /\ \A p \in Slots : p # s => slot'[p] = slot[p]
      BY <1>0, ValuesAssumption DEF TypeOK
    <3>2. Cardinality(PropertyRefs(v))' =
            Cardinality(PropertyRefs(v)) + (IF slot'[s] = v THEN 1 ELSE 0) - (IF slot[s] = v THEN 1 ELSE 0)
      BY <1>0, <3>1, PropertyChange
    <3> QED
      BY <2>0, <3>1, <3>2
  <2>3. CountsAll(v) /\ count[v] \in Int
    BY <1>0 DEF CountInv, TypeOK
  <2> QED
    BY <1>3, <2>0, <2>1, <2>2, <2>3 DEF CountsAll
<1> QED
  BY <1>4, <1>5, <1>6, <1>7, <1>8, <1>9 DEF IndInv

\* The address of the freed object is used for a new one.
LEMMA NewObjectKeeps ==
  ASSUME IndInv, NewObject
  PROVE  IndInv'
<1>0. /\ TypeOK /\ LocalsInv /\ ReadInv /\ UsableInv /\ PropertyLockInv /\ StructLockInv
      /\ PhaseInv /\ EmptyInv /\ CountInv
  BY DEF IndInv
<1>1. /\ object = "free" /\ object' = "alive" /\ has_assoc' = FALSE
      /\ UNCHANGED <<count, held, th, slot, atomic, refs>>
  BY DEF NewObject, accessorVars
<1>2. NoAssociations /\ NoAssociations' /\ \A t \in Threads : th[t].pc \in {"idle"} \cup StructPCs
  BY <1>0, <1>1 DEF EmptyInv, PhaseInv, NoAssociations
<1>3. TypeOK' /\ LocalsInv' /\ ReadInv' /\ UsableInv' /\ PropertyLockInv'
  BY <1>0, <1>1 DEF TypeOK, LocalsInv, Room, ReadInv, UsableInv, PropertyLockInv
<1>4. StructLockInv'
  <2>1. \A u \in Threads : StructHeld(u)' = StructHeld(u)
    BY <1>1 DEF StructHeld, Stripes
  <2> QED
    BY <1>0, <2>1 DEF StructLockInv
<1>5. PhaseInv' /\ EmptyInv'
  BY <1>0, <1>1, <1>2 DEF PhaseInv, EmptyInv, StructPCs, NoProperties
<1>6. CountInv'
  <2>1. \A v \in Values : /\ ClientRefs(v)' = ClientRefs(v) /\ SetterRefs(v)' = SetterRefs(v)
                          /\ RemovedRefs(v)' = RemovedRefs(v) /\ AssociationRefs(v)' = AssociationRefs(v)
                          /\ PropertyRefs(v)' = PropertyRefs(v)
    BY <1>1 DEF ClientRefs, SetterRefs, RemovedRefs, AssociationRefs, PropertyRefs
  <2> QED
    BY <1>0, <1>1, <2>1 DEF CountInv, CountsAll
<1> QED
  BY <1>3, <1>4, <1>5, <1>6 DEF IndInv

\* Client code makes a value, or releases one that it owns.
LEMMA ClientKeeps ==
  ASSUME IndInv, NEW t \in Threads, th[t].pc = "idle", NEW c \in Values, NEW d \in {-1, 1},
         held[t][c] + d \in 0..MaxHeld, held' = [held EXCEPT ![t][c] = held[t][c] + d],
         count' = [count EXCEPT ![c] = count[c] + d], UNCHANGED <<th, object, assocVars, accessorVars>>
  PROVE  IndInv'
<1>0. /\ TypeOK /\ LocalsInv /\ ReadInv /\ UsableInv /\ PropertyLockInv /\ StructLockInv
      /\ PhaseInv /\ EmptyInv /\ CountInv
  BY DEF IndInv
<1>1. UNCHANGED <<refs, has_assoc, slot, atomic>>
  BY DEF assocVars, accessorVars
<1>2. \A u \in Threads : u # t => held'[u] = held[u]
  BY <1>0 DEF TypeOK
<1>3. count' \in [Values -> Int] /\ \A v \in Values : count'[v] = count[v] + (IF v = c THEN d ELSE 0)
  BY <1>0 DEF TypeOK
<1>4. TypeOK'
  BY <1>0, <1>1, <1>3 DEF TypeOK
<1>5. LocalsInv'
  BY <1>0, <1>1, <1>2 DEF LocalsInv, Room, GetterPCs
<1>6. ReadInv' /\ UsableInv' /\ PropertyLockInv' /\ PhaseInv' /\ EmptyInv'
  BY <1>0, <1>1 DEF ReadInv, UsableInv, PropertyLockInv, PhaseInv, EmptyInv, NoAssociations, NoProperties
<1>7. StructLockInv'
  <2>1. \A u \in Threads : StructHeld(u)' = StructHeld(u)
    BY DEF StructHeld, Stripes
  <2> QED
    BY <1>0, <2>1 DEF StructLockInv
<1>8. CountInv'
  <2> SUFFICES ASSUME NEW v \in Values
               PROVE  CountsAll(v)'
    BY DEF CountInv
  <2>0. /\ Cardinality(ClientRefs(v)) \in Nat /\ Cardinality(SetterRefs(v)) \in Nat /\ Cardinality(RemovedRefs(v)) \in Nat
        /\ Cardinality(AssociationRefs(v)) \in Nat /\ Cardinality(PropertyRefs(v)) \in Nat
    BY <1>0, RefsFinite
  <2>1. /\ SetterRefs(v)' = SetterRefs(v) /\ RemovedRefs(v)' = RemovedRefs(v)
        /\ AssociationRefs(v)' = AssociationRefs(v) /\ PropertyRefs(v)' = PropertyRefs(v)
    BY <1>1 DEF SetterRefs, RemovedRefs, AssociationRefs, PropertyRefs
  <2>2. Cardinality(ClientRefs(v))' = Cardinality(ClientRefs(v)) + (IF v = c THEN d ELSE 0)
    BY <1>0, ClientChange
  <2>3. CountsAll(v) /\ count[v] \in Int
    BY <1>0 DEF CountInv, TypeOK
  <2> QED
    BY <1>3, <2>0, <2>1, <2>2, <2>3 DEF CountsAll
<1> QED
  BY <1>4, <1>5, <1>6, <1>7, <1>8 DEF IndInv

\* A value with no reference is in nobody's hands.
LEMMA UnownedIsFree ==
  ASSUME IndInv, NEW t \in Threads, NEW v \in Values, count[v] = 0
  PROVE  held[t][v] = 0
<1>1. TypeOK /\ CountsAll(v)
  BY DEF IndInv, CountInv
<1>2. Cardinality(ClientRefs(v)) = 0 /\ IsFiniteSet(ClientRefs(v))
  <2>1. /\ Cardinality(ClientRefs(v)) \in Nat /\ Cardinality(SetterRefs(v)) \in Nat /\ Cardinality(RemovedRefs(v)) \in Nat
        /\ Cardinality(AssociationRefs(v)) \in Nat /\ Cardinality(PropertyRefs(v)) \in Nat
    BY <1>1, RefsFinite
  <2>2. 0 = Cardinality(ClientRefs(v)) + Cardinality(SetterRefs(v)) + Cardinality(RemovedRefs(v))
            + Cardinality(AssociationRefs(v)) + Cardinality(PropertyRefs(v))
    BY <1>1 DEF CountsAll
  <2>3. Cardinality(ClientRefs(v)) = 0
    BY <2>1, <2>2
  <2> QED
    BY <1>1, <2>3, RefsFinite
<1>3. ClientRefs(v) = {}
  BY <1>2, FS_EmptySet
<1>4. held[t][v] \in 0..MaxHeld /\ MaxHeld \in Nat \ {0}
  BY <1>1, ValuesAssumption DEF TypeOK
<1>5. <<t, 1>> \notin ClientRefs(v) /\ <<t, 1>> \in Threads \X (1..MaxHeld)
  BY <1>3, <1>4
<1>6. ~(1 <= held[t][v])
  BY <1>5 DEF ClientRefs
<1> QED
  BY <1>4, <1>6

----------------------------------------------------------------------------
(* The theorems.                                                           *)

LEMMA InitKeeps == Init => IndInv
<1> SUFFICES ASSUME Init
             PROVE  IndInv
  OBVIOUS
<1> USE DEF Init, InitValues, InitAssociations, InitAccessors
<1>1. TypeOK
  <2>1. Idle \in Call
    BY AssociationTypes DEF Call, Idle, PCs
  <2>2. held \in [Threads -> [Values -> 0..MaxHeld]]
    BY ValuesAssumption
  <2> QED
    <3>1. count \in [Values -> Int] /\ th \in [Threads -> Call] /\ object \in {"alive", "deallocating", "free"}
      BY <2>1
    <3>2. refs \in [Keys -> ObjcAssociation] /\ has_assoc \in BOOLEAN
      BY AssociationTypes
    <3>3. slot \in [Slots -> Values \cup {nil}] /\ atomic \in SUBSET Slots
      OBVIOUS
    <3> QED
      BY <2>2, <3>1, <3>2, <3>3 DEF TypeOK
<1>2. \A t \in Threads : th[t].pc = "idle" /\ th[t].cell = nil /\ th[t].a = No /\ th[t].src = nil /\ th[t].refs = {}
  BY DEF Idle
<1>3. LocalsInv /\ ReadInv
  BY <1>2 DEF LocalsInv, ReadInv, AssociationPCs, PropertyPCs, StructPCs, GetterPCs
<1>4. UsableInv /\ PropertyLockInv
  BY <1>2, AccessorsAssumption DEF UsableInv, PropertyLockInv, Inside
<1>5. StructLockInv
  <2>1. \A t \in Threads : StructHeld(t) = {}
    BY <1>2 DEF StructHeld
  <2> QED
    BY <2>1 DEF StructLockInv
<1>6. PhaseInv
  BY <1>2 DEF PhaseInv
<1>7. EmptyInv
  BY <1>2 DEF EmptyInv, NoAssociations, NoProperties
<1>8. CountInv
  <2> SUFFICES ASSUME NEW v \in Values
               PROVE  CountsAll(v)
    BY DEF CountInv
  <2>1. ClientRefs(v) = {}
    BY ValuesAssumption DEF ClientRefs
  <2>2. SetterRefs(v) = {} /\ RemovedRefs(v) = {}
    BY <1>2 DEF SetterRefs, RemovedRefs
  <2>3. AssociationRefs(v) = {} /\ PropertyRefs(v) = {}
    BY NoOwner, ValuesAssumption DEF AssociationRefs, PropertyRefs
  <2>4. Cardinality({}) = 0
    BY FS_EmptySet
  <2> QED
    BY <2>1, <2>2, <2>3, <2>4 DEF CountsAll
<1> QED
  BY <1>1, <1>3, <1>4, <1>5, <1>6, <1>7, <1>8 DEF IndInv

LEMMA StutterKeeps == IndInv /\ UNCHANGED vars => IndInv'
<1> SUFFICES ASSUME IndInv, UNCHANGED vars
             PROVE  IndInv'
  OBVIOUS
<1>1. UNCHANGED <<count, held, th, object, refs, has_assoc, slot, atomic>>
  BY DEF vars, valueVars, assocVars, accessorVars
<1>2. \A u \in Threads : StructHeld(u)' = StructHeld(u)
  BY <1>1 DEF StructHeld, Stripes
<1>3. StructLockInv'
  BY <1>2 DEF IndInv, StructLockInv
<1>4. TypeOK' /\ LocalsInv' /\ ReadInv' /\ UsableInv' /\ PropertyLockInv' /\ PhaseInv' /\ EmptyInv'
  BY <1>1 DEF IndInv, TypeOK, LocalsInv, Room, ReadInv, UsableInv, PropertyLockInv, PhaseInv, EmptyInv, NoAssociations, NoProperties
<1>5. CountInv'
  BY <1>1 DEF IndInv, CountInv, CountsAll, ClientRefs, SetterRefs, RemovedRefs, AssociationRefs, PropertyRefs
<1> QED
  BY <1>3, <1>4, <1>5 DEF IndInv

LEMMA NextKeeps == IndInv /\ [Next]_vars => IndInv'
<1> SUFFICES ASSUME IndInv, [Next]_vars
             PROVE  IndInv'
  OBVIOUS
<1>1. CASE UNCHANGED vars
  BY <1>1, StutterKeeps
<1>2. CASE NewObject
  BY <1>2, NewObjectKeeps
<1>3. ASSUME NEW t \in Threads, Client(t), UNCHANGED <<assocVars, accessorVars>>
      PROVE  IndInv'
  <2>1. ASSUME NEW v \in Values, NewValue(t, v)
        PROVE  IndInv'
    <3>1. held[t][v] = 0 /\ count[v] = 0 /\ 0 + 1 \in 0..MaxHeld
      BY <2>1, UnownedIsFree, ValuesAssumption DEF NewValue
    <3>2. /\ th[t].pc = "idle" /\ held' = [held EXCEPT ![t][v] = held[t][v] + 1]
          /\ count' = [count EXCEPT ![v] = count[v] + 1] /\ UNCHANGED <<th, object>>
      BY <2>1, <3>1 DEF NewValue
    <3> QED
      BY <1>3, <3>1, <3>2, ClientKeeps
  <2>2. ASSUME NEW v \in Values, DropValue(t, v)
        PROVE  IndInv'
    <3>1. held[t][v] > 0 /\ held[t][v] \in 0..MaxHeld /\ count[v] \in Int /\ MaxHeld \in Nat
      BY <2>2, ValuesAssumption DEF DropValue, IndInv, TypeOK
    <3>2. /\ th[t].pc = "idle" /\ held' = [held EXCEPT ![t][v] = held[t][v] + -1]
          /\ count' = [count EXCEPT ![v] = count[v] + -1] /\ UNCHANGED <<th, object>>
      BY <2>2, <3>1, ValuesAssumption DEF DropValue, Released, IndInv, TypeOK
    <3>3. held[t][v] + -1 \in 0..MaxHeld
      BY <3>1
    <3> QED
      BY <1>3, <3>2, <3>3, ClientKeeps
  <2> QED
    BY <1>3, <2>1, <2>2, DeallocKeeps, FreeKeeps, ReleaseOldKeeps, ReturnsKeeps DEF Client
<1>4. ASSUME NEW t \in Threads, AssociationStep(t), UNCHANGED accessorVars
      PROVE  IndInv'
  <2>1. ASSUME RefsReleased(t)
        PROVE  IndInv'
    BY <1>4, <2>1, RefsFreedKeeps, RefsReturnKeeps
  <2> QED
    BY <1>4, <2>1, GetAssociationKeeps, SetAssociationKeeps, SwapAssociationKeeps, SetHasAssociatedObjectsKeeps,
       FindAssociationKeeps, RetainReturnedKeeps, RemoveAllKeeps, HasAssociatedObjectsKeeps, TakeAssociationsKeeps,
       ReleaseRefKeeps DEF AssociationStep
<1>5. ASSUME NEW t \in Threads, AccessorStep(t), UNCHANGED assocVars
      PROVE  IndInv'
  <2>1. ASSUME NEW c \in StructCopies, copyStruct(t, c[1], c[2])
        PROVE  IndInv'
    <3>1. c[1] \in Structs /\ c[2] \in Structs
      BY AccessorsAssumption
    <3> QED
      BY <1>5, <2>1, <3>1, CopyStructKeeps
  <2> QED
    BY <1>5, <2>1, GetPropertyKeeps, SetPropertyKeeps, ReadPropertyKeeps, RetainPropertyKeeps, CompareKeeps,
       ReadOldKeeps, StoreKeeps, LockTwoKeeps, UnlockTwoKeeps DEF AccessorStep
<1>6. ASSUME NEW t \in Threads, cxxDestruct(t), UNCHANGED assocVars
      PROVE  IndInv'
  <2>1. CASE NoProperties
    BY <1>6, <2>1, CxxDestructEndKeeps
  <2>2. CASE ~NoProperties
    <3>1. PICK s \in Slots : slot[s] # nil /\ slot' = [slot EXCEPT ![s] = nil] /\ count' = Released(slot[s]) /\ UNCHANGED th
      BY <1>6, <2>2 DEF cxxDestruct, NoProperties
    <3>2. th[t].pc = "cxxDestruct" /\ UNCHANGED <<held, object, refs, has_assoc, atomic>>
      BY <1>6 DEF cxxDestruct, assocVars
    <3> QED
      BY <3>1, <3>2, CxxDestructKeeps
  <2> QED
    BY <2>1, <2>2
<1> QED
  BY <1>1, <1>2, <1>3, <1>4, <1>5, <1>6 DEF Next

\* The invariant holds in every state of every behaviour.
THEOREM StorageInvariance == Spec => []IndInv
  BY InitKeeps, NextKeeps, PTL DEF Spec

\* No atomic property or struct is written while another thread is in the middle of
\* reading or writing it: the striped locks, and the order in which objc_copyStruct
\* takes two of them, are enough for every assignment of locks.
THEOREM AccessesAreWhole == Spec => []NoTornAccess
<1>1. IndInv => NoTornAccess
  <2> SUFFICES ASSUME IndInv, NEW t \in Threads, NEW u \in Threads, t # u, NEW c, c \in Writes(t), c \in Reads(u)
               PROVE  FALSE
    BY DEF NoTornAccess
  <2>0. LocalsInv /\ UsableInv /\ PropertyLockInv /\ StructLockInv
    BY DEF IndInv
  <2>1. CASE th[t].pc = "store"
    <3>1. c = th[t].cell /\ c \in Slots
      BY <2>0, <2>1 DEF Writes, LocalsInv, PropertyPCs
    <3>2. th[u].pc \in {"store", "retainProperty"} /\ th[u].cell = c
      BY <2>0, <3>1, AccessorsAssumption DEF Reads, Writes, LocalsInv, StructPCs
    <3> QED
      BY <2>0, <2>1, <3>1, <3>2 DEF UsableInv, PropertyLockInv, Inside
  <2>2. CASE th[t].pc = "memmove"
    <3>1. c = th[t].cell /\ c \in Structs
      BY <2>0, <2>2 DEF Writes, LocalsInv, StructPCs
    <3>2. th[u].pc = "memmove" /\ c \in {th[u].cell, th[u].src}
      BY <2>0, <3>1, AccessorsAssumption DEF Reads, Writes, LocalsInv, PropertyPCs
    <3>3. StripeOf[c] \in StructHeld(t) /\ StripeOf[c] \in StructHeld(u)
      BY <2>2, <3>1, <3>2 DEF StructHeld, Stripes
    <3> QED
      BY <2>0, <3>3 DEF StructLockInv
  <2> QED
    BY <2>1, <2>2 DEF Writes
<1> QED
  BY <1>1, StorageInvariance, PTL

\* The retain count of every value is the number of its owners, and what a getter
\* retains is owned at that moment.
THEOREM OwnersAreCounted == Spec => []CountsOwners
<1>1. IndInv => CountsOwners
  <2> SUFFICES ASSUME IndInv
               PROVE  CountsOwners
    OBVIOUS
  <2>1. ASSUME NEW t \in Threads, th[t].pc \in {"retainReturned", "retainProperty"}, th[t].a.value # nil
        PROVE  count[th[t].a.value] > 0
    <3>1. TypeOK /\ LocalsInv /\ ReadInv /\ CountInv
      BY DEF IndInv
    <3>2. PICK v \in Values : v = th[t].a.value
      BY <2>1, <3>1 DEF TypeOK, Call, ObjcAssociation
    <3>3. AssociationRefs(v) # {} \/ PropertyRefs(v) # {}
      <4>1. CASE th[t].pc = "retainReturned"
        <5>1. th[t].cell \in Keys /\ Owns(refs[th[t].cell], v)
          BY <3>1, <3>2, <4>1 DEF LocalsInv, AssociationPCs, ReadInv, Owns
        <5> QED
          BY <5>1 DEF AssociationRefs
      <4>2. CASE th[t].pc = "retainProperty"
        <5>1. th[t].cell \in Slots /\ slot[th[t].cell] = v
          BY <3>1, <3>2, <4>2, AssociationTypes DEF LocalsInv, PropertyPCs, ReadInv, TypeOK
        <5> QED
          BY <5>1 DEF PropertyRefs
      <4> QED
        BY <2>1, <4>1, <4>2
    <3>4. /\ Cardinality(ClientRefs(v)) \in Nat /\ Cardinality(SetterRefs(v)) \in Nat /\ Cardinality(RemovedRefs(v)) \in Nat
          /\ Cardinality(AssociationRefs(v)) \in Nat /\ Cardinality(PropertyRefs(v)) \in Nat
          /\ IsFiniteSet(AssociationRefs(v)) /\ IsFiniteSet(PropertyRefs(v))
      BY <3>1, <3>2, RefsFinite
    <3>5. Cardinality(AssociationRefs(v)) # 0 \/ Cardinality(PropertyRefs(v)) # 0
      BY <3>3, <3>4, FS_EmptySet
    <3>6. count[v] = Cardinality(ClientRefs(v)) + Cardinality(SetterRefs(v)) + Cardinality(RemovedRefs(v))
                     + Cardinality(AssociationRefs(v)) + Cardinality(PropertyRefs(v))
      BY <3>1, <3>2 DEF CountInv, CountsAll
    <3>7. count[v] > 0
      <4>1. \A i, j, k, l, m \in Nat : l # 0 \/ m # 0 => i + j + k + l + m > 0
        OBVIOUS
      <4> QED
        BY <3>4, <3>5, <3>6, <4>1, ZenonT(60)
    <3> QED
      BY <3>2, <3>7
  <2> QED
    BY <2>1 DEF IndInv, CountInv, CountsAll, CountsOwners
<1> QED
  BY <1>1, StorageInvariance, PTL
----------------------------------------------------------------------------
(* The refinement: each step is one of the registers, or a stutter.        *)

SetPCs == {"set", "compare", "swap", "store"}
SetDonePCs == {"setHasAssociatedObjects", "release", "sameValue"}
GetPCs == {"get", "getProperty"}
GetDonePCs == {"retainReturned", "retainProperty", "return"}
ClearPCs == {"hasAssociatedObjects", "remove"}
ClearDonePCs == {"nothingToRemove", "releaseRefs"}

\* The call of the registers that a thread is in.
LEMMA SetEntry ==
  ASSUME NEW me, NEW phase, me.pc \in SetPCs
  PROVE  AbstractCall(me, phase) = [kind |-> "set", cell |-> me.cell, item |-> Item(me.cell, me.a), done |-> FALSE]
  BY DEF SetPCs, AbstractCall

LEMMA SetDoneEntry ==
  ASSUME NEW me, NEW phase, me.pc \in SetDonePCs
  PROVE  AbstractCall(me, phase) = [kind |-> "set", cell |-> nil, item |-> nil, done |-> TRUE]
  BY DEF SetDonePCs, AbstractCall

LEMMA GetEntry ==
  ASSUME NEW me, NEW phase, me.pc \in GetPCs
  PROVE  AbstractCall(me, phase) = [kind |-> "get", cell |-> me.cell, item |-> nil, done |-> FALSE]
  BY DEF GetPCs, AbstractCall

LEMMA GetDoneEntry ==
  ASSUME NEW me, NEW phase, me.pc \in GetDonePCs
  PROVE  AbstractCall(me, phase) = [kind |-> "get", cell |-> me.cell, item |-> Item(me.cell, me.a), done |-> TRUE]
  BY DEF GetDonePCs, AbstractCall

LEMMA ClearEntry ==
  ASSUME NEW me, NEW phase, me.pc \in ClearPCs, phase = "alive"
  PROVE  AbstractCall(me, phase) = [kind |-> "clear", cell |-> nil, item |-> nil, done |-> FALSE]
  BY DEF ClearPCs, AbstractCall

LEMMA ClearDoneEntry ==
  ASSUME NEW me, NEW phase, me.pc \in ClearDonePCs, phase = "alive"
  PROVE  AbstractCall(me, phase) = [kind |-> "clear", cell |-> nil, item |-> nil, done |-> TRUE]
  BY DEF ClearDonePCs, AbstractCall

LEMMA NoEntry ==
  ASSUME NEW me, NEW phase,
         me.pc \in {"idle", "cxxDestruct", "free"} \cup StructPCs \/ (me.pc \in DeallocPCs /\ phase # "alive")
  PROVE  AbstractCall(me, phase) = R!Idle
  BY DEF AbstractCall, R!Idle, R!Entry, StructPCs, DeallocPCs

\* A step of thread t in the calls of the registers.
LEMMA CallsChange ==
  ASSUME NEW t \in Threads, NEW x, th \in [Threads -> Call], th' = [th EXCEPT ![t] = x], object' = object
  PROVE  /\ AbstractCalls[t] = AbstractCall(th[t], object)
         /\ AbstractCalls' = [AbstractCalls EXCEPT ![t] = AbstractCall(x, object)]
         /\ \A u \in Threads \ {t} : AbstractCalls'[u] = AbstractCalls[u]
         /\ AbstractCalls'[t] = AbstractCall(x, object)
  BY DEF AbstractCalls

LEMMA SameValues == UNCHANGED <<refs, slot>> => AbstractValues' = AbstractValues
  BY DEF AbstractValues

LEMMA StutterStep ==
  ASSUME NEW t \in Threads, NEW x, th \in [Threads -> Call], th' = [th EXCEPT ![t] = x],
         UNCHANGED <<object, refs, slot>>,
         AbstractCall(x, object) = AbstractCall(th[t], object)
  PROVE  [R!Next]_(R!regVars)
<1>1. AbstractCalls' = AbstractCalls
  BY CallsChange DEF AbstractCalls
<1> QED
  BY <1>1, SameValues DEF R!regVars

LEMMA BeginStep ==
  ASSUME NEW t \in Threads, NEW x, th \in [Threads -> Call], th' = [th EXCEPT ![t] = x],
         UNCHANGED <<object, refs, slot>>, object = "alive", th[t].pc = "idle",
         AbstractCall(x, object) \in R!Calls
  PROVE  [R!Next]_(R!regVars)
<1>0. AbstractCall(th[t], object) = R!Idle
  BY NoEntry
<1>1. AbstractCalls[t] = R!Idle /\ AbstractCalls'[t] \in R!Calls /\ \A u \in Threads \ {t} : AbstractCalls'[u] = AbstractCalls[u]
  BY <1>0, CallsChange
<1>2. R!Begin(t)
  BY <1>1, SameValues DEF R!Begin
<1> QED
  BY <1>2 DEF R!Next

LEMMA EndStep ==
  ASSUME NEW t \in Threads, NEW x, th \in [Threads -> Call], th' = [th EXCEPT ![t] = x],
         UNCHANGED <<object, refs, slot>>, AbstractCall(th[t], object).done,
         AbstractCall(x, object) = R!Idle
  PROVE  [R!Next]_(R!regVars)
<1>1. R!End(t)
  BY CallsChange, SameValues DEF R!End
<1> QED
  BY <1>1 DEF R!Next

LEMMA GetStep ==
  ASSUME NEW t \in Threads, NEW x, th \in [Threads -> Call], th' = [th EXCEPT ![t] = x],
         UNCHANGED <<object, refs, slot>>, NEW c \in Keys \cup Slots,
         th[t].pc \in GetPCs, th[t].cell = c, x.pc \in GetDonePCs, x.cell = c, Item(c, x.a) = AbstractValues[c]
  PROVE  [R!Next]_(R!regVars)
<1>0. /\ AbstractCall(th[t], object) = [kind |-> "get", cell |-> c, item |-> nil, done |-> FALSE]
      /\ AbstractCall(x, object) = [kind |-> "get", cell |-> c, item |-> AbstractValues[c], done |-> TRUE]
  BY GetEntry, GetDoneEntry
<1>2. AbstractCalls[t] = AbstractCall(th[t], object) /\ AbstractCalls' = [AbstractCalls EXCEPT ![t] = AbstractCall(x, object)]
  BY CallsChange
<1>1. /\ AbstractCalls[t] = [kind |-> "get", cell |-> c, item |-> nil, done |-> FALSE]
      /\ AbstractCalls' = [AbstractCalls EXCEPT ![t] = [kind |-> "get", cell |-> c, item |-> AbstractValues[c], done |-> TRUE]]
  BY ONLY <1>0, <1>2
<1>3. R!Get(t)
  BY <1>1, SameValues DEF R!Get, R!Entry
<1> QED
  BY <1>3 DEF R!Next

LEMMA SetStep ==
  ASSUME NEW t \in Threads, NEW x, th \in [Threads -> Call], th' = [th EXCEPT ![t] = x],
         UNCHANGED object, NEW c \in Keys \cup Slots,
         th[t].pc \in SetPCs, th[t].cell = c, x.pc \in SetDonePCs,
         AbstractValues' = [AbstractValues EXCEPT ![c] = Item(c, th[t].a)]
  PROVE  [R!Next]_(R!regVars)
<1>0. /\ AbstractCall(th[t], object) = [kind |-> "set", cell |-> c, item |-> Item(c, th[t].a), done |-> FALSE]
      /\ AbstractCall(x, object) = [kind |-> "set", cell |-> nil, item |-> nil, done |-> TRUE]
  BY SetEntry, SetDoneEntry
<1>1. /\ AbstractCalls[t] = [kind |-> "set", cell |-> c, item |-> Item(c, th[t].a), done |-> FALSE]
      /\ AbstractCalls' = [AbstractCalls EXCEPT ![t] = [kind |-> "set", cell |-> nil, item |-> nil, done |-> TRUE]]
  BY <1>0, CallsChange, ZenonT(60)
<1>2. R!Set(t)
  BY <1>1 DEF R!Set, R!Entry
<1> QED
  BY <1>2 DEF R!Next

LEMMA ClearStep ==
  ASSUME NEW t \in Threads, NEW x, th \in [Threads -> Call], th' = [th EXCEPT ![t] = x],
         UNCHANGED object, object = "alive",
         th[t].pc \in ClearPCs, x.pc \in ClearDonePCs,
         \/ AbstractValues' = [c \in Keys \cup Slots |->
              IF AbstractValues[c] \in {i \in AbstractItems : i.kept} THEN AbstractValues[c] ELSE nil]
         \/ AbstractValues' = AbstractValues /\ \E u \in Threads : th[u].pc = "setHasAssociatedObjects"
  PROVE  [R!Next]_(R!regVars)
<1>0. /\ AbstractCall(th[t], object) = [kind |-> "clear", cell |-> nil, item |-> nil, done |-> FALSE]
      /\ AbstractCall(x, object) = [kind |-> "clear", cell |-> nil, item |-> nil, done |-> TRUE]
  BY ClearEntry, ClearDoneEntry
<1>2. AbstractCalls[t] = AbstractCall(th[t], object) /\ AbstractCalls' = [AbstractCalls EXCEPT ![t] = AbstractCall(x, object)]
  BY CallsChange
<1>1. /\ AbstractCalls[t] = [kind |-> "clear", cell |-> nil, item |-> nil, done |-> FALSE]
      /\ AbstractCalls' = [AbstractCalls EXCEPT ![t] = [kind |-> "clear", cell |-> nil, item |-> nil, done |-> TRUE]]
  BY ONLY <1>0, <1>2
<1>3. ASSUME NEW u \in Threads, th[u].pc = "setHasAssociatedObjects"
      PROVE  AbstractCalls[u].kind = "set" /\ AbstractCalls[u].done
  BY <1>3, SetDoneEntry DEF AbstractCalls, SetDonePCs
<1>4. R!Clear(t)
  BY <1>1, <1>3 DEF R!Clear, R!Entry
<1> QED
  BY <1>4 DEF R!Next

\* The items of properties and associations.
LEMMA Items ==
  ASSUME NEW c, NEW a \in ObjcAssociation
  PROVE  /\ a.value # nil => Item(c, a) = [value |-> a.value, kept |-> c \in Slots \/ SystemObject(a)]
         /\ a.value = nil => Item(c, a) = nil
         /\ Item(c, a) \in AbstractItems \cup {nil}
         /\ Item(c, No) = nil
  BY DEF Item, AbstractItems, ObjcAssociation, No, SystemObject

LEMMA ValueOf ==
  ASSUME TypeOK
  PROVE  /\ \A k \in Keys : AbstractValues[k] = Item(k, refs[k])
         /\ \A s \in Slots : AbstractValues[s] = Item(s, Property(slot[s]))
  BY StorageAssumption DEF AbstractValues

LEMMA CallTypes ==
  /\ \A c \in Keys \cup Slots : [kind |-> "get", cell |-> c, item |-> nil, done |-> FALSE] \in R!Calls
  /\ \A c \in Keys \cup Slots : \A i \in AbstractItems \cup {nil} :
       [kind |-> "set", cell |-> c, item |-> i, done |-> FALSE] \in R!Calls
  /\ [kind |-> "clear", cell |-> nil, item |-> nil, done |-> FALSE] \in R!Calls
<1>1. ASSUME NEW c \in Keys \cup Slots
      PROVE  /\ [kind |-> "get", cell |-> c, item |-> nil, done |-> FALSE] \in
                  [kind : {"get"}, cell : Keys \cup Slots, item : {nil}, done : {FALSE}]
             /\ \A i \in AbstractItems \cup {nil} :
                  [kind |-> "set", cell |-> c, item |-> i, done |-> FALSE] \in
                    [kind : {"set"}, cell : Keys \cup Slots, item : AbstractItems \cup {nil}, done : {FALSE}]
  OBVIOUS
<1>2. [kind |-> "clear", cell |-> nil, item |-> nil, done |-> FALSE] = R!Entry("clear", nil, nil, FALSE)
  BY DEF R!Entry
<1> QED
  BY <1>1, <1>2 DEF R!Calls

LEMMA AccessorSteps ==
  ASSUME IndInv, IndInv', NEW t \in Threads, AccessorStep(t), UNCHANGED assocVars
  PROVE  [R!Next]_(R!regVars)
<1>0. TypeOK /\ LocalsInv /\ PhaseInv /\ th \in [Threads -> Call] /\ th[t] \in Call
  BY DEF IndInv, TypeOK
<1>a. UNCHANGED <<refs, has_assoc>>
  BY DEF assocVars
<1>1. ASSUME NEW s \in Slots, GetProperty(t, s)
      PROVE  [R!Next]_(R!regVars)
  <2> DEFINE x == [Idle EXCEPT !.pc = "getProperty", !.cell = s]
  <2>1. th' = [th EXCEPT ![t] = x] /\ UNCHANGED <<object, refs, slot>> /\ object = "alive" /\ th[t].pc = "idle"
    BY <1>1, <1>a DEF GetProperty, Calls, Goto, accessorVars
  <2>2. x.pc \in GetPCs /\ x.cell = s
    BY DEF Idle, GetPCs
  <2> HIDE DEF x
  <2>3. AbstractCall(x, object) \in R!Calls
    BY <2>2, GetEntry, CallTypes
  <2> QED
    BY <1>0, <2>1, <2>3, BeginStep
<1>2. ASSUME NEW s \in Slots, SetProperty(t, s)
      PROVE  [R!Next]_(R!regVars)
  <2>1. PICK c \in Values \cup {nil}, p \in {"compare", "swap"} :
          /\ th' = [th EXCEPT ![t] = [Idle EXCEPT !.pc = p, !.cell = s, !.a = Property(c)]]
          /\ UNCHANGED <<object, slot>> /\ object = "alive" /\ th[t].pc = "idle"
    BY <1>2 DEF SetProperty, Calls, Arguments, Copies, Goto, accessorVars
  <2> DEFINE x == [Idle EXCEPT !.pc = p, !.cell = s, !.a = Property(c)]
  <2>2. x.pc \in SetPCs /\ x.cell = s /\ x.a = Property(c)
    BY DEF Idle, SetPCs
  <2> HIDE DEF x
  <2>3. Item(s, Property(c)) \in AbstractItems \cup {nil}
    BY AssociationTypes, Items
  <2>4. AbstractCall(x, object) \in R!Calls
    BY <2>2, <2>3, SetEntry, CallTypes
  <2>5. th' = [th EXCEPT ![t] = x] /\ UNCHANGED <<object, refs, slot>>
    BY <1>a, <2>1 DEF x
  <2> QED
    BY <1>0, <2>1, <2>4, <2>5, BeginStep
<1>3. ASSUME ReadProperty(t)
      PROVE  [R!Next]_(R!regVars)
  <2> DEFINE s == th[t].cell
             x == [th[t] EXCEPT !.a = Property(slot[s]), !.pc = IF s \in atomic THEN "retainProperty" ELSE "return"]
  <2>1. th' = [th EXCEPT ![t] = x] /\ UNCHANGED <<object, refs, slot>> /\ th[t].pc = "getProperty"
    BY <1>3, <1>a DEF ReadProperty, Goto, accessorVars
  <2>2. x.pc \in GetDonePCs /\ x.cell = s /\ x.a = Property(slot[s]) /\ th[t].pc \in GetPCs /\ s \in Slots
    BY <1>0, <2>1 DEF Call, GetDonePCs, GetPCs, LocalsInv, PropertyPCs
  <2>3. Item(s, x.a) = AbstractValues[s]
    BY <1>0, <2>2, ValueOf
  <2> HIDE DEF x
  <2> QED
    BY <1>0, <2>1, <2>2, <2>3, GetStep
<1>4. ASSUME RetainProperty(t)
      PROVE  [R!Next]_(R!regVars)
  <2>1. th' = [th EXCEPT ![t] = Idle] /\ UNCHANGED <<object, refs, slot>> /\ th[t].pc \in GetDonePCs
    BY <1>4, <1>a DEF RetainProperty, Return, Goto, accessorVars, GetDonePCs
  <2>2. AbstractCall(th[t], object).done /\ AbstractCall(Idle, object) = R!Idle
    <3>1. Idle.pc = "idle"
      BY DEF Idle
    <3> QED
      BY <2>1, <3>1, GetDoneEntry, NoEntry
  <2> QED
    BY <1>0, <2>1, <2>2, EndStep
<1>5. ASSUME Compare(t)
      PROVE  [R!Next]_(R!regVars)
  <2>1. th[t].pc = "compare" /\ UNCHANGED <<object, refs, slot>>
    BY <1>5, <1>a DEF Compare, accessorVars
  <2>2. th[t].cell \in Slots /\ th[t].a = Property(th[t].a.value) /\ th[t].pc \in SetPCs
    BY <1>0, <2>1 DEF LocalsInv, PropertyPCs, SetPCs
  <2>3. CASE slot[th[t].cell] = th[t].a.value
    <3> DEFINE x == [th[t] EXCEPT !.pc = "sameValue"]
    <3>1. th' = [th EXCEPT ![t] = x]
      BY <1>5, <2>3 DEF Compare, Goto
    <3>2. x.pc \in SetDonePCs
      BY <1>0 DEF Call, SetDonePCs
    <3>3. AbstractValues[th[t].cell] = Item(th[t].cell, th[t].a)
      BY <1>0, <2>2, <2>3, ValueOf
    <3>4. AbstractValues' = [AbstractValues EXCEPT ![th[t].cell] = Item(th[t].cell, th[t].a)]
      BY <2>1, <3>3, SameValues DEF AbstractValues
    <3> HIDE DEF x
    <3> QED
      BY <1>0, <2>1, <2>2, <3>1, <3>2, <3>4, SetStep
  <2>4. CASE slot[th[t].cell] # th[t].a.value
    <3> DEFINE x == [th[t] EXCEPT !.pc = "swap"]
    <3>1. th' = [th EXCEPT ![t] = x]
      BY <1>5, <2>4 DEF Compare, Goto
    <3>2. x.pc \in SetPCs /\ x.cell = th[t].cell /\ x.a = th[t].a
      BY <1>0 DEF Call, SetPCs
    <3> HIDE DEF x
    <3>3. AbstractCall(x, object) = AbstractCall(th[t], object)
      BY <2>2, <3>2, SetEntry
    <3> QED
      BY <1>0, <2>1, <3>1, <3>3, StutterStep
  <2> QED
    BY <2>3, <2>4
<1>6. ASSUME ReadOld(t)
      PROVE  [R!Next]_(R!regVars)
  <2> DEFINE x == [th[t] EXCEPT !.pc = "store", !.old = slot[th[t].cell]]
  <2>1. th' = [th EXCEPT ![t] = x] /\ UNCHANGED <<object, refs, slot>> /\ th[t].pc \in SetPCs
    BY <1>6, <1>a DEF ReadOld, Goto, accessorVars, SetPCs
  <2>2. x.pc \in SetPCs /\ x.cell = th[t].cell /\ x.a = th[t].a
    BY <1>0 DEF Call, SetPCs
  <2> HIDE DEF x
  <2>3. AbstractCall(x, object) = AbstractCall(th[t], object)
    BY <2>1, <2>2, SetEntry
  <2> QED
    BY <1>0, <2>1, <2>3, StutterStep
<1>7. ASSUME Store(t)
      PROVE  [R!Next]_(R!regVars)
  <2> DEFINE x == [th[t] EXCEPT !.pc = "release", !.a = Property(th[t].old), !.old = nil]
             s == th[t].cell
  <2>1. /\ th' = [th EXCEPT ![t] = x] /\ UNCHANGED <<object, refs>> /\ th[t].pc = "store"
        /\ slot' = [slot EXCEPT ![s] = th[t].a.value]
    BY <1>7, <1>a DEF Store, Goto, accessorVars
  <2>2. x.pc \in SetDonePCs /\ s \in Slots /\ th[t].a = Property(th[t].a.value) /\ th[t].pc \in SetPCs
    BY <1>0, <2>1 DEF Call, LocalsInv, PropertyPCs, SetDonePCs, SetPCs
  <2>3. AbstractValues' = [AbstractValues EXCEPT ![s] = Item(s, th[t].a)]
    <3>1. slot \in [Slots -> Values \cup {nil}] /\ s \notin Keys
      BY <1>0, <2>2, StorageAssumption DEF TypeOK
    <3> QED
      BY <2>1, <2>2, <3>1 DEF AbstractValues
  <2> HIDE DEF x
  <2> QED
    BY <1>0, <2>1, <2>2, <2>3, SetStep
<1>8. ASSUME th[t].pc \in {"idle"} \cup StructPCs, NEW x, x.pc \in {"idle"} \cup StructPCs, th' = [th EXCEPT ![t] = x],
             UNCHANGED <<object, accessorVars>>
      PROVE  [R!Next]_(R!regVars)
  <2>1. AbstractCall(x, object) = AbstractCall(th[t], object)
    BY <1>8, NoEntry
  <2>2. UNCHANGED <<object, refs, slot>>
    BY <1>8, <1>a DEF accessorVars
  <2> QED
    BY <1>0, <1>8, <2>1, <2>2, StutterStep
<1>9. ASSUME NEW c \in StructCopies, copyStruct(t, c[1], c[2])
      PROVE  [R!Next]_(R!regVars)
  <2> DEFINE x == [Idle EXCEPT !.pc = "lockTwo", !.src = c[1], !.cell = c[2]]
  <2>1. x.pc \in {"idle"} \cup StructPCs
    BY DEF Idle, StructPCs
  <2>2. th[t].pc \in {"idle"} \cup StructPCs /\ th' = [th EXCEPT ![t] = x] /\ UNCHANGED <<object, accessorVars>>
    BY <1>9 DEF copyStruct, Goto
  <2> HIDE DEF x
  <2> QED
    BY <1>8, <2>1, <2>2
<1>10. ASSUME lockTwo(t)
       PROVE  [R!Next]_(R!regVars)
  <2>1. PICK p \in {"lockSecond", "memmove"} : th' = [th EXCEPT ![t] = [th[t] EXCEPT !.pc = p]]
    BY <1>10 DEF lockTwo, Goto
  <2> DEFINE x == [th[t] EXCEPT !.pc = p]
  <2>2. x.pc \in {"idle"} \cup StructPCs
    BY <1>0 DEF Call, StructPCs
  <2>3. th[t].pc \in {"idle"} \cup StructPCs /\ UNCHANGED <<object, accessorVars>>
    BY <1>10 DEF lockTwo, StructPCs
  <2>4. th' = [th EXCEPT ![t] = x]
    BY <2>1
  <2> HIDE DEF x
  <2> QED
    BY <1>8, <2>2, <2>3, <2>4
<1>11. ASSUME unlockTwo(t)
       PROVE  [R!Next]_(R!regVars)
  <2>1. Idle.pc \in {"idle"} \cup StructPCs
    BY DEF Idle
  <2>2. th[t].pc \in {"idle"} \cup StructPCs /\ th' = [th EXCEPT ![t] = Idle] /\ UNCHANGED <<object, accessorVars>>
    BY <1>11 DEF unlockTwo, Return, Goto, StructPCs
  <2> QED
    BY <1>8, <2>1, <2>2
<1> QED
  BY <1>1, <1>2, <1>3, <1>4, <1>5, <1>6, <1>7, <1>9, <1>10, <1>11 DEF AccessorStep


\* Removing the associations leaves what the registers keep.
LEMMA Cleared ==
  ASSUME IndInv, slot' = slot,
         \A k \in Keys : refs'[k] = IF refs[k] # No /\ ~SystemObject(refs[k]) THEN No ELSE refs[k]
  PROVE  AbstractValues' = [c \in Keys \cup Slots |->
           IF AbstractValues[c] \in {i \in AbstractItems : i.kept} THEN AbstractValues[c] ELSE nil]
<1>0. TypeOK /\ EmptyInv
  BY DEF IndInv
<1>1. ASSUME NEW k \in Keys
      PROVE  Item(k, refs'[k]) = IF AbstractValues[k] \in {i \in AbstractItems : i.kept} THEN AbstractValues[k] ELSE nil
  <2>1. AbstractValues[k] = Item(k, refs[k]) /\ refs[k] \in ObjcAssociation /\ k \notin Slots
    BY <1>0, ValueOf, StorageAssumption DEF TypeOK
  <2>2. CASE refs[k].value = nil
    BY <2>1, <2>2, Items
  <2>3. CASE refs[k].value # nil
    <3>1. refs[k] # No /\ refs[k].value \in Values
      BY <2>1, <2>3 DEF ObjcAssociation, No
    <3>2. CASE SystemObject(refs[k])
      <4>1. AbstractValues[k] = [value |-> refs[k].value, kept |-> TRUE]
        BY <2>1, <2>3, <3>2 DEF Item
      <4>2. AbstractValues[k] \in AbstractItems /\ AbstractValues[k].kept
        BY <3>1, <4>1 DEF AbstractItems
      <4> QED
        BY <2>1, <3>1, <3>2, <4>2
    <3>3. CASE ~SystemObject(refs[k])
      <4>1. AbstractValues[k] = [value |-> refs[k].value, kept |-> FALSE]
        BY <2>1, <2>3, <3>3 DEF Item
      <4>2. ~AbstractValues[k].kept
        BY <4>1
      <4> QED
        BY <2>1, <3>1, <3>3, <4>2, Items
    <3> QED
      BY <3>2, <3>3
  <2> QED
    BY <2>2, <2>3
<1>2. ASSUME NEW s \in Slots
      PROVE  AbstractValues[s] = IF AbstractValues[s] \in {i \in AbstractItems : i.kept} THEN AbstractValues[s] ELSE nil
  <2>1. AbstractValues[s] = Item(s, Property(slot[s])) /\ Property(slot[s]) \in ObjcAssociation /\ s \in Slots
    BY <1>0, ValueOf, AssociationTypes DEF TypeOK
  <2>2. CASE Property(slot[s]).value = nil
    BY <2>1, <2>2, Items
  <2>3. CASE Property(slot[s]).value # nil
    <3>1. AbstractValues[s] = [value |-> Property(slot[s]).value, kept |-> TRUE] /\ Property(slot[s]).value \in Values
      BY <2>1, <2>3 DEF Item, ObjcAssociation
    <3>2. AbstractValues[s] \in AbstractItems /\ AbstractValues[s].kept
      BY <3>1 DEF AbstractItems
    <3> QED
      BY <3>2
  <2> QED
    BY <2>2, <2>3
<1>3. \A c \in Keys : AbstractValues'[c] = Item(c, refs'[c])
  BY DEF AbstractValues
<1>4. \A c \in Slots : AbstractValues'[c] = AbstractValues[c]
  BY StorageAssumption DEF AbstractValues
<1>5. AbstractValues' = [c \in Keys \cup Slots |-> AbstractValues'[c]]
  BY DEF AbstractValues
<1> HIDE DEF AbstractValues
<1> QED
  BY <1>1, <1>2, <1>3, <1>4, <1>5

LEMMA AssociationSteps ==
  ASSUME IndInv, IndInv', NEW t \in Threads, AssociationStep(t), UNCHANGED accessorVars
  PROVE  [R!Next]_(R!regVars)
<1>0. TypeOK /\ LocalsInv /\ PhaseInv /\ EmptyInv /\ th \in [Threads -> Call] /\ th[t] \in Call
  BY DEF IndInv, TypeOK
<1>a. UNCHANGED <<slot, atomic>>
  BY DEF accessorVars
<1>b. Idle.pc = "idle" /\ AbstractCall(Idle, object) = R!Idle
  <2>1. Idle.pc = "idle"
    BY DEF Idle
  <2> QED
    BY <2>1, NoEntry
<1>1. ASSUME NEW k \in Keys, GetAssociation(t, k)
      PROVE  [R!Next]_(R!regVars)
  <2> DEFINE x == [Idle EXCEPT !.pc = "get", !.cell = k]
  <2>1. th' = [th EXCEPT ![t] = x] /\ UNCHANGED <<object, refs, slot>> /\ object = "alive" /\ th[t].pc = "idle"
    BY <1>1, <1>a DEF GetAssociation, Calls, Goto, assocVars
  <2>2. x.pc \in GetPCs /\ x.cell = k
    BY DEF Idle, GetPCs
  <2> HIDE DEF x
  <2>3. AbstractCall(x, object) \in R!Calls
    BY <2>2, GetEntry, CallTypes
  <2> QED
    BY <1>0, <2>1, <2>3, BeginStep
<1>2. ASSUME NEW k \in Keys, NEW policy \in Policies[k], SetAssociation(t, k, policy)
      PROVE  [R!Next]_(R!regVars)
  <2>1. PICK c, a :
          /\ c \in Values \cup {nil} /\ a \in {No, [value |-> c, policy |-> policy]}
          /\ th' = [th EXCEPT ![t] = [Idle EXCEPT !.pc = "set", !.cell = k, !.a = a]]
          /\ UNCHANGED <<object, refs>> /\ object = "alive" /\ th[t].pc = "idle"
    BY <1>2 DEF SetAssociation, Calls, Arguments, Copies, Goto, assocVars
  <2> DEFINE x == [Idle EXCEPT !.pc = "set", !.cell = k, !.a = a]
  <2>2. x.pc \in SetPCs /\ x.cell = k /\ x.a = a
    BY DEF Idle, SetPCs
  <2>3. a \in ObjcAssociation
    BY <1>2, <2>1, AssociationsAssumption, AssociationTypes DEF ObjcAssociation, AllPolicies
  <2>4. th' = [th EXCEPT ![t] = x] /\ UNCHANGED <<object, refs, slot>>
    BY <1>a, <2>1
  <2> HIDE DEF x
  <2>5. Item(k, a) \in AbstractItems \cup {nil}
    BY <2>3, Items
  <2>6. AbstractCall(x, object) \in R!Calls
    BY <2>2, <2>5, SetEntry, CallTypes
  <2> QED
    BY <1>0, <2>1, <2>4, <2>6, BeginStep
<1>3. ASSUME SwapAssociation(t)
      PROVE  [R!Next]_(R!regVars)
  <2>1. PICK p \in {"setHasAssociatedObjects", "release"} :
          th' = [th EXCEPT ![t] = [th[t] EXCEPT !.a = refs[th[t].cell], !.pc = p]]
    BY <1>3 DEF SwapAssociation, Goto
  <2> DEFINE x == [th[t] EXCEPT !.a = refs[th[t].cell], !.pc = p]
             k == th[t].cell
  <2>2. /\ th' = [th EXCEPT ![t] = x] /\ UNCHANGED object /\ th[t].pc = "set"
        /\ refs' = [refs EXCEPT ![k] = th[t].a]
    BY <1>3, <2>1 DEF SwapAssociation
  <2>3. x.pc \in SetDonePCs /\ k \in Keys /\ th[t].pc \in SetPCs
    BY <1>0, <2>2 DEF Call, LocalsInv, AssociationPCs, SetDonePCs, SetPCs
  <2>4. AbstractValues' = [AbstractValues EXCEPT ![k] = Item(k, th[t].a)]
    <3>1. refs \in [Keys -> ObjcAssociation] /\ th[t].a \in ObjcAssociation
      BY <1>0 DEF TypeOK, Call
    <3>2. /\ Item(k, refs'[k]) = Item(k, th[t].a)
          /\ \A l \in Keys : l # k => refs'[l] = refs[l]
      BY <2>2, <2>3, <3>1
    <3> HIDE DEF k, x
    <3> QED
      BY <1>a, <2>3, <3>2 DEF AbstractValues
  <2> HIDE DEF x
  <2> QED
    BY <1>0, <2>2, <2>3, <2>4, SetStep
<1>4. ASSUME SetHasAssociatedObjects(t)
      PROVE  [R!Next]_(R!regVars)
  <2> DEFINE x == [th[t] EXCEPT !.pc = "release"]
  <2>1. th' = [th EXCEPT ![t] = x] /\ UNCHANGED <<object, refs, slot>> /\ th[t].pc \in SetDonePCs
    BY <1>4, <1>a DEF SetHasAssociatedObjects, Goto, SetDonePCs
  <2>2. x.pc \in SetDonePCs
    BY <1>0 DEF Call, SetDonePCs
  <2> HIDE DEF x
  <2>3. AbstractCall(x, object) = AbstractCall(th[t], object)
    BY <2>1, <2>2, SetDoneEntry
  <2> QED
    BY <1>0, <2>1, <2>3, StutterStep
<1>5. ASSUME FindAssociation(t)
      PROVE  [R!Next]_(R!regVars)
  <2>1. PICK p \in {"retainReturned", "return"} :
          th' = [th EXCEPT ![t] = [th[t] EXCEPT !.a = refs[th[t].cell], !.pc = p]]
    BY <1>5 DEF FindAssociation, Goto
  <2> DEFINE k == th[t].cell
             x == [th[t] EXCEPT !.a = refs[k], !.pc = p]
  <2>2. th' = [th EXCEPT ![t] = x] /\ UNCHANGED <<object, refs, slot>> /\ th[t].pc = "get"
    BY <1>5, <1>a, <2>1 DEF FindAssociation, assocVars
  <2>3. x.pc \in GetDonePCs /\ x.cell = k /\ x.a = refs[k] /\ th[t].pc \in GetPCs /\ k \in Keys
    BY <1>0, <2>2 DEF Call, GetDonePCs, GetPCs, LocalsInv, AssociationPCs
  <2>4. Item(k, x.a) = AbstractValues[k]
    BY <1>0, <2>3, ValueOf
  <2> HIDE DEF x
  <2> QED
    BY <1>0, <2>2, <2>3, <2>4, GetStep
<1>6. ASSUME RetainReturned(t)
      PROVE  [R!Next]_(R!regVars)
  <2>1. th' = [th EXCEPT ![t] = Idle] /\ UNCHANGED <<object, refs, slot>> /\ th[t].pc \in GetDonePCs
    BY <1>6, <1>a DEF RetainReturned, Return, Goto, assocVars, GetDonePCs
  <2>2. AbstractCall(th[t], object).done
    BY <2>1, GetDoneEntry
  <2> QED
    BY <1>0, <1>b, <2>1, <2>2, EndStep
<1>7. ASSUME RemoveAll(t)
      PROVE  [R!Next]_(R!regVars)
  <2> DEFINE x == [Idle EXCEPT !.pc = "hasAssociatedObjects"]
  <2>1. th' = [th EXCEPT ![t] = x] /\ UNCHANGED <<object, refs, slot>> /\ object = "alive" /\ th[t].pc = "idle"
    BY <1>7, <1>a DEF RemoveAll, Calls, Goto, assocVars
  <2>2. x.pc \in ClearPCs
    BY DEF Idle, ClearPCs
  <2> HIDE DEF x
  <2>3. AbstractCall(x, object) \in R!Calls
    BY <2>1, <2>2, ClearEntry, CallTypes
  <2> QED
    BY <1>0, <2>1, <2>3, BeginStep
<1>8. ASSUME HasAssociatedObjects(t)
      PROVE  [R!Next]_(R!regVars)
  <2>1. th[t].pc = "hasAssociatedObjects" /\ UNCHANGED <<object, refs, slot>> /\ object = "alive" /\ th[t].pc \in ClearPCs
    BY <1>0, <1>8, <1>a DEF HasAssociatedObjects, assocVars, PhaseInv, TypeOK, StructPCs, DeallocPCs, ClearPCs
  <2>2. CASE has_assoc
    <3> DEFINE x == [th[t] EXCEPT !.pc = "remove"]
    <3>1. th' = [th EXCEPT ![t] = x]
      BY <1>8, <2>2 DEF HasAssociatedObjects, Goto
    <3>2. x.pc \in ClearPCs
      BY <1>0 DEF Call, ClearPCs
    <3> HIDE DEF x
    <3>3. AbstractCall(x, object) = AbstractCall(th[t], object)
      BY <2>1, <3>2, ClearEntry
    <3> QED
      BY <1>0, <2>1, <3>1, <3>3, StutterStep
  <2>3. CASE ~has_assoc
    <3> DEFINE x == [th[t] EXCEPT !.pc = "nothingToRemove"]
    <3>1. th' = [th EXCEPT ![t] = x]
      BY <1>8, <2>3 DEF HasAssociatedObjects, Goto
    <3>2. x.pc \in ClearDonePCs
      BY <1>0 DEF Call, ClearDonePCs
    <3> HIDE DEF x
    <3>3. AbstractValues' = AbstractValues
      BY <2>1, SameValues
    <3>4. CASE NoAssociations
      <4>1. \A k \in Keys : refs'[k] = IF refs[k] # No /\ ~SystemObject(refs[k]) THEN No ELSE refs[k]
        BY <2>1, <3>4 DEF NoAssociations
      <4>2. AbstractValues' = [c \in Keys \cup Slots |->
              IF AbstractValues[c] \in {i \in AbstractItems : i.kept} THEN AbstractValues[c] ELSE nil]
        BY <2>1, <4>1, Cleared
      <4> QED
        BY <1>0, <2>1, <3>1, <3>2, <4>2, ClearStep
    <3>5. CASE \E u \in Threads : th[u].pc = "setHasAssociatedObjects"
      BY <1>0, <2>1, <3>1, <3>2, <3>3, <3>5, ClearStep
    <3> QED
      BY <1>0, <2>1, <2>3, <3>4, <3>5 DEF EmptyInv
  <2> QED
    BY <1>0, <2>2, <2>3 DEF TypeOK
<1>9. ASSUME TakeAssociations(t)
      PROVE  [R!Next]_(R!regVars)
  <2>1. PICK taken : th' = [th EXCEPT ![t] = [th[t] EXCEPT !.pc = "releaseRefs", !.refs = taken]]
    BY <1>9 DEF TakeAssociations, Goto
  <2> DEFINE x == [th[t] EXCEPT !.pc = "releaseRefs", !.refs = taken]
  <2>2. th' = [th EXCEPT ![t] = x] /\ UNCHANGED object /\ th[t].pc = "remove"
    BY <1>9, <2>1 DEF TakeAssociations
  <2>3. x.pc = "releaseRefs"
    BY <1>0 DEF Call
  <2> HIDE DEF x
  <2>4. CASE object = "alive"
    <3>1. \A k \in Keys : refs'[k] = IF refs[k] # No /\ ~SystemObject(refs[k]) THEN No ELSE refs[k]
      BY <1>9, <2>4 DEF TakeAssociations, Taken
    <3>2. AbstractValues' = [c \in Keys \cup Slots |->
            IF AbstractValues[c] \in {i \in AbstractItems : i.kept} THEN AbstractValues[c] ELSE nil]
      BY <1>a, <3>1, Cleared
    <3>3. th[t].pc \in ClearPCs /\ x.pc \in ClearDonePCs
      BY <2>2, <2>3 DEF ClearPCs, ClearDonePCs
    <3> QED
      BY <1>0, <2>2, <2>4, <3>2, <3>3, ClearStep
  <2>5. CASE object = "deallocating"
    <3>1. \A k \in Keys : refs'[k] = No \/ refs'[k] = refs[k]
      BY <1>9 DEF TakeAssociations
    <3>2. \A k \in Keys : Item(k, No) = nil
      BY DEF Item, No
    <3>3. \A c \in Keys \cup Slots : AbstractValues'[c] \in {AbstractValues[c], nil}
      BY <1>a, <3>1, <3>2 DEF AbstractValues
    <3>4. AbstractCall(x, object) = AbstractCall(th[t], object)
      <4>1. AbstractCall(x, object) = R!Idle /\ AbstractCall(th[t], object) = R!Idle
        BY <2>2, <2>3, <2>5, NoEntry DEF DeallocPCs
      <4> QED
        BY <4>1
    <3>5. AbstractCalls' = AbstractCalls
      BY <1>0, <2>2, <3>4, CallsChange DEF AbstractCalls
    <3>6. R!Empty
      BY <2>2, <2>5, <3>3, <3>5 DEF R!Empty
    <3> QED
      BY <3>6 DEF R!Next
  <2> QED
    BY <1>0, <2>2, <2>4, <2>5 DEF PhaseInv, TypeOK, StructPCs
<1>10. ASSUME ReleaseRef(t)
       PROVE  [R!Next]_(R!regVars)
  <2>1. PICK left : th' = [th EXCEPT ![t] = [th[t] EXCEPT !.refs = left]]
    BY <1>10 DEF ReleaseRef, Goto
  <2> DEFINE x == [th[t] EXCEPT !.refs = left]
  <2>2. th' = [th EXCEPT ![t] = x] /\ UNCHANGED <<object, refs, slot>> /\ th[t].pc = "releaseRefs"
    BY <1>10, <1>a, <2>1 DEF ReleaseRef, assocVars
  <2>3. x.pc = "releaseRefs"
    BY <1>0, <2>2 DEF Call
  <2> HIDE DEF x
  <2>4. AbstractCall(x, object) = AbstractCall(th[t], object)
    <3>1. CASE object = "alive"
      <4> DEFINE e == [kind |-> "clear", cell |-> nil, item |-> nil, done |-> TRUE]
      <4>1. x.pc \in ClearDonePCs /\ th[t].pc \in ClearDonePCs
        BY <2>2, <2>3 DEF ClearDonePCs
      <4>2. AbstractCall(x, object) = e
        BY <3>1, <4>1, ClearDoneEntry
      <4>3. AbstractCall(th[t], object) = e
        BY <3>1, <4>1, ClearDoneEntry
      <4> QED
        BY <4>2, <4>3
    <3>2. CASE object # "alive"
      <4>1. AbstractCall(x, object) = R!Idle /\ AbstractCall(th[t], object) = R!Idle
        BY <2>2, <2>3, <3>2, NoEntry DEF DeallocPCs
      <4> QED
        BY <4>1
    <3> QED
      BY <3>1, <3>2
  <2> QED
    BY <1>0, <2>2, <2>4, StutterStep
<1>11. ASSUME RefsReleased(t)
       PROVE  [R!Next]_(R!regVars)
  <2>1. th[t].pc = "releaseRefs" /\ UNCHANGED <<object, refs, slot>>
    BY <1>11, <1>a DEF RefsReleased, assocVars
  <2>2. CASE object = "alive"
    <3>1. th' = [th EXCEPT ![t] = Idle]
      BY <1>11, <2>2 DEF RefsReleased, Return, Goto
    <3>2. AbstractCall(th[t], object).done
      BY <2>1, <2>2, ClearDoneEntry DEF ClearDonePCs
    <3> QED
      BY <1>0, <1>b, <2>1, <3>1, <3>2, EndStep
  <2>3. CASE object = "deallocating"
    <3> DEFINE x == [th[t] EXCEPT !.pc = "free"]
    <3>1. th' = [th EXCEPT ![t] = x]
      BY <1>11, <2>3 DEF RefsReleased, Goto
    <3>2. x.pc = "free"
      BY <1>0 DEF Call
    <3> HIDE DEF x
    <3>3. AbstractCall(x, object) = R!Idle
      BY <3>2, NoEntry
    <3>4. AbstractCall(th[t], object) = R!Idle
      BY <2>1, <2>3, NoEntry DEF DeallocPCs
    <3> QED
      BY <1>0, <2>1, <3>1, <3>3, <3>4, StutterStep
  <2> QED
    BY <1>0, <2>1, <2>2, <2>3 DEF PhaseInv, TypeOK, StructPCs
<1> QED
  BY <1>1, <1>2, <1>3, <1>4, <1>5, <1>6, <1>7, <1>8, <1>9, <1>10, <1>11 DEF AssociationStep

\* Steps of client code, and the deallocation.
LEMMA ClientSteps ==
  ASSUME IndInv, IndInv', NEW t \in Threads, Client(t), UNCHANGED <<assocVars, accessorVars>>
  PROVE  [R!Next]_(R!regVars)
<1>0. TypeOK /\ LocalsInv /\ PhaseInv /\ th \in [Threads -> Call] /\ th[t] \in Call
  BY DEF IndInv, TypeOK
<1>a. UNCHANGED <<refs, slot>>
  BY DEF assocVars, accessorVars
<1>b. Idle.pc = "idle" /\ \A phase : AbstractCall(Idle, phase) = R!Idle
  <2>1. Idle.pc = "idle"
    BY DEF Idle
  <2> QED
    BY <2>1, NoEntry
<1>1. ASSUME UNCHANGED <<th, object>>
      PROVE  [R!Next]_(R!regVars)
  BY <1>1, <1>a, SameValues DEF R!regVars, AbstractCalls
<1>2. ASSUME NEW v \in Values, NewValue(t, v) \/ DropValue(t, v)
      PROVE  [R!Next]_(R!regVars)
  BY <1>1, <1>2 DEF NewValue, DropValue
<1>3. ASSUME Dealloc(t, has_assoc)
      PROVE  [R!Next]_(R!regVars)
  <2> DEFINE x == [Idle EXCEPT !.pc = "cxxDestruct", !.assoc = has_assoc]
  <2>1. /\ object = "alive" /\ object' = "deallocating" /\ th[t].pc = "idle" /\ th' = [th EXCEPT ![t] = x]
        /\ \A u \in Threads : th[u].pc = "idle" \/ th[u].src # nil
    BY <1>3 DEF Dealloc, Calls, Goto
  <2>2. \A u \in Threads : th[u].pc \in {"idle"} \cup StructPCs
    BY <1>0, <2>1 DEF LocalsInv
  <2>3. \A u \in Threads : \A phase : AbstractCall(th[u], phase) = R!Idle
    BY <2>2, NoEntry
  <2>4. x.pc = "cxxDestruct"
    BY DEF Idle
  <2> HIDE DEF x
  <2>5. \A u \in Threads : AbstractCall(th'[u], object') = R!Idle
    <3>1. AbstractCall(x, object') = R!Idle
      BY <2>4, NoEntry
    <3> QED
      BY <1>0, <2>1, <2>3, <3>1
  <2>6. AbstractCalls' = AbstractCalls /\ \A u \in Threads : AbstractCalls[u] = R!Idle
    BY <2>3, <2>5 DEF AbstractCalls
  <2>7. R!Die
    BY <1>a, <2>1, <2>6, SameValues DEF R!Die
  <2> QED
    BY <2>7 DEF R!Next
<1>4. ASSUME Free(t)
      PROVE  [R!Next]_(R!regVars)
  <2>1. th[t].pc = "free" /\ object' = "free" /\ th' = [th EXCEPT ![t] = Idle]
    BY <1>4 DEF Free, Return, Goto
  <2>2. object = "deallocating"
    BY <1>0, <2>1 DEF PhaseInv
  <2>3. \A u \in Threads : th[u].pc \in {"idle"} \cup StructPCs \cup DeallocPCs
    BY <1>0, <2>2 DEF PhaseInv
  <2>4. \A u \in Threads : AbstractCall(th[u], object) = R!Idle /\ AbstractCall(th[u], object') = R!Idle
    BY <2>1, <2>2, <2>3, NoEntry
  <2>5. AbstractCalls' = AbstractCalls
    BY <1>0, <1>b, <2>1, <2>4 DEF AbstractCalls
  <2> QED
    BY <1>a, <2>1, <2>2, <2>5, SameValues DEF R!regVars
<1>5. ASSUME ReleaseOld(t) \/ Returns(t)
      PROVE  [R!Next]_(R!regVars)
  <2>1. /\ th' = [th EXCEPT ![t] = Idle] /\ UNCHANGED <<object, refs, slot>>
        /\ th[t].pc \in {"release", "return", "sameValue", "nothingToRemove"}
    BY <1>5, <1>a DEF ReleaseOld, Returns, Return, Goto
  <2>2. object = "alive"
    BY <1>0, <2>1 DEF PhaseInv, TypeOK, StructPCs, DeallocPCs
  <2>3. AbstractCall(th[t], object).done
    BY <2>1, <2>2, SetDoneEntry, GetDoneEntry, ClearDoneEntry DEF SetDonePCs, GetDonePCs, ClearDonePCs
  <2> QED
    BY <1>0, <1>b, <2>1, <2>3, EndStep
<1> QED
  BY <1>2, <1>3, <1>4, <1>5 DEF Client

LEMMA CxxDestructSteps ==
  ASSUME IndInv, IndInv', NEW t \in Threads, cxxDestruct(t), UNCHANGED assocVars
  PROVE  [R!Next]_(R!regVars)
<1>0. TypeOK /\ PhaseInv /\ th \in [Threads -> Call] /\ th[t] \in Call
  BY DEF IndInv, TypeOK
<1>1. th[t].pc = "cxxDestruct" /\ object = "deallocating" /\ UNCHANGED <<object, refs>>
  BY <1>0 DEF cxxDestruct, assocVars, PhaseInv
<1>2. ASSUME NEW s \in Slots, slot' = [slot EXCEPT ![s] = nil], UNCHANGED th
      PROVE  [R!Next]_(R!regVars)
  <2>1. \A p \in Slots : slot'[p] = nil \/ slot'[p] = slot[p]
    BY <1>0, <1>2 DEF TypeOK
  <2>2. \A p \in Slots : Item(p, Property(nil)) = nil
    BY DEF Item, Property
  <2>3. \A c \in Keys \cup Slots : AbstractValues'[c] \in {AbstractValues[c], nil}
    BY <1>1, <2>1, <2>2 DEF AbstractValues
  <2>4. R!Empty
    BY <1>1, <1>2, <2>3 DEF R!Empty, AbstractCalls
  <2> QED
    BY <2>4 DEF R!Next
<1>3. ASSUME UNCHANGED slot, NEW p \in {"remove", "free"}, th' = [th EXCEPT ![t] = [th[t] EXCEPT !.pc = p]]
      PROVE  [R!Next]_(R!regVars)
  <2> DEFINE x == [th[t] EXCEPT !.pc = p]
  <2>1. x.pc \in DeallocPCs /\ th[t].pc \in DeallocPCs
    BY <1>0, <1>1 DEF Call, DeallocPCs
  <2>2. th' = [th EXCEPT ![t] = x]
    BY <1>3
  <2> HIDE DEF x
  <2>3. AbstractCall(x, object) = R!Idle /\ AbstractCall(th[t], object) = R!Idle
    BY <1>1, <2>1, NoEntry
  <2> QED
    BY <1>0, <1>1, <1>3, <2>2, <2>3, StutterStep
<1> QED
  BY <1>2, <1>3 DEF cxxDestruct, Goto

LEMMA NewObjectStep ==
  ASSUME IndInv, NewObject
  PROVE  [R!Next]_(R!regVars)
<1>0. TypeOK /\ PhaseInv /\ EmptyInv
  BY DEF IndInv
<1>1. object = "free" /\ object' = "alive" /\ UNCHANGED <<th, slot, refs>>
  BY DEF NewObject, accessorVars
<1>2. \A u \in Threads : th[u].pc \in {"idle"} \cup StructPCs
  BY <1>0, <1>1 DEF PhaseInv
<1>3. \A u \in Threads : \A phase : AbstractCall(th[u], phase) = R!Idle
  BY <1>2, NoEntry
<1>4. AbstractCalls' = AbstractCalls
  BY <1>1, <1>3 DEF AbstractCalls
<1>5. NoAssociations /\ NoProperties
  BY <1>0, <1>1 DEF EmptyInv
<1>6. \A c \in Keys \cup Slots : AbstractValues[c] = nil
  BY <1>5 DEF AbstractValues, NoAssociations, NoProperties, Item, No, Property
<1>7. R!Born
  BY <1>1, <1>4, <1>6, SameValues DEF R!Born
<1> QED
  BY <1>7 DEF R!Next

LEMMA InitStep == Init => R!Init
<1> SUFFICES ASSUME Init
             PROVE  R!Init
  OBVIOUS
<1>1. AbstractValues = [c \in Keys \cup Slots |-> nil]
  BY DEF Init, InitAssociations, InitAccessors, AbstractValues, Item, No, Property
<1>2. AbstractCall(Idle, "alive") = R!Idle
  <2>1. Idle.pc = "idle"
    BY DEF Idle
  <2> QED
    BY <2>1, NoEntry
<1>3. AbstractCalls = [u \in Threads |-> R!Idle]
  BY <1>2 DEF Init, InitValues, AbstractCalls
<1> QED
  BY <1>1, <1>3 DEF R!Init, Init, InitValues

\* Associated objects and properties are registers: retaining and releasing outside of
\* the locks, the comparison before the lock and the flag set after it are not seen by
\* any caller, for every number of threads, keys and properties.
THEOREM StorageRefinement == Spec => ImplementsRegisters
<1>1. IndInv /\ IndInv' /\ [Next]_vars => [R!Next]_(R!regVars)
  <2> SUFFICES ASSUME IndInv, IndInv', [Next]_vars
               PROVE  [R!Next]_(R!regVars)
    OBVIOUS
  <2>1. CASE UNCHANGED vars
    <3>1. UNCHANGED <<th, object, refs, slot>>
      BY <2>1 DEF vars, valueVars, assocVars, accessorVars
    <3> QED
      BY <3>1, SameValues DEF R!regVars, AbstractCalls
  <2> QED
    BY <2>1, NewObjectStep, ClientSteps, AssociationSteps, AccessorSteps, CxxDestructSteps DEF Next
<1> QED
  BY <1>1, InitStep, StorageInvariance, PTL DEF Spec, ImplementsRegisters, R!Spec
=============================================================================
