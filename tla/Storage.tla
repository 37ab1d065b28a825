------------------------------ MODULE Storage -------------------------------
(***************************************************************************)
(* Associated objects and properties of the same object, which share its   *)
(* life and the values they keep.  Threads get and set both, and one of    *)
(* them drops the object when no other uses it; a new object may get the   *)
(* same address.                                                           *)
(***************************************************************************)
EXTENDS Associations, Accessors

\* An association is not found under the name of a property or of a struct.
ASSUME StorageAssumption == Keys \cap (Slots \cup Structs) = {}

vars == <<valueVars, assocVars, accessorVars>>

Init == InitValues /\ InitAssociations /\ InitAccessors

\* The memory of a new object is zero.
NewObject ==
  /\ object = "free" /\ object' = "alive"
  /\ has_assoc' = FALSE
  /\ UNCHANGED <<count, held, th, accessorVars, refs>>

Client(t) ==
  \/ \E v \in Values : NewValue(t, v) \/ DropValue(t, v)
  \/ Dealloc(t, has_assoc) \/ Free(t) \/ ReleaseOld(t) \/ Returns(t)

Next ==
  \/ NewObject
  \/ \E t \in Threads :
       \/ Client(t) /\ UNCHANGED <<assocVars, accessorVars>>
       \/ AssociationStep(t) /\ UNCHANGED accessorVars
       \/ (AccessorStep(t) \/ cxxDestruct(t)) /\ UNCHANGED assocVars

Spec == Init /\ [][Next]_vars

(***************************************************************************)
(* Properties.                                                             *)
(***************************************************************************)
Owns(a, v) == Setter(a) /\ a.value = v

\* Who owns references to a value: client code, setters on their way, removals that
\* have taken associations out, associations, and properties.
ClientRefs(v) == {o \in Threads \X (1..MaxHeld) : o[2] <= held[o[1]][v]}
SetterRefs(v) ==
  {t \in Threads : th[t].pc \in {"set", "setHasAssociatedObjects", "release", "swap", "store"} /\ Owns(th[t].a, v)}
RemovedRefs(v) == {o \in Threads \X Keys : \E r \in th[o[1]].refs : r.key = o[2] /\ Owns(r.a, v)}
AssociationRefs(v) == {k \in Keys : Owns(refs[k], v)}
PropertyRefs(v) == {s \in Slots : slot[s] = v}

\* The retain count of every value is exactly the number of its owners, so nothing is
\* released twice or leaked, also when two setters meet; and what a getter retains for
\* its caller is owned by someone at that moment, so it is never freed memory.
CountsOwners ==
  /\ \A v \in Values :
       count[v] = Cardinality(ClientRefs(v)) + Cardinality(SetterRefs(v)) + Cardinality(RemovedRefs(v))
                  + Cardinality(AssociationRefs(v)) + Cardinality(PropertyRefs(v))
  /\ \A t \in Threads :
       th[t].pc \in {"retainReturned", "retainProperty"} /\ th[t].a.value # nil => count[th[t].a.value] > 0

\* A property or a struct that is atomic is never written while another thread is in
\* the middle of reading or writing it.
Writes(t) == IF th[t].pc \in {"store", "memmove"} THEN {th[t].cell} ELSE {}
Reads(t) == Writes(t) \cup (IF th[t].pc = "retainProperty" THEN {th[t].cell} ELSE {})
                      \cup (IF th[t].pc = "memmove" THEN {th[t].src} ELSE {})
NoTornAccess == \A t, u \in Threads : t # u => Writes(t) \cap Reads(u) = {}

Item(c, a) == IF a.value = nil THEN nil ELSE [value |-> a.value, kept |-> c \in Slots \/ SystemObject(a)]

AbstractItems == [value : Values, kept : BOOLEAN]

AbstractCall(me, phase) ==
  LET entry(kind, cell, item, done) == [kind |-> kind, cell |-> cell, item |-> item, done |-> done]
  IN CASE me.pc \in {"set", "compare", "swap", "store"} -> entry("set", me.cell, Item(me.cell, me.a), FALSE)
       [] me.pc \in {"setHasAssociatedObjects", "release", "sameValue"} -> entry("set", nil, nil, TRUE)
       [] me.pc \in {"get", "getProperty"} -> entry("get", me.cell, nil, FALSE)
       [] me.pc \in {"retainReturned", "retainProperty", "return"} -> entry("get", me.cell, Item(me.cell, me.a), TRUE)
       [] me.pc \in {"hasAssociatedObjects", "remove"} /\ phase = "alive" -> entry("clear", nil, nil, FALSE)
       [] me.pc \in {"nothingToRemove", "releaseRefs"} /\ phase = "alive" -> entry("clear", nil, nil, TRUE)
       [] OTHER -> entry("none", nil, nil, FALSE)

AbstractCalls == [t \in Threads |-> AbstractCall(th[t], object)]
AbstractValues == [c \in Keys \cup Slots |-> Item(c, IF c \in Keys THEN refs[c] ELSE Property(slot[c]))]

R == INSTANCE Registers WITH
  Cells <- Keys \cup Slots, empty <- nil,
  Items <- AbstractItems, Kept <- {i \in AbstractItems : i.kept},
  val <- AbstractValues, call <- AbstractCalls, alive <- object = "alive"

\* Associated objects and properties are registers: every call of the threads that get,
\* set and remove them takes effect at one moment, although retains, releases, the
\* comparison of the setter and the flag of the object are outside of the locks; and a
\* new object at the address of an old one has none of its associations.
ImplementsRegisters == R!Spec
=============================================================================
