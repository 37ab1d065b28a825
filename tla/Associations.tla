---------------------------- MODULE Associations ----------------------------
(***************************************************************************)
(* The associated objects of one object (objc-references.mm): a table      *)
(* under AssociationsManagerLock, while values are retained before the     *)
(* lock is taken and released after it is let go, and the flag has_assoc   *)
(* of the object is set after it too.                                      *)
(***************************************************************************)
EXTENDS Values

CONSTANTS
  Keys,
  Policies     \* the policies each key is used with

VARIABLES
  refs,        \* the ObjectAssociationMap of the object: No where a key is absent
  has_assoc

assocVars == <<refs, has_assoc>>

ASSUME AssociationsAssumption ==
  /\ IsFiniteSet(Keys) /\ nil \notin Keys
  /\ \A k \in Keys : Policies[k] \subseteq {"assign", "retain_nonatomic", "copy_nonatomic", "retain", "copy", "system"}

InitAssociations == refs = [k \in Keys |-> No] /\ has_assoc = FALSE

GetterRetain(a) == a.value # nil /\ a.policy \notin {"assign", "retain_nonatomic", "copy_nonatomic"}
Copying(policy) == policy \in {"copy", "copy_nonatomic"}
SystemObject(a) == a.policy = "system"
ManagerUnlocked == \A t \in Threads : th[t].pc # "retainReturned"

(* _object_set_associative_reference: to set nil erases the association, but a copy *)
(* that answers nil is an association with nil.                                     *)
SetAssociation(t, k, policy) ==
  /\ Calls(t)
  /\ \E v \in Arguments(t) : \E c \in IF Copying(policy) THEN Copies(v) ELSE {v} :
       LET a == IF v = nil THEN No ELSE [value |-> c, policy |-> policy]
       IN /\ count' = IF Setter(a) THEN Retained(c) ELSE count
          /\ Goto(t, [Idle EXCEPT !.pc = "set", !.cell = k, !.a = a])
  /\ UNCHANGED <<held, object, assocVars>>

SwapAssociation(t) ==
  LET me == th[t]
      first == me.a # No /\ \A k \in Keys : refs[k] = No
  IN /\ me.pc = "set" /\ ManagerUnlocked
     /\ refs' = [refs EXCEPT ![me.cell] = me.a]
     /\ Goto(t, [me EXCEPT !.a = refs[me.cell],
                           !.pc = IF first THEN "setHasAssociatedObjects" ELSE "release"])
     /\ UNCHANGED <<count, held, object, has_assoc>>

SetHasAssociatedObjects(t) ==
  /\ th[t].pc = "setHasAssociatedObjects"
  /\ has_assoc' = TRUE
  /\ Goto(t, [th[t] EXCEPT !.pc = "release"])
  /\ UNCHANGED <<count, held, object, refs>>

(* _object_get_associative_reference *)
GetAssociation(t, k) ==
  /\ Calls(t) /\ Room(t)
  /\ Goto(t, [Idle EXCEPT !.pc = "get", !.cell = k])
  /\ UNCHANGED <<count, held, object, assocVars>>

FindAssociation(t) ==
  LET a == refs[th[t].cell]
  IN /\ th[t].pc = "get" /\ ManagerUnlocked
     /\ Goto(t, [th[t] EXCEPT !.a = a, !.pc = IF GetterRetain(a) THEN "retainReturned" ELSE "return"])
     /\ UNCHANGED <<count, held, object, assocVars>>

RetainReturned(t) ==
  /\ th[t].pc = "retainReturned"
  /\ count' = Retained(th[t].a.value) /\ held' = Autoreleased(t, th[t].a.value)
  /\ Return(t)
  /\ UNCHANGED <<object, assocVars>>

(* objc_removeAssociatedObjects, and _object_remove_assocations *)
RemoveAll(t) ==
  /\ Calls(t)
  /\ Goto(t, [Idle EXCEPT !.pc = "hasAssociatedObjects"])
  /\ UNCHANGED <<count, held, object, assocVars>>

HasAssociatedObjects(t) ==
  /\ th[t].pc = "hasAssociatedObjects"
  /\ Goto(t, [th[t] EXCEPT !.pc = IF has_assoc THEN "remove" ELSE "nothingToRemove"])
  /\ UNCHANGED <<count, held, object, assocVars>>

\* Mutant: associations of the system are removed too.
MutTaken(deallocating) == {k \in Keys : refs[k] # No}

\* Associations of the system survive unless the object is deallocated.
Taken(deallocating) == {k \in Keys : refs[k] # No /\ (deallocating \/ ~SystemObject(refs[k]))}

TakeAssociations(t) ==
  LET taken == Taken(object = "deallocating")
  IN /\ th[t].pc = "remove" /\ ManagerUnlocked
     /\ refs' = [k \in Keys |-> IF k \in taken THEN No ELSE refs[k]]
     /\ Goto(t, [th[t] EXCEPT !.pc = "releaseRefs", !.refs = {[key |-> k, a |-> refs[k]] : k \in taken}])
     /\ UNCHANGED <<count, held, object, has_assoc>>

\* Outside of the lock, in any order, those of the system last.
ReleaseRef(t) ==
  /\ th[t].pc = "releaseRefs"
  /\ \E r \in th[t].refs :
       /\ SystemObject(r.a) => \A s \in th[t].refs : SystemObject(s.a)
       /\ count' = IF Setter(r.a) THEN Released(r.a.value) ELSE count
       /\ Goto(t, [th[t] EXCEPT !.refs = @ \ {r}])
  /\ UNCHANGED <<held, object, assocVars>>

RefsReleased(t) ==
  /\ th[t].pc = "releaseRefs" /\ th[t].refs = {}
  /\ IF object = "deallocating" THEN Goto(t, [th[t] EXCEPT !.pc = "free"]) ELSE Return(t)
  /\ UNCHANGED <<count, held, object, assocVars>>

AssociationStep(t) ==
  \/ \E k \in Keys : GetAssociation(t, k) \/ \E policy \in Policies[k] : SetAssociation(t, k, policy)
  \/ SwapAssociation(t) \/ SetHasAssociatedObjects(t)
  \/ FindAssociation(t) \/ RetainReturned(t)
  \/ RemoveAll(t) \/ HasAssociatedObjects(t) \/ TakeAssociations(t) \/ ReleaseRef(t) \/ RefsReleased(t)
=============================================================================
