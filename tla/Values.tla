------------------------------- MODULE Values -------------------------------
(***************************************************************************)
(* What associated objects and properties have in common: one object that  *)
(* threads use, and the values kept in it, which are objects with retain   *)
(* counts of their own.  Client code owns references, among them those     *)
(* that its autorelease pools will release; a thread inside of the runtime *)
(* owns those of its local variables.  Retain and release are single steps *)
(* here: RefCount shows that they may be.                                  *)
(***************************************************************************)
EXTENDS Integers, FiniteSets, FiniteSetsExt

CONSTANTS
  Threads, Values, nil,
  MaxHeld      \* bound on the references to a value that the client of a thread owns

VARIABLES
  count,       \* the retain count of each value; 0 when it is free
  held,        \* the references that the client code of each thread owns
  th,          \* the call that each thread is in
  object       \* "alive", "deallocating" or "free"

ASSUME ValuesAssumption ==
  IsFiniteSet(Threads) /\ nil \notin Values /\ MaxHeld \in Nat \ {0}

valueVars == <<count, held, th, object>>

\* An ObjcAssociation, also used for what a property setter stores or takes out.
No == [value |-> nil, policy |-> "assign"]
Setter(a) == a.value # nil /\ a.policy # "assign"

Idle == [pc |-> "idle", cell |-> nil, a |-> No, old |-> nil, assoc |-> FALSE, refs |-> {}, src |-> nil]

InitValues ==
  /\ count = [v \in Values |-> 0] /\ held = [t \in Threads |-> [v \in Values |-> 0]]
  /\ th = [t \in Threads |-> Idle] /\ object = "alive"

Retained(v) == IF v = nil THEN count ELSE [count EXCEPT ![v] = @ + 1]
Released(v) == IF v = nil THEN count ELSE [count EXCEPT ![v] = @ - 1]
Goto(t, changed) == th' = [th EXCEPT ![t] = changed]
Return(t) == Goto(t, Idle)

\* A getter's caller owns what it got once the autorelease pool has it.
Autoreleased(t, v) == IF v = nil THEN held ELSE [held EXCEPT ![t][v] = @ + 1]
Room(t) == \A v \in Values : held[t][v] < MaxHeld

\* What client code may pass: a value it owns, or nil.
Arguments(t) == {v \in Values : held[t][v] > 0} \cup {nil}

\* copy answers the value itself, retained, a new object, or nil.
Copies(v) == IF v = nil THEN {nil} ELSE {v, nil} \cup {u \in Values : count[u] = 0}

Calls(t) == th[t].pc = "idle" /\ object = "alive"

NewValue(t, v) ==
  /\ th[t].pc = "idle" /\ count[v] = 0
  /\ count' = [count EXCEPT ![v] = 1] /\ held' = [held EXCEPT ![t][v] = 1]
  /\ UNCHANGED <<th, object>>

DropValue(t, v) ==
  /\ th[t].pc = "idle" /\ held[t][v] > 0
  /\ count' = Released(v) /\ held' = [held EXCEPT ![t][v] = @ - 1]
  /\ UNCHANGED <<th, object>>

\* The last reference to the object is dropped: no other thread is in a call on it.
\* objc_destructInstance reads its flags before anything else.
Dealloc(t, has_assoc) ==
  /\ Calls(t) /\ \A u \in Threads : th[u].pc = "idle" \/ th[u].src # nil
  /\ object' = "deallocating"
  /\ Goto(t, [Idle EXCEPT !.pc = "cxxDestruct", !.assoc = has_assoc])
  /\ UNCHANGED <<count, held>>

Free(t) ==
  /\ th[t].pc = "free"
  /\ object' = "free" /\ Return(t)
  /\ UNCHANGED <<count, held>>

\* A setter's last step: the value it took out is released outside of the lock.
ReleaseOld(t) ==
  /\ th[t].pc = "release"
  /\ count' = IF Setter(th[t].a) THEN Released(th[t].a.value) ELSE count
  /\ Return(t)
  /\ UNCHANGED <<held, object>>

\* A getter that does not retain, a setter of the value that is there already, and a
\* removal that finds nothing.
Returns(t) ==
  /\ th[t].pc \in {"return", "sameValue", "nothingToRemove"}
  /\ Return(t) /\ UNCHANGED <<count, held, object>>
=============================================================================
