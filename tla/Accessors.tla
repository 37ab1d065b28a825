----------------------------- MODULE Accessors ------------------------------
(***************************************************************************)
(* Property accessors (objc-accessors.mm): retained and copied properties  *)
(* of one object under the striped PropertyLocks, and objc_copyStruct, the *)
(* getter and the setter of atomic structs, under two of the StructLocks.  *)
(* objc_copyCppObjectAtomic does the same with locks of its own.           *)
(***************************************************************************)
EXTENDS Values

CONSTANTS
  Slots,           \* the properties
  Structs,         \* atomic structs, and buffers of the callers
  StructCopies,    \* the pairs <<src, dest>> that are copied
  StripeOf         \* the lock of each slot and struct: a number, its address

VARIABLES
  slot,
  atomic           \* the properties declared atomic

accessorVars == <<slot, atomic>>

ASSUME AccessorsAssumption ==
  /\ IsFiniteSet(Slots) /\ nil \notin Slots \cup Structs /\ Slots \cap Structs = {}
  /\ StructCopies \subseteq Structs \X Structs
  /\ \A s \in Slots \cup Structs : StripeOf[s] \in Nat

InitAccessors == slot = [s \in Slots |-> nil] /\ atomic \in SUBSET Slots

Inside == {"retainProperty", "store"}
PropertyUnlocked(s) ==
  \A t \in Threads : th[t].pc \in Inside /\ th[t].cell \in atomic => StripeOf[th[t].cell] # StripeOf[s]
\* A property that is not atomic is used by one thread at a time.
Usable(s) == s \in atomic \/ \A t \in Threads : th[t].cell # s

Property(v) == [value |-> v, policy |-> "retain"]

(* objc_getProperty *)
GetProperty(t, s) ==
  /\ Calls(t) /\ Room(t) /\ Usable(s)
  /\ Goto(t, [Idle EXCEPT !.pc = "getProperty", !.cell = s])
  /\ UNCHANGED <<count, held, object, accessorVars>>

ReadProperty(t) ==
  LET s == th[t].cell
  IN /\ th[t].pc = "getProperty" /\ (s \in atomic => PropertyUnlocked(s))
     /\ Goto(t, [th[t] EXCEPT !.a = Property(slot[s]), !.pc = IF s \in atomic THEN "retainProperty" ELSE "return"])
     /\ UNCHANGED <<count, held, object, accessorVars>>

RetainProperty(t) ==
  /\ th[t].pc = "retainProperty"
  /\ count' = Retained(th[t].a.value) /\ held' = Autoreleased(t, th[t].a.value)
  /\ Return(t)
  /\ UNCHANGED <<object, accessorVars>>

(* reallySetProperty *)
SetProperty(t, s) ==
  /\ Calls(t) /\ Usable(s)
  /\ \E v \in Arguments(t) :
       \/ /\ Goto(t, [Idle EXCEPT !.pc = "compare", !.cell = s, !.a = Property(v)])
          /\ UNCHANGED count
       \/ \E c \in Copies(v) :
            /\ Goto(t, [Idle EXCEPT !.pc = "swap", !.cell = s, !.a = Property(c)])
            /\ count' = Retained(c)
  /\ UNCHANGED <<held, object, accessorVars>>

\* Without the lock, atomic or not.
Compare(t) ==
  LET me == th[t]
  IN /\ me.pc = "compare"
     /\ IF slot[me.cell] = me.a.value
        THEN Goto(t, [me EXCEPT !.pc = "sameValue"]) /\ UNCHANGED count
        ELSE Goto(t, [me EXCEPT !.pc = "swap"]) /\ count' = Retained(me.a.value)
     /\ UNCHANGED <<held, object, accessorVars>>

\* Mutant: the setter does not take the lock.
MutReadOld(t) ==
  LET me == th[t]
  IN /\ me.pc = "swap"
     /\ Goto(t, [me EXCEPT !.pc = "store", !.old = slot[me.cell]])
     /\ UNCHANGED <<count, held, object, accessorVars>>

ReadOld(t) ==
  LET me == th[t]
  IN /\ me.pc = "swap" /\ (me.cell \in atomic => PropertyUnlocked(me.cell))
     /\ Goto(t, [me EXCEPT !.pc = "store", !.old = slot[me.cell]])
     /\ UNCHANGED <<count, held, object, accessorVars>>

Store(t) ==
  LET me == th[t]
  IN /\ me.pc = "store"
     /\ slot' = [slot EXCEPT ![me.cell] = me.a.value]
     /\ Goto(t, [me EXCEPT !.pc = "release", !.a = Property(me.old), !.old = nil])
     /\ UNCHANGED <<count, held, object, atomic>>

\* .cxx_destruct: objc_storeStrong(&slot, nil) for each property that has a value.
cxxDestruct(t) ==
  LET full == {s \in Slots : slot[s] # nil}
  IN /\ th[t].pc = "cxxDestruct"
     /\ \/ \E s \in full :
             slot' = [slot EXCEPT ![s] = nil] /\ count' = Released(slot[s]) /\ UNCHANGED th
        \/ /\ full = {} /\ UNCHANGED <<slot, count>>
           /\ Goto(t, [th[t] EXCEPT !.pc = IF th[t].assoc THEN "remove" ELSE "free"])
     /\ UNCHANGED <<held, object, atomic>>

(* objc_copyStruct *)
Stripes(t) == {StripeOf[th[t].src], StripeOf[th[t].cell]}
StructHeld(t) ==
  CASE th[t].pc = "lockSecond" -> {Min(Stripes(t))}
    [] th[t].pc = "memmove" -> Stripes(t)
    [] OTHER -> {}
StructUnlocked(l) == \A t \in Threads : l \notin StructHeld(t)

copyStruct(t, src, dest) ==
  /\ th[t].pc = "idle"
  /\ Goto(t, [Idle EXCEPT !.pc = "lockTwo", !.src = src, !.cell = dest])
  /\ UNCHANGED <<count, held, object, accessorVars>>

\* Mutant: only the destination is locked.
MutlockTwo(t) ==
  /\ th[t].pc = "lockTwo" /\ StructUnlocked(StripeOf[th[t].cell])
  /\ Goto(t, [th[t] EXCEPT !.pc = "memmove"])
  /\ UNCHANGED <<count, held, object, accessorVars>>

lockTwo(t) ==
  /\ \/ /\ th[t].pc = "lockTwo" /\ StructUnlocked(Min(Stripes(t)))
        /\ Goto(t, [th[t] EXCEPT !.pc = IF Cardinality(Stripes(t)) = 1 THEN "memmove" ELSE "lockSecond"])
     \/ /\ th[t].pc = "lockSecond" /\ StructUnlocked(Max(Stripes(t)))
        /\ Goto(t, [th[t] EXCEPT !.pc = "memmove"])
  /\ UNCHANGED <<count, held, object, accessorVars>>

unlockTwo(t) == th[t].pc = "memmove" /\ Return(t) /\ UNCHANGED <<count, held, object, accessorVars>>

AccessorStep(t) ==
  \/ \E s \in Slots : GetProperty(t, s) \/ SetProperty(t, s)
  \/ ReadProperty(t) \/ RetainProperty(t) \/ Compare(t) \/ ReadOld(t) \/ Store(t)
  \/ \E c \in StructCopies : copyStruct(t, c[1], c[2])
  \/ lockTwo(t) \/ unlockTwo(t)
=============================================================================
