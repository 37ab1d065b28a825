------------------------------ MODULE WeakRefs ------------------------------
(***************************************************************************)
(* __weak variables: objc_storeWeak, objc_initWeak, objc_destroyWeak,      *)
(* objc_loadWeakRetained, objc_copyWeak and objc_moveWeak of NSObject.mm   *)
(* over the striped side tables, against the dealloc of the objects that   *)
(* the variables hold.  A step is one read of a variable without a lock,   *)
(* the taking of one lock, or a critical section.  The weak table is the   *)
(* set of (object, variable) pairs it stores.                              *)
(***************************************************************************)
EXTENDS Integers, Sequences, FiniteSets, FiniteSetsExt

CONSTANTS
  Threads, Objects, Locations,
  Nil,            \* the nil object, and no thread
  Stripe,         \* the side table an object's address (or nil) hashes to
  Uninitialized,  \* objects whose class has not run +initialize at first
  CustomRR,       \* objects whose class overrides retain, release or weak methods
  MaxOwned        \* references one thread owns at most

ASSUME ConstantsOK ==
  /\ IsFiniteSet(Threads) /\ IsFiniteSet(Objects)
  /\ Nil \notin Threads \cup Objects \cup Locations
  /\ Stripe \in [Objects \cup {Nil} -> Nat]
  /\ Uninitialized \subseteq Objects /\ CustomRR \subseteq Objects
  /\ MaxOwned \in Nat \ {0}

VARIABLES
  phase,      \* of each object: "free", "live" or "dealloc"
  owned,      \* strong references each thread owns
  disposing,  \* per thread: the objects whose -dealloc it is in, innermost first
  inited,     \* of each object's class: "no", "done" or the thread in +initialize
  marked,     \* objects with the weakly_referenced bit
  value,      \* what each weak variable holds
  status,     \* of each variable: "raw" storage or "weak"
  table,      \* the weak tables: pairs <<object, variable>>
  lock,       \* owner of each stripe's lock
  op,         \* the call each thread is in
  halted      \* _objc_fatal stopped the process

vars == <<phase, owned, disposing, inited, marked, value, status, table, lock, op, halted>>
heap == <<phase, owned, disposing>>
weak == <<marked, value, status, table>>

Stripes == {Stripe[o] : o \in Objects \cup {Nil}}
Pcs == {"idle", "read", "lock", "locked", "initialize", "release", "free"}
Stores == {"store", "init", "copied"}
Kinds == Stores \cup {"none", "destroy", "load", "copy", "move", "clear"}
Idle == [pc |-> "idle", kind |-> "none", loc |-> Nil, dst |-> Nil, obj |-> Nil,
         new |-> Nil, prev |-> FALSE]

TypeOK ==
  /\ phase \in [Objects -> {"free", "live", "dealloc"}]
  /\ owned \in [Threads -> [Objects -> 0..MaxOwned]]
  /\ inited \in [Objects -> {"no", "done"} \cup Threads]
  /\ marked \subseteq Objects
  /\ value \in [Locations -> Objects \cup {Nil}]
  /\ status \in [Locations -> {"raw", "weak"}]
  /\ table \subseteq Objects \X Locations
  /\ lock \in [Stripes -> Threads \cup {Nil}]
  /\ op \in [Threads -> [pc : Pcs, kind : Kinds, loc : Locations \cup {Nil},
       dst : Locations \cup {Nil}, obj : Objects \cup {Nil},
       new : Objects \cup {Nil}, prev : BOOLEAN]]

Init ==
  /\ phase = [o \in Objects |-> "free"]
  /\ owned = [t \in Threads |-> [o \in Objects |-> 0]]
  /\ disposing = [t \in Threads |-> <<>>]
  /\ inited = [o \in Objects |-> IF o \in Uninitialized THEN "no" ELSE "done"]
  /\ marked = {} /\ table = {}
  /\ value = [l \in Locations |-> Nil] /\ status = [l \in Locations |-> "raw"]
  /\ lock = [s \in Stripes |-> Nil]
  /\ op = [t \in Threads |-> Idle]
  /\ halted = FALSE


At(t, pc) == op[t].pc = pc
Goto(t, pc) == op' = [op EXCEPT ![t] = [op[t] EXCEPT !.pc = pc]]
Return(t) == op' = [op EXCEPT ![t] = Idle]

(***************************************************************************)
(* The calls.  Client code that runs between calls: it creates and         *)
(* releases objects, runs -dealloc and +initialize methods.  Initializing, *)
(* destroying, moving and copying into a variable is not thread-safe, so   *)
(* no other call may be using that variable.                               *)
(***************************************************************************)
InUse(l) == \E t \in Threads : l \in {op[t].loc, op[t].dst}
ExclusiveUse(l) ==
  \E t \in Threads : op[t].dst = l \/ (op[t].loc = l /\ op[t].kind \in {"init", "destroy", "copied", "move"})
MayInit(l) == status[l] = "raw" /\ ~InUse(l)
MayUse(l) == status[l] = "weak" /\ ~ExclusiveUse(l)
MayStore(t, o) == o # Nil => owned[t][o] > 0 \/ \E i \in DOMAIN disposing[t] : disposing[t][i] = o

OwnedBy(t) == {r \in Objects \X (1..MaxOwned) : r[2] <= owned[t][r[1]]}
MayOwn(t) == Cardinality(OwnedBy(t)) < MaxOwned

Call(t, k, l, d, o) ==
  op' = [op EXCEPT ![t] = [Idle EXCEPT !.pc = "read", !.kind = k, !.loc = l, !.dst = d, !.new = o]]

storeWeak(t) ==
  \E l \in Locations, o \in Objects \cup {Nil} :
    MayUse(l) /\ MayStore(t, o) /\ Call(t, "store", l, Nil, o) /\ UNCHANGED weak

\* The nil case stores at once and takes no lock.
initWeak(t) ==
  \E l \in Locations, o \in Objects \cup {Nil} :
    /\ MayInit(l) /\ MayStore(t, o)
    /\ \/ /\ o # Nil /\ Call(t, "init", l, Nil, o)
          /\ UNCHANGED weak
       \/ /\ o = Nil
          /\ value' = [value EXCEPT ![l] = Nil] /\ status' = [status EXCEPT ![l] = "weak"]
          /\ UNCHANGED <<marked, table, op>>

destroyWeak(t) ==
  \E l \in Locations :
    status[l] = "weak" /\ ~InUse(l) /\ Call(t, "destroy", l, Nil, Nil) /\ UNCHANGED weak

loadWeakRetained(t) ==
  \E l \in Locations : MayOwn(t) /\ MayUse(l) /\ Call(t, "load", l, Nil, Nil) /\ UNCHANGED weak

copyWeak(t) ==
  \E d, l \in Locations : MayOwn(t) /\ MayInit(d) /\ MayUse(l) /\ Call(t, "copy", l, d, Nil) /\ UNCHANGED weak

moveWeak(t) ==
  \E d, l \in Locations :
    MayInit(d) /\ status[l] = "weak" /\ ~InUse(l) /\ Call(t, "move", l, d, Nil) /\ UNCHANGED weak

BeginCall(t) ==
  /\ At(t, "idle")
  /\ storeWeak(t) \/ initWeak(t) \/ destroyWeak(t) \/ loadWeakRetained(t) \/ copyWeak(t) \/ moveWeak(t)
  /\ UNCHANGED <<heap, inited, lock, halted>>

(***************************************************************************)
(* Reading the variable without a lock and locking the stripes of what was *)
(* read, the lower address first.                                          *)
(***************************************************************************)
HaveOld(t) == op[t].kind \in {"store", "destroy"}
HaveNew(t) == op[t].kind \in Stores
Loads(t) == op[t].kind \in {"load", "copy"}

ReadOld(t) ==
  /\ At(t, "read") /\ (HaveOld(t) \/ HaveNew(t))
  /\ op' = [op EXCEPT ![t] = [op[t] EXCEPT !.obj = IF HaveOld(t) THEN value[op[t].loc] ELSE Nil, !.pc = "lock"]]
  /\ UNCHANGED <<heap, inited, weak, lock, halted>>

Tables(t) ==
  IF HaveOld(t) \/ HaveNew(t)
  THEN {Stripe[o] : o \in (IF HaveOld(t) THEN {op[t].obj} ELSE {}) \cup (IF HaveNew(t) THEN {op[t].new} ELSE {})}
  ELSE {Stripe[op[t].obj]}

\* Mutant: the old value's stripe first, whatever the addresses.
MutlockTwo(t) ==
  LET s == IF HaveOld(t) /\ lock[Stripe[op[t].obj]] # t THEN Stripe[op[t].obj] ELSE Stripe[op[t].new]
  IN /\ At(t, "lock") /\ lock[s] = Nil
     /\ lock' = [lock EXCEPT ![s] = t]
     /\ IF {r \in Tables(t) : lock[r] # t} = {s} THEN Goto(t, "locked") ELSE UNCHANGED op
     /\ UNCHANGED <<heap, inited, weak, halted>>

lockTwo(t) ==
  LET missing == {s \in Tables(t) : lock[s] # t}
      s == Min(missing)
  IN /\ At(t, "lock") /\ lock[s] = Nil
     /\ lock' = [lock EXCEPT ![s] = t]
     /\ IF missing = {s} THEN Goto(t, "locked") ELSE UNCHANGED op
     /\ UNCHANGED <<heap, inited, weak, halted>>

unlockTwo(t) == lock' = [s \in Stripes |-> IF lock[s] = t THEN Nil ELSE lock[s]]

\* The variable changed before the lock was taken: start over.
Retry(t) ==
  /\ At(t, "locked") /\ op[t].kind # "clear"
  /\ ~(HaveNew(t) /\ ~HaveOld(t)) /\ value[op[t].loc] # op[t].obj
  /\ unlockTwo(t) /\ Goto(t, "read")
  /\ UNCHANGED <<heap, inited, weak, halted>>

\* Mutant: the variable is not looked at again under the lock.
MutUnchanged(t) == TRUE

Unchanged(t) == HaveOld(t) \/ Loads(t) \/ op[t].kind = "move" => value[op[t].loc] = op[t].obj

(***************************************************************************)
(* Before +initialize has run, and no other time, a class that does not    *)
(* override it has custom RR; it is run without the lock.                  *)
(***************************************************************************)
hasCustomRR(o) == o \in CustomRR \/ inited[o] # "done"

NeedsInitialize(t) ==
  \/ HaveNew(t) /\ op[t].new # Nil /\ ~op[t].prev /\ inited[op[t].new] # "done"
  \/ Loads(t) /\ inited[op[t].obj] \notin {"done", t}

UnlockToInitialize(t) ==
  /\ At(t, "locked") /\ Unchanged(t) /\ NeedsInitialize(t)
  /\ unlockTwo(t) /\ Goto(t, "initialize")
  /\ UNCHANGED <<heap, inited, weak, halted>>

\* Returns at once to a thread that is inside the class's +initialize; waits for
\* another thread that is.
class_initialize(t) ==
  LET o == IF Loads(t) THEN op[t].obj ELSE op[t].new
  IN /\ At(t, "initialize") /\ inited[o] \in {"no", "done", t}
     /\ inited' = [inited EXCEPT ![o] = IF @ = "no" THEN "done" ELSE @]
     /\ op' = [op EXCEPT ![t] = [op[t] EXCEPT !.pc = "read", !.prev = HaveNew(t)]]
     /\ UNCHANGED <<heap, weak, lock, halted>>

(***************************************************************************)
(* The critical sections.                                                  *)
(***************************************************************************)
\* Mutant: an object that is being deallocated will do.
MutViable(o) == {phase[o] # "free"}

\* What weak_register_no_lock finds: the object may be referred to weakly, or
\* not.  Overrides of allowsWeakReference and retainWeakReference may refuse.
Viable(o) == IF hasCustomRR(o) THEN {phase[o] = "live", FALSE} ELSE {phase[o] = "live"}

\* A copy does not store nil for an object that is being deallocated, but it does for
\* one that does not implement allowsWeakReference.
StoreWeak(t) ==
  LET l == op[t].loc
      old == IF HaveOld(t) THEN table \ {<<op[t].obj, l>>} ELSE table
  IN /\ At(t, "locked") /\ op[t].kind \in Stores /\ Unchanged(t) /\ ~NeedsInitialize(t)
     /\ \E ok \in IF op[t].new = Nil THEN {TRUE} ELSE Viable(op[t].new) :
          LET o == IF ok THEN op[t].new ELSE Nil
          IN /\ ~ok /\ op[t].kind = "copied" => hasCustomRR(op[t].new)
             /\ table' = IF o = Nil THEN old ELSE old \cup {<<o, l>>}
             /\ marked' = marked \cup ({o} \ {Nil})
             /\ value' = [value EXCEPT ![l] = o]
     /\ status' = [status EXCEPT ![l] = "weak"]
     /\ unlockTwo(t)
     /\ IF op[t].kind = "copied" THEN Goto(t, "release") ELSE Return(t)
     /\ UNCHANGED <<heap, inited, halted>>

StoreCrashes(t) ==
  /\ At(t, "locked") /\ op[t].kind \in Stores
  /\ Unchanged(t) /\ ~NeedsInitialize(t)
  /\ op[t].new # Nil /\ FALSE \in Viable(op[t].new)
  /\ halted' = TRUE
  /\ UNCHANGED <<heap, inited, weak, lock, op>>

\* The storage keeps its value.
DestroyWeak(t) ==
  /\ At(t, "locked") /\ op[t].kind = "destroy" /\ Unchanged(t)
  /\ table' = table \ {<<op[t].obj, op[t].loc>>}
  /\ status' = [status EXCEPT ![op[t].loc] = "raw"]
  /\ unlockTwo(t) /\ Return(t)
  /\ UNCHANGED <<heap, inited, marked, value, halted>>

\* objc_copyWeak goes on to initialize its destination with what it loaded.
Loaded(t, o) ==
  IF op[t].kind = "load" THEN Return(t)
  ELSE op' = [op EXCEPT ![t] = [Idle EXCEPT !.pc = "read", !.kind = "copied", !.loc = op[t].dst, !.new = o]]

ReadWeak(t) ==
  /\ At(t, "read") /\ (Loads(t) \/ op[t].kind = "move")
  /\ LET o == value[op[t].loc] IN
     \/ /\ o # Nil
        /\ op' = [op EXCEPT ![t] = [op[t] EXCEPT !.obj = o, !.pc = "lock"]]
        /\ UNCHANGED <<value, status>>
     \/ /\ o = Nil
        /\ IF op[t].kind = "load" THEN UNCHANGED <<value, status>>
           ELSE /\ value' = [value EXCEPT ![op[t].dst] = Nil]
                /\ status' = [status EXCEPT ![op[t].dst] = "weak"]
        /\ Return(t)
  /\ UNCHANGED <<heap, inited, marked, table, lock, halted>>

LoadWeakRetained(t) ==
  LET o == op[t].obj
  IN /\ At(t, "locked") /\ Loads(t) /\ Unchanged(t) /\ ~NeedsInitialize(t)
     /\ \E ok \in Viable(o) :
          IF ok
          THEN /\ owned' = [owned EXCEPT ![t][o] = @ + 1]
               /\ Loaded(t, o) /\ UNCHANGED <<value, status>>
          ELSE /\ UNCHANGED owned
               /\ IF op[t].kind = "load" THEN UNCHANGED <<value, status>>
                  ELSE /\ value' = [value EXCEPT ![op[t].dst] = Nil]
                       /\ status' = [status EXCEPT ![op[t].dst] = "weak"]
               /\ Return(t)
     /\ unlockTwo(t)
     /\ UNCHANGED <<phase, disposing, inited, marked, table, halted>>

MoveWeak(t) ==
  LET o == op[t].obj
      l == op[t].loc
      d == op[t].dst
  IN /\ At(t, "locked") /\ op[t].kind = "move" /\ Unchanged(t)
     /\ table' = (table \ {<<o, l>>}) \cup {<<o, d>>}
     /\ value' = [value EXCEPT ![d] = o, ![l] = Nil]
     /\ status' = [status EXCEPT ![d] = "weak"]
     /\ unlockTwo(t) /\ Return(t)
     /\ UNCHANGED <<heap, inited, marked, halted>>

(***************************************************************************)
(* The objects: creation at a free address, release, dealloc.              *)
(***************************************************************************)
Owners(o) == {r \in Threads \X (1..MaxOwned) : r[2] <= owned[r[1]][o]}
References(o) == Cardinality(Owners(o))

Create(t) ==
  \E o \in Objects :
    /\ At(t, "idle") /\ phase[o] = "free" /\ MayOwn(t)
    /\ phase' = [phase EXCEPT ![o] = "live"]
    /\ owned' = [owned EXCEPT ![t][o] = 1]
    /\ UNCHANGED <<disposing, inited, weak, lock, op, halted>>

\* A call that stores an object keeps the reference until it returns.
Release(t) ==
  \E o \in Objects :
    /\ At(t, "idle") \/ (At(t, "release") /\ o = op[t].new)
    /\ owned[t][o] > 0
    /\ owned' = [owned EXCEPT ![t][o] = @ - 1]
    /\ IF References(o) > 1 THEN UNCHANGED <<phase, disposing>>
       ELSE /\ phase' = [phase EXCEPT ![o] = "dealloc"]
            /\ disposing' = [disposing EXCEPT ![t] = <<o>> \o @]
    /\ Return(t)
    /\ UNCHANGED <<inited, weak, lock, halted>>

\* -dealloc ends in rootDealloc, which asks for the weakly_referenced bit.
rootDealloc(t) ==
  /\ At(t, "idle") /\ disposing[t] # <<>>
  /\ op' = [op EXCEPT ![t] = [Idle EXCEPT !.kind = "clear", !.obj = disposing[t][1],
               !.pc = IF disposing[t][1] \in marked THEN "lock" ELSE "free"]]
  /\ UNCHANGED <<heap, inited, weak, lock, halted>>

weak_clear(t) ==
  LET o == op[t].obj
  IN /\ At(t, "locked") /\ op[t].kind = "clear"
     /\ value' = [l \in Locations |-> IF <<o, l>> \in table /\ value[l] = o THEN Nil ELSE value[l]]
     /\ table' = {p \in table : p[1] # o}
     /\ unlockTwo(t) /\ Goto(t, "free")
     /\ UNCHANGED <<heap, inited, marked, status, halted>>

Free(t) ==
  /\ At(t, "free")
  /\ phase' = [phase EXCEPT ![op[t].obj] = "free"]
  /\ disposing' = [disposing EXCEPT ![t] = SubSeq(@, 2, Len(@))]
  /\ marked' = marked \ {op[t].obj}
  /\ Return(t)
  /\ UNCHANGED <<owned, inited, value, status, table, lock, halted>>

\* +initialize of an object's class on this thread, with the calls it makes.
BeginInitialize(t) ==
  \E o \in Objects :
    /\ At(t, "idle") /\ inited[o] = "no"
    /\ inited' = [inited EXCEPT ![o] = t]
    /\ UNCHANGED <<heap, weak, lock, op, halted>>

EndInitialize(t) ==
  \E o \in Objects :
    /\ At(t, "idle") /\ inited[o] = t
    /\ inited' = [inited EXCEPT ![o] = "done"]
    /\ UNCHANGED <<heap, weak, lock, op, halted>>

Step(t) ==
  \/ BeginCall(t) \/ Create(t) \/ Release(t) \/ rootDealloc(t) \/ BeginInitialize(t) \/ EndInitialize(t)
  \/ ReadOld(t) \/ ReadWeak(t) \/ lockTwo(t) \/ Retry(t)
  \/ UnlockToInitialize(t) \/ class_initialize(t)
  \/ StoreWeak(t) \/ StoreCrashes(t) \/ DestroyWeak(t) \/ LoadWeakRetained(t) \/ MoveWeak(t)
  \/ weak_clear(t) \/ Free(t)

Next == ~halted /\ \E t \in Threads : Step(t)

Spec == Init /\ [][Next]_vars

(***************************************************************************)
(* Properties.                                                             *)
(***************************************************************************)
\* Outside of the critical sections of storeWeak, moveWeak and weak_clear_no_lock the
\* weak tables and the variables agree both ways: a variable that holds an object is
\* registered with it, so that dealloc will zero it, the object's memory is not yet
\* free and its bit tells rootDealloc to look; and nothing is registered that dealloc
\* would wrongly write to: no destroyed, moved-from or overwritten variable.
Registered ==
  /\ TypeOK
  /\ \A o \in Objects, l \in Locations :
       <<o, l>> \in table <=> status[l] = "weak" /\ value[l] = o
  /\ \A p \in table : phase[p[1]] # "free" /\ p[1] \in marked

\* Each object lives as ObjectLifetime says (which RefCount implements): a weak load
\* hands out a reference only to an object that is not being deallocated, no weak
\* variable is formed to one that is, and none holds it when its memory is freed.
Lifetime(o) == INSTANCE ObjectLifetime WITH
  phase <- phase[o], refs <- References(o), weak <- \E l \in Locations : <<o, l>> \in table
EachLifetime ==
  /\ \A o \in Objects : Lifetime(o)!Init
  /\ [][\A o \in Objects : Lifetime(o)!Next \/ UNCHANGED Lifetime(o)!vars]_vars

\* No set of threads waits for each other, for stripes or for another's +initialize to
\* end, unless two of them are in the +initialize methods of two classes that need each
\* other; and a stripe is locked only by a thread on its way through lockTwo and the
\* critical section: so every call that waits gets on.
WaitsFor(t, u) ==
  \/ At(t, "lock") /\ lock[Min({s \in Tables(t) : lock[s] # t})] = u
  \/ At(t, "initialize") /\ inited[IF Loads(t) THEN op[t].obj ELSE op[t].new] = u /\ u # t
Initializers(T) == {t \in T : \E o \in Objects : inited[o] = t}
NobodyWaitsForever ==
  /\ \A T \in (SUBSET Threads) \ {{}} :
       (\A t, u \in Initializers(T) : t = u) => \E t \in T : \A u \in T : ~WaitsFor(t, u)
  /\ \A s \in Stripes : lock[s] # Nil =>
       op[lock[s]].pc \in {"lock", "locked"} /\ s \in Tables(lock[s])
=============================================================================
