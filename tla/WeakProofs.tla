----------------------------- MODULE WeakProofs -----------------------------
(***************************************************************************)
(* Proofs about WeakRefs for every number of threads, objects and weak     *)
(* variables, every striping, and whichever classes override methods or    *)
(* have still to run +initialize.                                          *)
(***************************************************************************)
EXTENDS WeakRefs, FiniteSetTheorems, WellFoundedInduction, SequenceTheorems, TLAPS

----------------------------------------------------------------------------
(* The inductive invariant.                                                *)

Op == [pc : Pcs, kind : Kinds, loc : Locations \cup {Nil}, dst : Locations \cup {Nil},
       obj : Objects \cup {Nil}, new : Objects \cup {Nil}, prev : BOOLEAN]

TypeInv == TypeOK /\ disposing \in [Threads -> Seq(Objects)]

\* The variables and the weak tables agree.
TableInv ==
  /\ \A o \in Objects, l \in Locations : <<o, l>> \in table <=> status[l] = "weak" /\ value[l] = o
  /\ \A o \in Objects, l \in Locations : <<o, l>> \in table => phase[o] # "free" /\ o \in marked

\* A live object is owned, and no other is.
OwnInv == \A o \in Objects : phase[o] = "live" <=> \E t \in Threads : owned[t][o] > 0

\* Each object is deallocated by one thread, once.
DisposeInv ==
  /\ \A t \in Threads : \A i \in DOMAIN disposing[t] : phase[disposing[t][i]] = "dealloc"
  /\ \A t, u \in Threads : \A i \in DOMAIN disposing[t], j \in DOMAIN disposing[u] :
       disposing[t][i] = disposing[u][j] => t = u /\ i = j

\* What the locals of a call are.
Locals(me) ==
  /\ me.kind = "none" <=> me.pc = "idle"
  /\ me.kind \in {"none", "clear"} <=> me.loc = Nil
  /\ me.kind \in {"copy", "move"} <=> me.dst # Nil
  /\ me.kind = "clear" => me.pc \in {"lock", "locked", "free"} /\ me.obj # Nil
  /\ me.pc = "free" => me.kind = "clear"
  /\ me.pc = "release" => me.kind = "copied"
  /\ me.kind \in {"copied", "init"} => me.new # Nil
  /\ me.kind \in {"load", "copy", "move"} /\ me.pc # "read" => me.obj # Nil
  /\ me.pc = "initialize" => me.kind \in {"load", "copy"} \/ (me.kind \in Stores /\ me.new # Nil)
LocalsInv == \A t \in Threads : Locals(op[t])

\* The variables a call uses are initialized, or not, as it needs them.
Fits(me, st) ==
  /\ me.kind \in {"init", "copied"} /\ me.pc # "release" => st[me.loc] = "raw"
  /\ me.kind \in {"store", "destroy", "load", "copy", "move"} => st[me.loc] = "weak"
  /\ me.kind \in {"copy", "move"} => st[me.dst] = "raw"
StatusInv == \A t \in Threads : Fits(op[t], status)

\* A variable that is not used in a thread-safe way is used by one call.
Exclusive(me) == {me.dst} \cup (IF me.kind \in {"init", "destroy", "copied", "move"} THEN {me.loc} ELSE {})
Used(me) == {me.loc, me.dst}
ExclusiveInv == \A t, u \in Threads : t # u => Exclusive(op[t]) \cap Used(op[u]) \subseteq {Nil}

\* A load has room for the reference it may return.
RoomInv == \A t \in Threads : Loads(t) => MayOwn(t)

\* The object that is deallocated is the innermost one, and has no variables once
\* they are cleared.
ClearInv ==
  \A t \in Threads :
    /\ op[t].kind = "clear" => disposing[t] # <<>> /\ op[t].obj = disposing[t][1]
    /\ op[t].pc = "free" => \A l \in Locations : <<op[t].obj, l>> \notin table

\* Stripes are locked by the threads on their way through lockTwo and the critical
\* section, the lower addresses first.
Missing(t) == {s \in Tables(t) : lock[s] # t}
LockInv ==
  /\ \A t \in Threads, s \in Stripes : lock[s] = t => op[t].pc \in {"lock", "locked"} /\ s \in Tables(t)
  /\ \A t \in Threads : op[t].pc = "lock" =>
       Missing(t) # {} /\ \A s \in Tables(t), m \in Missing(t) : lock[s] = t => s < m

IndInv ==
  /\ TypeInv /\ TableInv /\ OwnInv /\ DisposeInv /\ LocalsInv
  /\ StatusInv /\ ExclusiveInv /\ RoomInv /\ ClearInv /\ LockInv

----------------------------------------------------------------------------
(* Steps of one thread.                                                    *)

LEMMA IdleIsOp == Idle \in Op /\ Idle.kind = "none" /\ Idle.pc = "idle" /\ Idle.loc = Nil /\ Idle.dst = Nil /\ Locals(Idle)
  BY DEF Idle, Op, Pcs, Kinds, Locals, Stores

LEMMA OpType ==
  ASSUME IndInv, NEW t \in Threads
  PROVE  op \in [Threads -> Op] /\ op[t] \in Op /\ Locals(op[t])
  BY DEF IndInv, TypeInv, TypeOK, Op, LocalsInv

LEMMA TablesType ==
  ASSUME TypeOK, NEW t \in Threads
  PROVE  Tables(t) \subseteq Stripes /\ Tables(t) # {} /\ Stripes \subseteq Nat
<1>1. op[t].obj \in Objects \cup {Nil} /\ op[t].new \in Objects \cup {Nil}
  BY DEF TypeOK
<1> QED
  BY <1>1, ConstantsOK, SMTT(30) DEF Tables, Stripes

LEMMA TablesSame ==
  ASSUME NEW t \in Threads, op'[t] = op[t]
  PROVE  Tables(t)' = Tables(t)
  BY DEF Tables, HaveOld, HaveNew

\* The locals of the others stay what they are.
LEMMA MoveLocals ==
  ASSUME IndInv, NEW t \in Threads, NEW x \in Op, op' = [op EXCEPT ![t] = x], Locals(x)
  PROVE  /\ LocalsInv' /\ op' \in [Threads -> Op] /\ op'[t] = x
         /\ \A u \in Threads : u # t => op'[u] = op[u]
<1>1. op \in [Threads -> Op]
  BY OpType
<1>2. op' \in [Threads -> Op] /\ op'[t] = x /\ \A u \in Threads : u # t => op'[u] = op[u]
  BY <1>1
<1>3. ASSUME NEW u \in Threads
      PROVE  Locals(op'[u])
  BY <1>2, OpType
<1> QED
  BY <1>2, <1>3 DEF LocalsInv

LEMMA MoveExclusive ==
  ASSUME ExclusiveInv, NEW t \in Threads, \A u \in Threads : u # t => op'[u] = op[u],
         Exclusive(op'[t]) \subseteq Exclusive(op[t]) \cup {Nil}, Used(op'[t]) \subseteq Used(op[t]) \cup {Nil}
  PROVE  ExclusiveInv'
<1> SUFFICES ASSUME NEW u \in Threads, NEW v \in Threads, u # v
             PROVE  Exclusive(op'[u]) \cap Used(op'[v]) \subseteq {Nil}
  BY DEF ExclusiveInv
<1>1. Exclusive(op[u]) \cap Used(op[v]) \subseteq {Nil}
  BY DEF ExclusiveInv
<1>2. Exclusive(op'[u]) \subseteq Exclusive(op[u]) \cup {Nil}
  BY DEF Exclusive
<1>3. Used(op'[v]) \subseteq Used(op[v]) \cup {Nil}
  BY DEF Used
<1> HIDE DEF Exclusive, Used
<1> QED
  BY <1>1, <1>2, <1>3

\* The status of variable l becomes v.
LEMMA StatusOthers ==
  ASSUME IndInv, NEW t \in Threads, NEW l \in Locations, NEW v, status' = [status EXCEPT ![l] = v],
         status[l] = v \/ l \in Exclusive(op[t]) \/ ~InUse(l)
  PROVE  \A u \in Threads : u # t => Fits(op[u], status')
<1> SUFFICES ASSUME NEW u \in Threads, u # t
             PROVE  Fits(op[u], status')
  OBVIOUS
<1>0. status \in [Locations -> {"raw", "weak"}] /\ Fits(op[u], status) /\ op[u] \in Op /\ Locals(op[u])
  BY OpType DEF IndInv, TypeInv, TypeOK, StatusInv
<1>1. CASE status[l] = v
  <2>1. status' = status
    BY <1>0, <1>1
  <2> QED
    BY <1>0, <2>1
<1>2. CASE l \in Exclusive(op[t]) \/ ~InUse(l)
  <2>1. l \notin {op[u].loc, op[u].dst}
    <3>1. l # Nil
      BY ConstantsOK
    <3>2. CASE ~InUse(l)
      BY <3>2 DEF InUse
    <3>3. CASE l \in Exclusive(op[t])
      BY <3>1, <3>3 DEF IndInv, ExclusiveInv, Used
    <3> QED
      BY <1>2, <3>2, <3>3
  <2>2. \A m \in Locations : m # l => status'[m] = status[m]
    BY <1>0
  <2>3. op[u].kind \notin {"none", "clear"} => op[u].loc \in Locations
    BY <1>0 DEF Op, Locals
  <2>4. op[u].kind \in {"copy", "move"} => op[u].dst \in Locations
    BY <1>0 DEF Op, Locals
  <2> QED
    BY <1>0, <2>1, <2>2, <2>3, <2>4 DEF Fits
<1> QED
  BY <1>1, <1>2

LEMMA MoveStatus ==
  ASSUME NEW t \in Threads, \A u \in Threads : u # t => op'[u] = op[u],
         \A u \in Threads : u # t => Fits(op[u], status'), Fits(op'[t], status')
  PROVE  StatusInv'
<1>1. ASSUME NEW u \in Threads
      PROVE  Fits(op'[u], status')
  BY <1>1
<1> QED
  BY <1>1 DEF StatusInv

----------------------------------------------------------------------------
(* Locks.                                                                  *)

\* The thread holds nothing, before and after.
LEMMA LockFrame ==
  ASSUME IndInv, TypeOK', NEW t \in Threads, \A u \in Threads : u # t => op'[u] = op[u], UNCHANGED lock,
         op[t].pc \notin {"lock", "locked"}, op'[t].pc # "locked"
  PROVE  LockInv'
<1>0. TypeOK /\ LockInv
  BY DEF IndInv, TypeInv
<1>1. \A s \in Stripes : lock[s] # t
  BY <1>0, ConstantsOK DEF LockInv, TypeOK
<1>2. \A u \in Threads : u # t => Tables(u)' = Tables(u)
  BY TablesSame
<1>3. Tables(t)' \subseteq Stripes /\ Tables(t)' # {}
  <2>1. op'[t].obj \in Objects \cup {Nil} /\ op'[t].new \in Objects \cup {Nil}
    BY DEF TypeOK
  <2> QED
    BY <2>1, ConstantsOK DEF Tables, Stripes
<1>4. ASSUME NEW u \in Threads, NEW s \in Stripes, lock'[s] = u
      PROVE  op'[u].pc \in {"lock", "locked"} /\ s \in Tables(u)'
  <2>1. u # t /\ lock[s] = u
    BY <1>1, <1>4
  <2>2. op[u].pc \in {"lock", "locked"} /\ s \in Tables(u)
    BY <1>0, <2>1 DEF LockInv
  <2> QED
    BY <1>2, <2>1, <2>2
<1>5. ASSUME NEW u \in Threads, op'[u].pc = "lock"
      PROVE  Missing(u)' # {} /\ \A s \in Tables(u)', m \in Missing(u)' : lock'[s] = u => s < m
  <2>1. CASE u = t
    BY <1>1, <1>3, <2>1 DEF Missing
  <2>2. CASE u # t
    <3>1. Missing(u)' = Missing(u) /\ Tables(u)' = Tables(u)
      BY <1>2, <2>2 DEF Missing
    <3>2. Missing(u) # {} /\ \A s \in Tables(u), m \in Missing(u) : lock[s] = u => s < m
      BY <1>0, <1>5, <2>2 DEF LockInv
    <3> QED
      BY <3>1, <3>2
  <2> QED
    BY <2>1, <2>2
<1> QED
  BY <1>4, <1>5 DEF LockInv

\* The thread lets its stripes go.
LEMMA LockUnlock ==
  ASSUME IndInv, NEW t \in Threads, \A u \in Threads : u # t => op'[u] = op[u], unlockTwo(t),
         op'[t].pc \notin {"lock", "locked"}
  PROVE  LockInv' /\ lock' \in [Stripes -> Threads \cup {Nil}]
<1>0. TypeOK /\ LockInv /\ lock \in [Stripes -> Threads \cup {Nil}]
  BY DEF IndInv, TypeInv, TypeOK
<1>1. \A s \in Stripes : lock'[s] = IF lock[s] = t THEN Nil ELSE lock[s]
  BY DEF unlockTwo
<1>2. \A u \in Threads : u # t => Tables(u)' = Tables(u)
  BY TablesSame
<1>3. \A u \in Threads : Tables(u) \subseteq Stripes
  BY <1>0, TablesType
<1>4. ASSUME NEW u \in Threads, NEW s \in Stripes, lock'[s] = u
      PROVE  op'[u].pc \in {"lock", "locked"} /\ s \in Tables(u)'
  <2>1. u # t /\ lock[s] = u
    BY <1>1, <1>4, ConstantsOK
  <2>2. op[u].pc \in {"lock", "locked"} /\ s \in Tables(u)
    BY <1>0, <2>1 DEF LockInv
  <2> QED
    BY <1>2, <2>1, <2>2
<1>5. ASSUME NEW u \in Threads, op'[u].pc = "lock"
      PROVE  Missing(u)' # {} /\ \A s \in Tables(u)', m \in Missing(u)' : lock'[s] = u => s < m
  <2>1. u # t /\ Tables(u)' = Tables(u) /\ op[u].pc = "lock" /\ u # Nil
    BY <1>2, <1>5, ConstantsOK
  <2>2. \A s \in Tables(u) : lock'[s] = u <=> lock[s] = u
    BY <1>1, <1>3, <2>1
  <2>3. Missing(u)' = Missing(u)
    BY <2>1, <2>2 DEF Missing
  <2>4. Missing(u) # {} /\ \A s \in Tables(u), m \in Missing(u) : lock[s] = u => s < m
    BY <1>0, <2>1 DEF LockInv
  <2> QED
    BY <2>1, <2>2, <2>3, <2>4
<1>6. lock' \in [Stripes -> Threads \cup {Nil}]
  BY <1>0 DEF unlockTwo
<1> QED
  BY <1>4, <1>5, <1>6 DEF LockInv

\* The least element of a set of at most two numbers.
LEMMA LeastOf ==
  ASSUME NEW S, NEW i \in Nat, NEW j \in Nat, S \subseteq {i, j}, S # {}
  PROVE  Min(S) \in S /\ \A m \in S : Min(S) <= m
<1>1. \E x \in S : \A y \in S : x =< y
  <2>1. S = {i} \/ S = {j} \/ S = {i, j}
    OBVIOUS
  <2> QED
    BY <2>1
<1> DEFINE P(x) == x \in S /\ \A y \in S : x =< y
<1>2. Min(S) = CHOOSE x : P(x)
  <2>1. Min(S) = CHOOSE x \in S : \A y \in S : x =< y
    BY DEF Min
  <2> QED
    BY <2>1
<1>3. P(CHOOSE x : P(x))
  BY <1>1
<1> QED
  BY <1>2, <1>3

LEMMA TwoTables ==
  ASSUME TypeOK, NEW t \in Threads
  PROVE  Tables(t) \subseteq {Stripe[op[t].obj], Stripe[op[t].new]} /\ Stripe[op[t].obj] \in Nat /\ Stripe[op[t].new] \in Nat
<1>1. op[t].obj \in Objects \cup {Nil} /\ op[t].new \in Objects \cup {Nil}
  BY DEF TypeOK
<1> QED
  BY <1>1, ConstantsOK DEF Tables

LEMMA LeastMissing ==
  ASSUME TypeOK, NEW t \in Threads, Missing(t) # {}
  PROVE  Min(Missing(t)) \in Missing(t) /\ \A m \in Missing(t) : Min(Missing(t)) <= m
<1>1. Missing(t) \subseteq {Stripe[op[t].obj], Stripe[op[t].new]} /\ Stripe[op[t].obj] \in Nat /\ Stripe[op[t].new] \in Nat
  BY TwoTables DEF Missing
<1> QED
  BY <1>1, LeastOf

----------------------------------------------------------------------------
(* Steps that leave objects and variables alone.                           *)

\* The call goes on with the variables it uses.
LEMMA QuietStep ==
  ASSUME IndInv, NEW t \in Threads, NEW x \in Op, op' = [op EXCEPT ![t] = x], UNCHANGED <<heap, weak>>,
         x.kind = op[t].kind, x.loc = op[t].loc, x.dst = op[t].dst, x.kind = "clear" => x.obj = op[t].obj,
         x.pc \notin {"release", "free"}, op[t].pc # "release", Locals(x),
         inited' \in [Objects -> {"no", "done"} \cup Threads], lock' \in [Stripes -> Threads \cup {Nil}], LockInv'
  PROVE  IndInv'
<1>0. UNCHANGED <<phase, owned, disposing, marked, value, status, table>>
  BY DEF heap, weak
<1>1. LocalsInv' /\ op' \in [Threads -> Op] /\ op'[t] = x /\ \A u \in Threads : u # t => op'[u] = op[u]
  BY MoveLocals
<1>2. TypeInv'
  BY <1>0, <1>1 DEF IndInv, TypeInv, TypeOK, Op
<1>3. TableInv' /\ OwnInv' /\ DisposeInv'
  BY <1>0 DEF IndInv, TableInv, OwnInv, DisposeInv
<1>4. StatusInv'
  <2>1. \A u \in Threads : Fits(op[u], status)
    BY DEF IndInv, StatusInv
  <2>2. Fits(x, status')
    BY <1>0, <2>1 DEF Fits
  <2> QED
    BY <1>0, <1>1, <2>1, <2>2, MoveStatus
<1>5. ExclusiveInv'
  <2>1. Exclusive(x) = Exclusive(op[t]) /\ Used(x) = Used(op[t])
    BY DEF Exclusive, Used
  <2> QED
    BY <1>1, <2>1, MoveExclusive DEF IndInv
<1>6. RoomInv'
  <2>1. ASSUME NEW u \in Threads, Loads(u)'
        PROVE  MayOwn(u)'
    <3>1. Loads(u)
      BY <1>1, <2>1 DEF Loads
    <3> QED
      BY <1>0, <3>1 DEF IndInv, RoomInv, MayOwn, OwnedBy
  <2> QED
    BY <2>1 DEF RoomInv
<1>7. ClearInv'
  BY <1>0, <1>1 DEF IndInv, ClearInv
<1> QED
  BY <1>1, <1>2, <1>3, <1>4, <1>5, <1>6, <1>7 DEF IndInv

\* A step that is not of a call: only inited and halted change.
LEMMA OtherStep ==
  ASSUME IndInv, UNCHANGED <<heap, weak, lock, op>>, inited' \in [Objects -> {"no", "done"} \cup Threads]
  PROVE  IndInv'
<1>0. UNCHANGED <<phase, owned, disposing, marked, value, status, table, lock, op>>
  BY DEF heap, weak
<1>1. \A u \in Threads : Tables(u)' = Tables(u)
  BY <1>0, TablesSame
<1>2. LockInv'
  BY <1>0, <1>1 DEF IndInv, LockInv, Missing
<1>3. TypeInv' /\ TableInv' /\ OwnInv' /\ DisposeInv'
  BY <1>0 DEF IndInv, TypeInv, TypeOK, TableInv, OwnInv, DisposeInv
<1>4. LocalsInv' /\ StatusInv' /\ ExclusiveInv' /\ ClearInv'
  BY <1>0 DEF IndInv, LocalsInv, StatusInv, ExclusiveInv, ClearInv
<1>5. RoomInv'
  BY <1>0 DEF IndInv, RoomInv, Loads, MayOwn, OwnedBy
<1> QED
  BY <1>2, <1>3, <1>4, <1>5 DEF IndInv

LEMMA InitedType ==
  ASSUME IndInv, NEW o \in Objects, NEW i \in {"no", "done"} \cup Threads
  PROVE  /\ inited \in [Objects -> {"no", "done"} \cup Threads]
         /\ [inited EXCEPT ![o] = i] \in [Objects -> {"no", "done"} \cup Threads]
  BY DEF IndInv, TypeInv, TypeOK

LEMMA BeginInitializeKeeps == ASSUME IndInv, NEW t \in Threads, BeginInitialize(t) PROVE IndInv'
<1>1. PICK o \in Objects : inited' = [inited EXCEPT ![o] = t] /\ UNCHANGED <<heap, weak, lock, op>>
  BY DEF BeginInitialize
<1> QED
  BY <1>1, InitedType, OtherStep

LEMMA EndInitializeKeeps == ASSUME IndInv, NEW t \in Threads, EndInitialize(t) PROVE IndInv'
<1>1. PICK o \in Objects : inited' = [inited EXCEPT ![o] = "done"] /\ UNCHANGED <<heap, weak, lock, op>>
  BY DEF EndInitialize
<1> QED
  BY <1>1, InitedType, OtherStep

LEMMA StoreCrashesKeeps == ASSUME IndInv, NEW t \in Threads, StoreCrashes(t) PROVE IndInv'
<1>1. inited \in [Objects -> {"no", "done"} \cup Threads]
  BY DEF IndInv, TypeInv, TypeOK
<1> QED
  BY <1>1, OtherStep DEF StoreCrashes

\* What the others see of a step that takes no lock.
LEMMA NoLockStep ==
  ASSUME IndInv, NEW t \in Threads, NEW x \in Op, op' = [op EXCEPT ![t] = x], UNCHANGED <<heap, weak, lock>>,
         x.kind = op[t].kind, x.loc = op[t].loc, x.dst = op[t].dst, x.kind # "clear",
         x.pc \notin {"release", "free", "locked"}, op[t].pc \notin {"release", "lock", "locked"}, Locals(x),
         inited' \in [Objects -> {"no", "done"} \cup Threads]
  PROVE  IndInv'
<1>1. op' \in [Threads -> Op] /\ op'[t] = x /\ \A u \in Threads : u # t => op'[u] = op[u]
  BY MoveLocals
<1>2. lock' \in [Stripes -> Threads \cup {Nil}] /\ TypeOK'
  BY <1>1 DEF IndInv, TypeInv, TypeOK, Op, heap, weak
<1>3. LockInv'
  BY <1>1, <1>2, LockFrame
<1> QED
  BY <1>2, <1>3, QuietStep

LEMMA ReadOldKeeps == ASSUME IndInv, NEW t \in Threads, ReadOld(t) PROVE IndInv'
<1>0. op[t] \in Op /\ Locals(op[t]) /\ At(t, "read") /\ op[t].kind \in {"store", "destroy", "init", "copied"}
  BY OpType DEF ReadOld, HaveOld, HaveNew, Stores
<1>1. PICK o \in Objects \cup {Nil} : op' = [op EXCEPT ![t] = [op[t] EXCEPT !.obj = o, !.pc = "lock"]]
  <2>1. op[t].kind = "store" \/ op[t].kind = "destroy" => op[t].loc \in Locations
    BY <1>0 DEF Op, Locals
  <2>2. value \in [Locations -> Objects \cup {Nil}]
    BY DEF IndInv, TypeInv, TypeOK
  <2> QED
    BY <2>1, <2>2 DEF ReadOld, HaveOld
<1> DEFINE x == [op[t] EXCEPT !.obj = o, !.pc = "lock"]
<1>2. x \in Op
  BY <1>0 DEF Op, Pcs
<1>3. x.kind = op[t].kind /\ x.loc = op[t].loc /\ x.dst = op[t].dst /\ x.new = op[t].new /\ x.pc = "lock" /\ x.obj = o
  BY <1>0 DEF Op
<1>4. op' = [op EXCEPT ![t] = x] /\ UNCHANGED <<heap, inited, weak, lock>> /\ op[t].pc = "read"
  BY <1>0, <1>1 DEF ReadOld, At
<1> HIDE DEF x
<1>5. Locals(x)
  BY <1>0, <1>3, <1>4 DEF Locals, Stores
<1>6. inited' \in [Objects -> {"no", "done"} \cup Threads]
  BY <1>4 DEF IndInv, TypeInv, TypeOK
<1> QED
  BY <1>0, <1>2, <1>3, <1>4, <1>5, <1>6, NoLockStep

LEMMA ClassInitializeKeeps == ASSUME IndInv, NEW t \in Threads, class_initialize(t) PROVE IndInv'
<1>0. op[t] \in Op /\ Locals(op[t]) /\ op[t].pc = "initialize"
  BY OpType DEF class_initialize, At
<1> DEFINE b == HaveNew(t)
           x == [op[t] EXCEPT !.pc = "read", !.prev = b]
           o == IF Loads(t) THEN op[t].obj ELSE op[t].new
<1>1. op' = [op EXCEPT ![t] = x] /\ UNCHANGED <<heap, weak, lock>>
  BY DEF class_initialize
<1>2. o \in Objects
  BY <1>0 DEF Op, Locals, Loads
<1>3. inited' \in [Objects -> {"no", "done"} \cup Threads]
  <2>1. inited \in [Objects -> {"no", "done"} \cup Threads]
    BY DEF IndInv, TypeInv, TypeOK
  <2>2. inited' = [inited EXCEPT ![o] = IF inited[o] = "no" THEN "done" ELSE inited[o]]
    BY DEF class_initialize
  <2> QED
    BY <1>2, <2>1, <2>2
<1>4. b \in BOOLEAN
  BY DEF HaveNew
<1> HIDE DEF b
<1>5. x \in Op
  BY <1>0, <1>4 DEF Op, Pcs
<1>6. x.kind = op[t].kind /\ x.loc = op[t].loc /\ x.dst = op[t].dst /\ x.new = op[t].new /\ x.pc = "read"
  BY <1>0 DEF Op
<1> HIDE DEF x
<1>7. Locals(x) /\ x.kind # "clear"
  BY <1>0, <1>6 DEF Locals, Stores
<1> QED
  BY <1>0, <1>1, <1>3, <1>5, <1>6, <1>7, NoLockStep

\* Letting the stripes go to start over, or to run +initialize.
LEMMA UnlockStep ==
  ASSUME IndInv, NEW t \in Threads, NEW p \in {"read", "initialize"}, At(t, "locked"), op[t].kind # "clear",
         p = "initialize" => op[t].kind \in {"load", "copy"} \/ (op[t].kind \in Stores /\ op[t].new # Nil),
         unlockTwo(t), Goto(t, p), UNCHANGED <<heap, inited, weak>>
  PROVE  IndInv'
<1>0. op[t] \in Op /\ Locals(op[t]) /\ op[t].pc = "locked"
  BY OpType DEF At
<1> DEFINE x == [op[t] EXCEPT !.pc = p]
<1>1. op' = [op EXCEPT ![t] = x]
  BY DEF Goto
<1>2. x \in Op
  BY <1>0 DEF Op, Pcs
<1>3. x.kind = op[t].kind /\ x.loc = op[t].loc /\ x.dst = op[t].dst /\ x.new = op[t].new /\ x.pc = p /\ x.obj = op[t].obj
  BY <1>0 DEF Op
<1> HIDE DEF x
<1>4. Locals(x)
  BY <1>0, <1>3 DEF Locals, Stores
<1>5. op' \in [Threads -> Op] /\ op'[t] = x /\ \A u \in Threads : u # t => op'[u] = op[u]
  BY <1>1, <1>2, <1>4, MoveLocals
<1>6. LockInv' /\ lock' \in [Stripes -> Threads \cup {Nil}]
  BY <1>3, <1>5, LockUnlock
<1>7. inited' \in [Objects -> {"no", "done"} \cup Threads]
  BY DEF IndInv, TypeInv, TypeOK
<1> QED
  BY <1>0, <1>1, <1>2, <1>3, <1>4, <1>6, <1>7, QuietStep

LEMMA RetryKeeps == ASSUME IndInv, NEW t \in Threads, Retry(t) PROVE IndInv'
  BY UnlockStep DEF Retry

LEMMA UnlockToInitializeKeeps == ASSUME IndInv, NEW t \in Threads, UnlockToInitialize(t) PROVE IndInv'
<1>1. op[t].kind \in {"load", "copy"} \/ (op[t].kind \in Stores /\ op[t].new # Nil)
  BY DEF UnlockToInitialize, NeedsInitialize, HaveNew, Loads
<1>2. op[t].kind # "clear"
  BY <1>1 DEF Stores
<1> QED
  BY <1>1, <1>2, UnlockStep DEF UnlockToInitialize

\* Taking the lowest stripe that is missing.
LEMMA lockTwoKeeps == ASSUME IndInv, NEW t \in Threads, lockTwo(t) PROVE IndInv'
<1>0. op[t] \in Op /\ Locals(op[t]) /\ op[t].pc = "lock" /\ TypeOK /\ LockInv
  BY OpType DEF lockTwo, At, IndInv, TypeInv
<1> DEFINE s == Min(Missing(t))
<1>1. Missing(t) # {} /\ \A r \in Tables(t), m \in Missing(t) : lock[r] = t => r < m
  BY <1>0 DEF LockInv
<1>2. s \in Missing(t) /\ \A m \in Missing(t) : s <= m
  BY <1>0, <1>1, LeastMissing
<1>3. /\ lock[s] = Nil /\ lock' = [lock EXCEPT ![s] = t] /\ UNCHANGED <<heap, inited, weak>>
      /\ IF Missing(t) = {s} THEN Goto(t, "locked") ELSE UNCHANGED op
  BY DEF lockTwo, Missing
<1> HIDE DEF s
<1>4. Tables(t) \subseteq Stripes /\ Stripes \subseteq Nat /\ s \in Stripes /\ s \in Tables(t)
  BY <1>0, <1>2, TablesType DEF Missing
<1>5. /\ lock \in [Stripes -> Threads \cup {Nil}] /\ lock' \in [Stripes -> Threads \cup {Nil}]
      /\ lock'[s] = t /\ \A r \in Stripes : r # s => lock'[r] = lock[r]
  BY <1>0, <1>3, <1>4 DEF TypeOK
<1> DEFINE p == IF Missing(t) = {s} THEN "locked" ELSE "lock"
           x == [op[t] EXCEPT !.pc = p]
<1>6. p \in {"lock", "locked"}
  OBVIOUS
<1>7. op' = [op EXCEPT ![t] = x]
  <2>1. op \in [Threads -> Op]
    BY OpType
  <2>2. CASE Missing(t) = {s}
    BY <1>3, <2>2 DEF Goto
  <2>3. CASE Missing(t) # {s}
    <3>1. x = op[t]
      BY <1>0, <2>3 DEF Op
    <3> QED
      BY <1>3, <2>1, <2>3, <3>1
  <2> QED
    BY <2>2, <2>3
<1>8. x \in Op /\ x.kind = op[t].kind /\ x.loc = op[t].loc /\ x.dst = op[t].dst /\ x.new = op[t].new /\ x.pc = p /\ x.obj = op[t].obj
  BY <1>0, <1>6 DEF Op, Pcs
<1> HIDE DEF x
<1>9. Locals(x)
  BY <1>0, <1>6, <1>8 DEF Locals, Stores
<1>10. op' \in [Threads -> Op] /\ op'[t] = x /\ \A u \in Threads : u # t => op'[u] = op[u]
  BY <1>7, <1>8, <1>9, MoveLocals
<1>11. \A u \in Threads : Tables(u)' = Tables(u)
  <2>1. Tables(t)' = Tables(t)
    BY <1>8, <1>10 DEF Tables, HaveOld, HaveNew
  <2> QED
    BY <1>10, <2>1, TablesSame
<1>12. LockInv'
  <2>1. ASSUME NEW u \in Threads, NEW r \in Stripes, lock'[r] = u
        PROVE  op'[u].pc \in {"lock", "locked"} /\ r \in Tables(u)'
    <3>1. CASE r = s
      BY <1>4, <1>5, <1>6, <1>8, <1>10, <1>11, <2>1, <3>1
    <3>2. CASE r # s
      <4>1. op[u].pc \in {"lock", "locked"} /\ r \in Tables(u)
        BY <1>0, <1>5, <2>1, <3>2 DEF LockInv
      <4> QED
        BY <1>6, <1>8, <1>10, <1>11, <4>1
    <3> QED
      BY <3>1, <3>2
  <2>2. ASSUME NEW u \in Threads, op'[u].pc = "lock"
        PROVE  Missing(u)' # {} /\ \A r \in Tables(u)', m \in Missing(u)' : lock'[r] = u => r < m
    <3>0. Tables(u) \subseteq Stripes
      BY <1>0, TablesType
    <3>1. CASE u = t
      <4>1. Missing(t) # {s}
        BY <1>8, <1>10, <2>2, <3>1
      <4>2. Missing(t)' = Missing(t) \ {s}
        BY <1>4, <1>5, <1>11 DEF Missing
      <4>3. Missing(t) \ {s} # {}
        BY <1>2, <4>1
      <4>4. ASSUME NEW r \in Tables(t), NEW m \in Missing(t) \ {s}, lock'[r] = t
            PROVE  r < m
        <5>1. m \in Nat /\ s \in Nat /\ s <= m /\ s # m
          BY <1>2, <1>4 DEF Missing
        <5>2. r = s \/ lock[r] = t
          BY <1>4, <1>5, <4>4
        <5> QED
          BY <1>1, <5>1, <5>2
      <4> QED
        BY <1>11, <3>1, <4>2, <4>3, <4>4
    <3>2. CASE u # t
      <4>1. op[u].pc = "lock"
        BY <1>10, <2>2, <3>2
      <4>2. \A r \in Tables(u) : lock'[r] = u <=> lock[r] = u
        BY <1>3, <1>5, <3>0, <3>2, ConstantsOK
      <4>3. Missing(u)' = Missing(u)
        BY <1>11, <4>2 DEF Missing
      <4>4. Missing(u) # {} /\ \A r \in Tables(u), m \in Missing(u) : lock[r] = u => r < m
        BY <1>0, <4>1 DEF LockInv
      <4> QED
        BY <1>11, <4>2, <4>3, <4>4
    <3> QED
      BY <3>1, <3>2
  <2> QED
    BY <2>1, <2>2 DEF LockInv
<1>13. inited' \in [Objects -> {"no", "done"} \cup Threads]
  BY <1>0, <1>3 DEF TypeOK
<1> QED
  BY <1>0, <1>3, <1>5, <1>6, <1>7, <1>8, <1>9, <1>12, <1>13, QuietStep

----------------------------------------------------------------------------
(* Calls begin.                                                            *)

LEMMA CallStep ==
  ASSUME IndInv, NEW t \in Threads, op[t].pc = "idle", NEW k \in {"store", "init", "destroy", "load", "copy", "move"},
         NEW l \in Locations, NEW d \in Locations \cup {Nil}, NEW o \in Objects \cup {Nil}, Call(t, k, l, d, o),
         UNCHANGED <<heap, inited, weak, lock>>, d # Nil <=> k \in {"copy", "move"}, k = "init" => o # Nil,
         status[l] = (IF k = "init" THEN "raw" ELSE "weak"), d # Nil => status[d] = "raw" /\ ~InUse(d),
         ~ExclusiveUse(l), k \in {"init", "destroy", "move"} => ~InUse(l), k \in {"load", "copy"} => MayOwn(t)
  PROVE  IndInv'
<1> DEFINE x == [Idle EXCEPT !.pc = "read", !.kind = k, !.loc = l, !.dst = d, !.new = o]
<1>0. UNCHANGED <<phase, owned, disposing, marked, value, status, table>>
  BY DEF heap, weak
<1>1. op' = [op EXCEPT ![t] = x]
  BY DEF Call
<1>2. x \in Op
  BY DEF Idle, Op, Pcs, Kinds, Stores
<1>3. x.pc = "read" /\ x.kind = k /\ x.loc = l /\ x.dst = d /\ x.new = o
  BY DEF Idle
<1> HIDE DEF x
<1>4. Locals(x)
  BY <1>3, ConstantsOK DEF Locals
<1>5. LocalsInv' /\ op' \in [Threads -> Op] /\ op'[t] = x /\ \A u \in Threads : u # t => op'[u] = op[u]
  BY <1>1, <1>2, <1>4, MoveLocals
<1>6. TypeInv'
  BY <1>0, <1>5 DEF IndInv, TypeInv, TypeOK, Op
<1>7. TableInv' /\ OwnInv' /\ DisposeInv'
  BY <1>0 DEF IndInv, TableInv, OwnInv, DisposeInv
<1>8. StatusInv'
  <2>1. Fits(x, status')
    BY <1>0, <1>3 DEF Fits
  <2>2. \A u \in Threads : Fits(op[u], status')
    BY <1>0 DEF IndInv, StatusInv
  <2> QED
    BY <1>5, <2>1, <2>2, MoveStatus
<1>9. ExclusiveInv'
  <2>1. ASSUME NEW u \in Threads, u # t
        PROVE  Exclusive(x) \cap Used(op[u]) \subseteq {Nil} /\ Exclusive(op[u]) \cap Used(x) \subseteq {Nil}
    <3>1. \A m \in {l, d} : ~InUse(m) => m \notin Used(op[u]) /\ m \notin Exclusive(op[u])
      BY DEF InUse, Used, Exclusive
    <3>2. l \notin Exclusive(op[u])
      BY DEF ExclusiveUse, Exclusive
    <3>3. Used(x) = {l, d} /\ Exclusive(x) = {d} \cup (IF k \in {"init", "destroy", "move"} THEN {l} ELSE {})
      BY <1>3 DEF Used, Exclusive
    <3> HIDE DEF Used, Exclusive
    <3>4. Exclusive(x) \cap Used(op[u]) \subseteq {Nil}
      BY <3>1, <3>3
    <3>5. Exclusive(op[u]) \cap Used(x) \subseteq {Nil}
      BY <3>1, <3>2, <3>3
    <3> QED
      BY <3>4, <3>5
  <2>2. ASSUME NEW u \in Threads, NEW v \in Threads, u # v
        PROVE  Exclusive(op'[u]) \cap Used(op'[v]) \subseteq {Nil}
    <3>1. CASE u = t
      BY <1>5, <2>1, <2>2, <3>1
    <3>2. CASE v = t
      BY <1>5, <2>1, <2>2, <3>2
    <3>3. CASE u # t /\ v # t
      BY <1>5, <2>2, <3>3 DEF IndInv, ExclusiveInv
    <3> QED
      BY <3>1, <3>2, <3>3
  <2> QED
    BY <2>2 DEF ExclusiveInv
<1>10. RoomInv'
  <2>1. ASSUME NEW u \in Threads, Loads(u)'
        PROVE  MayOwn(u)'
    <3>1. u # t => Loads(u)
      BY <1>5, <2>1 DEF Loads
    <3>2. MayOwn(u)
      BY <1>3, <1>5, <2>1, <3>1 DEF IndInv, RoomInv, Loads
    <3> QED
      BY <1>0, <3>2 DEF MayOwn, OwnedBy
  <2> QED
    BY <2>1 DEF RoomInv
<1>11. ClearInv'
  BY <1>0, <1>3, <1>5 DEF IndInv, ClearInv
<1>12. LockInv'
  BY <1>3, <1>5, <1>6, LockFrame DEF TypeInv
<1> QED
  BY <1>5, <1>6, <1>7, <1>8, <1>9, <1>10, <1>11, <1>12 DEF IndInv

\* objc_initWeak with nil writes the variable, which nobody else uses.
LEMMA initNilKeeps ==
  ASSUME IndInv, NEW l \in Locations, MayInit(l), value' = [value EXCEPT ![l] = Nil],
         status' = [status EXCEPT ![l] = "weak"], UNCHANGED <<heap, inited, lock, marked, table, op>>
  PROVE  IndInv'
<1>0. UNCHANGED <<phase, owned, disposing>> /\ TypeInv /\ TypeOK
  BY DEF heap, IndInv, TypeInv
<1>1. TypeInv'
  BY <1>0 DEF TypeInv, TypeOK
<1>2. TableInv'
  <2>1. \A o \in Objects : <<o, l>> \notin table
    BY DEF IndInv, TableInv, MayInit
  <2>2. /\ value'[l] = Nil /\ \A m \in Locations : m # l => value'[m] = value[m] /\ status'[m] = status[m]
    BY <1>0 DEF TypeOK
  <2>3. Nil \notin Objects
    BY ConstantsOK
  <2> QED
    BY <1>0, <2>1, <2>2, <2>3 DEF IndInv, TableInv
<1>3. OwnInv' /\ DisposeInv' /\ LocalsInv' /\ ExclusiveInv' /\ ClearInv'
  <2>1. UNCHANGED <<phase, owned, disposing, table, op>>
    BY <1>0
  <2>2. OwnInv' /\ DisposeInv'
    BY <2>1 DEF IndInv, OwnInv, DisposeInv
  <2>3. LocalsInv' /\ ExclusiveInv' /\ ClearInv'
    BY <2>1 DEF IndInv, LocalsInv, ExclusiveInv, ClearInv
  <2> QED
    BY <2>2, <2>3
<1>4. RoomInv'
  BY <1>0 DEF IndInv, RoomInv, Loads, MayOwn, OwnedBy
<1>5. LockInv'
  <2>1. \A u \in Threads : Tables(u)' = Tables(u)
    BY TablesSame
  <2> QED
    BY <2>1 DEF IndInv, LockInv, Missing
<1>6. StatusInv'
  <2>1. ASSUME NEW u \in Threads
        PROVE  Fits(op[u], status')
    <3>1. Fits(op[u], status) /\ op[u] \in Op /\ Locals(op[u])
      BY OpType DEF IndInv, StatusInv
    <3>2. l # op[u].loc /\ l # op[u].dst
      BY DEF MayInit, InUse
    <3>3. \A m : m # l /\ m \in Locations => status'[m] = status[m]
      BY <1>0 DEF TypeOK
    <3>4. op[u].kind \notin {"none", "clear"} => op[u].loc \in Locations
      BY <3>1 DEF Op, Locals
    <3>5. op[u].kind \in {"copy", "move"} => op[u].dst \in Locations
      BY <3>1 DEF Op, Locals
    <3> QED
      BY <3>1, <3>2, <3>3, <3>4, <3>5 DEF Fits
  <2> QED
    BY <2>1 DEF StatusInv
<1> QED
  BY <1>1, <1>2, <1>3, <1>4, <1>5, <1>6 DEF IndInv

LEMMA BeginCallKeeps == ASSUME IndInv, NEW t \in Threads, BeginCall(t) PROVE IndInv'
<1>0. op[t].pc = "idle" /\ UNCHANGED <<heap, inited, lock>>
  BY DEF BeginCall, At
<1>a. \A l \in Locations : ~InUse(l) => ~ExclusiveUse(l)
  BY DEF InUse, ExclusiveUse
<1>1. CASE storeWeak(t)
  <2>1. PICK l \in Locations, o \in Objects \cup {Nil} : MayUse(l) /\ Call(t, "store", l, Nil, o) /\ UNCHANGED weak
    BY <1>1 DEF storeWeak
  <2> QED
    BY <1>0, <2>1, CallStep DEF MayUse
<1>2. CASE initWeak(t)
  <2>1. PICK l \in Locations, o \in Objects \cup {Nil} :
          /\ MayInit(l)
          /\ \/ o # Nil /\ Call(t, "init", l, Nil, o) /\ UNCHANGED weak
             \/ /\ value' = [value EXCEPT ![l] = Nil] /\ status' = [status EXCEPT ![l] = "weak"]
                /\ UNCHANGED <<marked, table, op>>
    BY <1>2 DEF initWeak
  <2>2. CASE o # Nil /\ Call(t, "init", l, Nil, o) /\ UNCHANGED weak
    BY <1>0, <1>a, <2>1, <2>2, CallStep DEF MayInit
  <2>3. CASE value' = [value EXCEPT ![l] = Nil] /\ status' = [status EXCEPT ![l] = "weak"] /\ UNCHANGED <<marked, table, op>>
    BY <1>0, <2>1, <2>3, initNilKeeps
  <2> QED
    BY <2>1, <2>2, <2>3
<1>3. CASE destroyWeak(t)
  <2>1. PICK l \in Locations : status[l] = "weak" /\ ~InUse(l) /\ Call(t, "destroy", l, Nil, Nil) /\ UNCHANGED weak
    BY <1>3 DEF destroyWeak
  <2> QED
    BY <1>0, <1>a, <2>1, CallStep
<1>4. CASE loadWeakRetained(t)
  <2>1. PICK l \in Locations : MayOwn(t) /\ MayUse(l) /\ Call(t, "load", l, Nil, Nil) /\ UNCHANGED weak
    BY <1>4 DEF loadWeakRetained
  <2> QED
    BY <1>0, <2>1, CallStep DEF MayUse
<1>5. CASE copyWeak(t)
  <2>1. PICK d \in Locations, l \in Locations :
          MayOwn(t) /\ MayInit(d) /\ MayUse(l) /\ Call(t, "copy", l, d, Nil) /\ UNCHANGED weak
    BY <1>5 DEF copyWeak
  <2>2. d # Nil
    BY ConstantsOK
  <2> QED
    BY <1>0, <2>1, <2>2, CallStep DEF MayUse, MayInit
<1>6. CASE moveWeak(t)
  <2>1. PICK d \in Locations, l \in Locations :
          MayInit(d) /\ status[l] = "weak" /\ ~InUse(l) /\ Call(t, "move", l, d, Nil) /\ UNCHANGED weak
    BY <1>6 DEF moveWeak
  <2>2. d # Nil
    BY ConstantsOK
  <2> QED
    BY <1>0, <1>a, <2>1, <2>2, CallStep DEF MayInit
<1> QED
  BY <1>1, <1>2, <1>3, <1>4, <1>5, <1>6 DEF BeginCall

----------------------------------------------------------------------------
(* Calls take effect and end.                                              *)

\* The call changes variables and tables, owns one object more or not, and uses no more
\* than before.
LEMMA EndStep ==
  ASSUME IndInv, NEW t \in Threads, NEW x \in Op, op' = [op EXCEPT ![t] = x], Locals(x),
         x.kind \notin {"clear", "load", "copy"},
         Exclusive(x) \subseteq Exclusive(op[t]) \cup {Nil}, Used(x) \subseteq Used(op[t]) \cup {Nil},
         UNCHANGED <<phase, disposing, inited>>,
         owned' \in [Threads -> [Objects -> 0..MaxOwned]], OwnInv', \A u \in Threads : u # t => owned'[u] = owned[u],
         marked' \subseteq Objects, value' \in [Locations -> Objects \cup {Nil}],
         status' \in [Locations -> {"raw", "weak"}], table' \subseteq Objects \X Locations,
         TableInv', \A u \in Threads : u # t => Fits(op[u], status'), Fits(x, status'),
         \A o \in Objects, l \in Locations : <<o, l>> \in table' =>
           phase[o] = "live" \/ \E m \in Locations : <<o, m>> \in table,
         lock' \in [Stripes -> Threads \cup {Nil}], LockInv'
  PROVE  IndInv'
<1>1. LocalsInv' /\ op' \in [Threads -> Op] /\ op'[t] = x /\ \A u \in Threads : u # t => op'[u] = op[u]
  BY MoveLocals
<1>2. TypeInv'
  BY <1>1 DEF IndInv, TypeInv, TypeOK, Op
<1>3. DisposeInv'
  BY DEF IndInv, DisposeInv
<1>4. StatusInv'
  BY <1>1, MoveStatus
<1>5. ExclusiveInv'
  BY <1>1, MoveExclusive DEF IndInv
<1>6. RoomInv'
  <2>1. ASSUME NEW u \in Threads, Loads(u)'
        PROVE  MayOwn(u)'
    <3>1. u # t /\ Loads(u)
      BY <1>1, <2>1 DEF Loads
    <3> QED
      BY <3>1 DEF IndInv, RoomInv, MayOwn, OwnedBy
  <2> QED
    BY <2>1 DEF RoomInv
<1>7. ClearInv'
  <2>1. ASSUME NEW u \in Threads, op'[u].kind = "clear"
        PROVE  disposing'[u] # <<>> /\ op'[u].obj = disposing'[u][1]
    BY <1>1, <2>1 DEF IndInv, ClearInv
  <2>2. ASSUME NEW u \in Threads, op'[u].pc = "free", NEW l \in Locations
        PROVE  <<op'[u].obj, l>> \notin table'
    <3>1. op'[u].kind = "clear"
      BY <1>1, <2>2 DEF LocalsInv, Locals
    <3>2. u # t /\ op'[u] = op[u]
      BY <1>1, <3>1
    <3>3. /\ op[u].obj = disposing[u][1] /\ disposing[u] # <<>> /\ disposing[u] \in Seq(Objects)
          /\ \A m \in Locations : <<op[u].obj, m>> \notin table
      BY <2>2, <3>1, <3>2 DEF IndInv, ClearInv, TypeInv
    <3>4. phase[op[u].obj] = "dealloc" /\ op[u].obj \in Objects
      <4>1. 1 \in DOMAIN disposing[u]
        BY <3>3
      <4> QED
        BY <3>3, <4>1 DEF IndInv, DisposeInv
    <3> QED
      BY <3>2, <3>3, <3>4
  <2> QED
    BY <2>1, <2>2 DEF ClearInv
<1> QED
  BY <1>1, <1>2, <1>3, <1>4, <1>5, <1>6, <1>7 DEF IndInv

\* The parts of EndStep that a call without a new reference leaves alone.
LEMMA SameHeap ==
  ASSUME IndInv, NEW t \in Threads, UNCHANGED heap
  PROVE  /\ owned' \in [Threads -> [Objects -> 0..MaxOwned]] /\ OwnInv' /\ UNCHANGED <<phase, disposing>>
         /\ \A u \in Threads : owned'[u] = owned[u]
<1>1. UNCHANGED <<phase, owned, disposing>>
  BY DEF heap
<1> QED
  BY <1>1 DEF IndInv, TypeInv, TypeOK, OwnInv

LEMMA IdleUses ==
  ASSUME NEW me
  PROVE  /\ Exclusive(Idle) \subseteq Exclusive(me) \cup {Nil} /\ Used(Idle) \subseteq Used(me) \cup {Nil}
         /\ \A st : Fits(Idle, st)
  BY IdleIsOp DEF Exclusive, Used, Fits

LEMMA WeakTypes ==
  ASSUME IndInv
  PROVE  /\ marked \subseteq Objects /\ value \in [Locations -> Objects \cup {Nil}]
         /\ status \in [Locations -> {"raw", "weak"}] /\ table \subseteq Objects \X Locations
         /\ TableInv /\ \A u \in Threads : Fits(op[u], status)
         /\ Nil \notin Objects /\ Nil \notin Locations
  BY ConstantsOK DEF IndInv, TypeInv, TypeOK, StatusInv

\* A variable d that was not initialized becomes nil.
LEMMA NilVariable ==
  ASSUME IndInv, NEW t \in Threads, NEW d \in Locations, d \in Exclusive(op[t]), status[d] = "raw", UNCHANGED phase,
         value' = [value EXCEPT ![d] = Nil], status' = [status EXCEPT ![d] = "weak"], UNCHANGED <<marked, table>>
  PROVE  /\ value' \in [Locations -> Objects \cup {Nil}] /\ status' \in [Locations -> {"raw", "weak"}]
         /\ TableInv' /\ \A u \in Threads : u # t => Fits(op[u], status')
<1>1. \A u \in Threads : u # t => Fits(op[u], status')
  BY StatusOthers
<1>2. value' \in [Locations -> Objects \cup {Nil}] /\ status' \in [Locations -> {"raw", "weak"}]
  BY WeakTypes
<1>3. value'[d] = Nil /\ \A m \in Locations : m # d => value'[m] = value[m] /\ status'[m] = status[m]
  BY WeakTypes
<1>4. \A o \in Objects : <<o, d>> \notin table /\ o # Nil
  BY WeakTypes DEF TableInv
<1>5. TableInv'
  BY <1>3, <1>4, WeakTypes DEF TableInv
<1> QED
  BY <1>1, <1>2, <1>5

LEMMA ReadWeakKeeps == ASSUME IndInv, NEW t \in Threads, ReadWeak(t) PROVE IndInv'
<1>0. /\ op[t] \in Op /\ Locals(op[t]) /\ op[t].pc = "read" /\ op[t].kind \in {"load", "copy", "move"}
      /\ UNCHANGED <<heap, inited, marked, table, lock>>
  BY OpType DEF ReadWeak, At, Loads
<1>1. op[t].loc \in Locations /\ value[op[t].loc] \in Objects \cup {Nil}
  BY <1>0, WeakTypes DEF Op, Locals
<1>2. inited' \in [Objects -> {"no", "done"} \cup Threads] /\ lock' \in [Stripes -> Threads \cup {Nil}]
  BY <1>0 DEF IndInv, TypeInv, TypeOK
<1>3. CASE value[op[t].loc] # Nil
  <2> DEFINE o == value[op[t].loc]
             x == [op[t] EXCEPT !.obj = o, !.pc = "lock"]
  <2>1. op' = [op EXCEPT ![t] = x] /\ UNCHANGED <<value, status>>
    BY <1>3 DEF ReadWeak
  <2>2. x \in Op
    BY <1>0, <1>1 DEF Op, Pcs
  <2>3. x.kind = op[t].kind /\ x.loc = op[t].loc /\ x.dst = op[t].dst /\ x.new = op[t].new /\ x.pc = "lock" /\ x.obj = o
    BY <1>0 DEF Op
  <2> HIDE DEF x
  <2>4. Locals(x)
    BY <1>0, <1>3, <2>3 DEF Locals, Stores
  <2>5. UNCHANGED <<heap, weak, lock>>
    BY <1>0, <2>1 DEF weak
  <2> QED
    BY <1>0, <1>2, <2>1, <2>2, <2>3, <2>4, <2>5, NoLockStep
<1>4. CASE value[op[t].loc] = Nil
  <2>1. op' = [op EXCEPT ![t] = Idle]
    BY <1>4 DEF ReadWeak, Return
  <2>2. op' \in [Threads -> Op] /\ op'[t] = Idle /\ \A u \in Threads : u # t => op'[u] = op[u]
    BY <2>1, IdleIsOp, MoveLocals
  <2>3. \A o \in Objects, l \in Locations : <<o, l>> \in table' => \E m \in Locations : <<o, m>> \in table
    BY <1>0
  <2>4. /\ value' \in [Locations -> Objects \cup {Nil}] /\ status' \in [Locations -> {"raw", "weak"}]
        /\ TableInv' /\ \A u \in Threads : u # t => Fits(op[u], status')
    <3>1. CASE op[t].kind = "load"
      <4>1. UNCHANGED <<value, status, phase, marked, table>>
        BY <1>0, <1>4, <3>1 DEF ReadWeak, heap
      <4> QED
        BY <4>1, WeakTypes DEF TableInv
    <3>2. CASE op[t].kind # "load"
      <4>1. op[t].dst \in Locations /\ op[t].dst \in Exclusive(op[t]) /\ status[op[t].dst] = "raw"
        BY <1>0, <3>2, WeakTypes DEF Op, Locals, Exclusive, Fits
      <4>2. value' = [value EXCEPT ![op[t].dst] = Nil] /\ status' = [status EXCEPT ![op[t].dst] = "weak"]
        BY <1>4, <3>2 DEF ReadWeak
      <4>3. UNCHANGED <<phase, marked, table>>
        BY <1>0 DEF heap
      <4> QED
        BY <4>1, <4>2, <4>3, NilVariable
    <3> QED
      BY <3>1, <3>2
  <2>5. TypeOK'
    BY <1>0, <2>2, <2>4 DEF IndInv, TypeInv, TypeOK, Op, heap
  <2>6. LockInv'
    BY <1>0, <2>2, <2>5, IdleIsOp, LockFrame
  <2>7. marked' \subseteq Objects /\ table' \subseteq Objects \X Locations
    BY <1>0, WeakTypes
  <2> QED
    BY <1>0, <1>2, <2>1, <2>3, <2>4, <2>6, <2>7, SameHeap, IdleIsOp, IdleUses, EndStep
<1> QED
  BY <1>3, <1>4

\* Storing o, or nil, in variable l: the pair of its old value is gone.
LEMMA StoreWeakKeeps == ASSUME IndInv, NEW t \in Threads, StoreWeak(t) PROVE IndInv'
<1> DEFINE l == op[t].loc
           old == IF HaveOld(t) THEN table \ {<<op[t].obj, l>>} ELSE table
<1>0. /\ op[t] \in Op /\ Locals(op[t]) /\ op[t].pc = "locked" /\ op[t].kind \in Stores /\ Unchanged(t)
      /\ UNCHANGED <<heap, inited>> /\ unlockTwo(t) /\ status' = [status EXCEPT ![l] = "weak"]
  BY OpType DEF StoreWeak, At
<1>1. PICK o \in Objects \cup {Nil} :
        /\ o # Nil => phase[o] = "live"
        /\ table' = IF o = Nil THEN old ELSE old \cup {<<o, l>>}
        /\ marked' = marked \cup ({o} \ {Nil})
        /\ value' = [value EXCEPT ![l] = o]
  <2>1. op[t].new \in Objects \cup {Nil}
    BY <1>0 DEF Op
  <2>2. PICK ok \in IF op[t].new = Nil THEN {TRUE} ELSE Viable(op[t].new) :
          LET o == IF ok THEN op[t].new ELSE Nil
          IN /\ table' = IF o = Nil THEN old ELSE old \cup {<<o, l>>}
             /\ marked' = marked \cup ({o} \ {Nil})
             /\ value' = [value EXCEPT ![l] = o]
    BY DEF StoreWeak
  <2>3. CASE ok
    <3>1. op[t].new # Nil => phase[op[t].new] = "live"
      BY <2>2, <2>3 DEF Viable
    <3> QED
      BY <2>1, <2>2, <2>3, <3>1
  <2>4. CASE ~ok
    BY <2>2, <2>4
  <2> QED
    BY <2>3, <2>4
<1>2. l \in Locations
  BY <1>0 DEF Op, Locals, Stores
<1>3. \A p \in Objects : <<p, l>> \notin old
  <2>1. CASE HaveOld(t)
    BY <1>0, <1>2, <2>1, WeakTypes DEF TableInv, Unchanged
  <2>2. CASE ~HaveOld(t)
    <3>1. status[l] = "raw"
      BY <1>0, <2>2, WeakTypes DEF HaveOld, Stores, Fits
    <3> QED
      BY <1>2, <2>2, <3>1, WeakTypes DEF TableInv
  <2> QED
    BY <2>1, <2>2
<1>4. \A p \in Objects, m \in Locations : m # l => (<<p, m>> \in old <=> <<p, m>> \in table)
  OBVIOUS
<1>5. old \subseteq Objects \X Locations /\ \A p : p \in old => p \in table
  BY WeakTypes
<1>6. \A p \in Objects, m \in Locations : <<p, m>> \in table' <=> <<p, m>> \in old \/ (p = o /\ m = l)
  BY <1>1, WeakTypes
<1>7. table' \subseteq Objects \X Locations
  BY <1>1, <1>2, <1>5
<1>8. \A p \in Objects, m \in Locations : <<p, m>> \in old => <<p, m>> \in table
  BY <1>5
<1> HIDE DEF old
<1>9. /\ marked' \subseteq Objects /\ value' \in [Locations -> Objects \cup {Nil}] /\ status' \in [Locations -> {"raw", "weak"}]
      /\ value'[l] = o /\ status'[l] = "weak"
      /\ \A m \in Locations : m # l => value'[m] = value[m] /\ status'[m] = status[m]
  BY <1>0, <1>1, <1>2, WeakTypes
<1>10. UNCHANGED phase /\ marked \subseteq marked' /\ (o # Nil => o \in marked')
  BY <1>0, <1>1 DEF heap
<1>11. TableInv'
  <2>1. ASSUME NEW p \in Objects, NEW m \in Locations
        PROVE  /\ <<p, m>> \in table' <=> status'[m] = "weak" /\ value'[m] = p
               /\ <<p, m>> \in table' => phase'[p] # "free" /\ p \in marked'
    <3>1. CASE m = l
      BY <1>1, <1>3, <1>6, <1>9, <1>10, <3>1, WeakTypes
    <3>2. CASE m # l
      <4>1. <<p, m>> \in table' <=> <<p, m>> \in table
        BY <1>4, <1>6, <3>2
      <4> QED
        BY <1>9, <1>10, <3>2, <4>1, WeakTypes DEF TableInv
    <3> QED
      BY <3>1, <3>2
  <2> QED
    BY <2>1 DEF TableInv
<1>12. \A p \in Objects, m \in Locations : <<p, m>> \in table' => phase[p] = "live" \/ \E n \in Locations : <<p, n>> \in table
  BY <1>1, <1>6, <1>8, WeakTypes
<1>13. \A u \in Threads : u # t => Fits(op[u], status')
  <2>1. status[l] = "weak" \/ l \in Exclusive(op[t])
    BY <1>0, WeakTypes DEF Fits, Exclusive, Stores
  <2> QED
    BY <1>0, <1>2, <2>1, StatusOthers
<1>14. PICK x \in Op : /\ op' = [op EXCEPT ![t] = x] /\ Locals(x) /\ x.kind \notin {"clear", "load", "copy"} /\ Fits(x, status')
                       /\ Exclusive(x) \subseteq Exclusive(op[t]) \cup {Nil} /\ Used(x) \subseteq Used(op[t]) \cup {Nil}
                       /\ x.pc \notin {"lock", "locked"}
  <2>1. CASE op[t].kind # "copied"
    <3>1. op' = [op EXCEPT ![t] = Idle]
      BY <2>1 DEF StoreWeak, Return
    <3> QED
      BY <3>1, IdleIsOp, IdleUses
  <2>2. CASE op[t].kind = "copied"
    <3> DEFINE x == [op[t] EXCEPT !.pc = "release"]
    <3>1. op' = [op EXCEPT ![t] = x]
      BY <2>2 DEF StoreWeak, Goto
    <3>2. x \in Op
      BY <1>0 DEF Op, Pcs
    <3>3. x.kind = op[t].kind /\ x.loc = op[t].loc /\ x.dst = op[t].dst /\ x.new = op[t].new /\ x.pc = "release" /\ x.obj = op[t].obj
      BY <1>0 DEF Op
    <3> HIDE DEF x
    <3>4. Locals(x)
      BY <1>0, <2>2, <3>3 DEF Locals, Stores
    <3>5. Exclusive(x) = Exclusive(op[t]) /\ Used(x) = Used(op[t])
      BY <3>3 DEF Exclusive, Used
    <3>6. Fits(x, status')
      BY <2>2, <3>3 DEF Fits
    <3> QED
      BY <2>2, <3>1, <3>2, <3>3, <3>4, <3>5, <3>6
  <2> QED
    BY <2>1, <2>2
<1>15. op'[t] = x /\ \A u \in Threads : u # t => op'[u] = op[u]
  BY <1>14, MoveLocals
<1>16. LockInv' /\ lock' \in [Stripes -> Threads \cup {Nil}]
  BY <1>0, <1>14, <1>15, LockUnlock
<1>17. UNCHANGED heap
  BY <1>0
<1>18. UNCHANGED inited
  BY <1>0
<1> HIDE DEF l
<1> QED
  BY <1>7, <1>9, <1>11, <1>12, <1>13, <1>14, <1>16, <1>17, <1>18, SameHeap, EndStep

LEMMA DestroyWeakKeeps == ASSUME IndInv, NEW t \in Threads, DestroyWeak(t) PROVE IndInv'
<1> DEFINE l == op[t].loc
<1>0. /\ op[t] \in Op /\ Locals(op[t]) /\ op[t].pc = "locked" /\ op[t].kind = "destroy" /\ Unchanged(t)
      /\ UNCHANGED <<heap, inited, marked, value>> /\ unlockTwo(t) /\ status' = [status EXCEPT ![l] = "raw"]
      /\ table' = table \ {<<op[t].obj, l>>} /\ op' = [op EXCEPT ![t] = Idle]
  BY OpType DEF DestroyWeak, At, Return
<1>1. l \in Locations /\ value[l] = op[t].obj /\ l \in Exclusive(op[t])
  BY <1>0 DEF Op, Locals, Unchanged, HaveOld, Exclusive
<1>2. \A p \in Objects, m \in Locations : <<p, m>> \in table' <=> <<p, m>> \in table /\ m # l
  BY <1>0, <1>1, WeakTypes DEF TableInv
<1>3. /\ table' \subseteq Objects \X Locations /\ status' \in [Locations -> {"raw", "weak"}]
      /\ status'[l] = "raw" /\ \A m \in Locations : m # l => status'[m] = status[m]
  BY <1>0, <1>1, WeakTypes
<1>4. UNCHANGED phase
  BY <1>0 DEF heap
<1>5. TableInv'
  <2>1. ASSUME NEW p \in Objects, NEW m \in Locations
        PROVE  /\ <<p, m>> \in table' <=> status'[m] = "weak" /\ value'[m] = p
               /\ <<p, m>> \in table' => phase'[p] # "free" /\ p \in marked'
    BY <1>0, <1>2, <1>3, <1>4, WeakTypes DEF TableInv
  <2> QED
    BY <2>1 DEF TableInv
<1>6. \A u \in Threads : u # t => Fits(op[u], status')
  BY <1>0, <1>1, StatusOthers
<1>7. op'[t] = Idle /\ \A u \in Threads : u # t => op'[u] = op[u]
  BY <1>0, IdleIsOp, MoveLocals
<1>8. LockInv' /\ lock' \in [Stripes -> Threads \cup {Nil}]
  BY <1>0, <1>7, IdleIsOp, LockUnlock
<1>9. \A p \in Objects, m \in Locations : <<p, m>> \in table' => \E n \in Locations : <<p, n>> \in table
  BY <1>2
<1>10. marked' \subseteq Objects /\ value' \in [Locations -> Objects \cup {Nil}]
  BY <1>0, WeakTypes
<1>11. op' = [op EXCEPT ![t] = Idle] /\ UNCHANGED heap /\ UNCHANGED inited
  BY <1>0
<1> HIDE DEF l
<1> QED
  BY <1>3, <1>5, <1>6, <1>8, <1>9, <1>10, <1>11, SameHeap, IdleIsOp, IdleUses, EndStep

LEMMA MoveWeakKeeps == ASSUME IndInv, NEW t \in Threads, MoveWeak(t) PROVE IndInv'
<1> DEFINE o == op[t].obj
           l == op[t].loc
           d == op[t].dst
<1>0. /\ op[t] \in Op /\ Locals(op[t]) /\ op[t].pc = "locked" /\ op[t].kind = "move" /\ Unchanged(t)
      /\ UNCHANGED <<heap, inited, marked>> /\ unlockTwo(t) /\ status' = [status EXCEPT ![d] = "weak"]
      /\ table' = (table \ {<<o, l>>}) \cup {<<o, d>>} /\ value' = [value EXCEPT ![d] = o, ![l] = Nil]
      /\ op' = [op EXCEPT ![t] = Idle]
  BY OpType DEF MoveWeak, At, Return
<1>1. /\ l \in Locations /\ d \in Locations /\ o \in Objects /\ value[l] = o /\ d \in Exclusive(op[t])
      /\ status[l] = "weak" /\ status[d] = "raw" /\ l # d
  BY <1>0, WeakTypes DEF Op, Locals, Unchanged, Exclusive, Fits
<1>2. \A p \in Objects : <<p, d>> \notin table /\ (<<p, l>> \in table <=> p = o)
  BY <1>1, WeakTypes DEF TableInv
<1>3. \A p \in Objects, m \in Locations : <<p, m>> \in table' <=> (<<p, m>> \in table /\ m # l) \/ (p = o /\ m = d)
  BY <1>0, <1>1, <1>2
<1>4. /\ table' \subseteq Objects \X Locations /\ status' \in [Locations -> {"raw", "weak"}]
      /\ value' \in [Locations -> Objects \cup {Nil}]
  BY <1>0, <1>1, WeakTypes
<1>5. /\ status'[d] = "weak" /\ value'[d] = o /\ value'[l] = Nil /\ status'[l] = "weak"
      /\ \A m \in Locations : m # l /\ m # d => value'[m] = value[m] /\ status'[m] = status[m]
  BY <1>0, <1>1, WeakTypes
<1>6. UNCHANGED phase /\ UNCHANGED marked
  BY <1>0 DEF heap
<1>7. TableInv'
  <2>1. ASSUME NEW p \in Objects, NEW m \in Locations
        PROVE  /\ <<p, m>> \in table' <=> status'[m] = "weak" /\ value'[m] = p
               /\ <<p, m>> \in table' => phase'[p] # "free" /\ p \in marked'
    <3>0. phase[o] # "free" /\ o \in marked
      BY <1>1, <1>2, WeakTypes DEF TableInv
    <3>1. CASE m = l
      BY <1>1, <1>3, <1>5, <3>1, WeakTypes
    <3>3. CASE m = d
      BY <1>1, <1>2, <1>3, <1>5, <1>6, <3>0, <3>3
    <3>2. CASE m # l /\ m # d
      BY <1>3, <1>5, <1>6, <3>2, WeakTypes DEF TableInv
    <3> QED
      BY <3>1, <3>2, <3>3
  <2> QED
    BY <2>1 DEF TableInv
<1>8. \A u \in Threads : u # t => Fits(op[u], status')
  BY <1>0, <1>1, StatusOthers
<1>9. op'[t] = Idle /\ \A u \in Threads : u # t => op'[u] = op[u]
  BY <1>0, IdleIsOp, MoveLocals
<1>10. LockInv' /\ lock' \in [Stripes -> Threads \cup {Nil}]
  BY <1>0, <1>9, IdleIsOp, LockUnlock
<1>11. \A p \in Objects, m \in Locations : <<p, m>> \in table' => \E n \in Locations : <<p, n>> \in table
  BY <1>1, <1>2, <1>3
<1>12. marked' \subseteq Objects
  BY <1>6, WeakTypes
<1>13. op' = [op EXCEPT ![t] = Idle] /\ UNCHANGED heap /\ UNCHANGED inited
  BY <1>0
<1> HIDE DEF l, d, o
<1> QED
  BY <1>4, <1>7, <1>8, <1>10, <1>11, <1>12, <1>13, SameHeap, IdleIsOp, IdleUses, EndStep

----------------------------------------------------------------------------
(* Counting references.                                                    *)

LEMMA OwnedChange ==
  ASSUME TypeOK, NEW t \in Threads, NEW o \in Objects, NEW n \in 0..MaxOwned, owned' = [owned EXCEPT ![t][o] = n]
  PROVE  /\ owned' \in [Threads -> [Objects -> 0..MaxOwned]] /\ owned'[t][o] = n
         /\ \A u \in Threads, p \in Objects : u # t \/ p # o => owned'[u][p] = owned[u][p]
         /\ \A u \in Threads : u # t => owned'[u] = owned[u]
  BY DEF TypeOK

LEMMA RoomFor ==
  ASSUME TypeOK, NEW t \in Threads, MayOwn(t), NEW o \in Objects
  PROVE  owned[t][o] < MaxOwned
<1>0. owned[t][o] \in 0..MaxOwned /\ MaxOwned \in Nat
  BY ConstantsOK DEF TypeOK
<1> SUFFICES ASSUME owned[t][o] = MaxOwned
             PROVE  FALSE
  BY <1>0
<1> DEFINE S == {o} \X (1..MaxOwned)
<1>1. IsFiniteSet(1..MaxOwned) /\ Cardinality(1..MaxOwned) = MaxOwned /\ IsFiniteSet({o}) /\ Cardinality({o}) = 1
  <2>1. MaxOwned \in Int /\ 1 \in Int /\ ~(1 > MaxOwned)
    BY ConstantsOK
  <2>2. IsFiniteSet(1..MaxOwned) /\ Cardinality(1..MaxOwned) = IF 1 > MaxOwned THEN 0 ELSE MaxOwned - 1 + 1
    BY <2>1, FS_Interval
  <2>3. Cardinality(1..MaxOwned) = MaxOwned
    BY <2>1, <2>2
  <2>4. IsFiniteSet({o}) /\ Cardinality({o}) = 1
    BY FS_Singleton
  <2> QED
    BY <2>2, <2>3, <2>4
<1>2. IsFiniteSet(S) /\ Cardinality(S) = MaxOwned
  <2>1. IsFiniteSet(S) /\ Cardinality(S) = Cardinality({o}) * Cardinality(1..MaxOwned)
    BY <1>1, FS_Product
  <2>2. Cardinality(S) = 1 * MaxOwned
    BY ONLY <1>1, <2>1
  <2> QED
    BY <1>0, <2>1, <2>2
<1>3. S \subseteq OwnedBy(t)
  BY <1>0 DEF OwnedBy
<1>4. IsFiniteSet(OwnedBy(t))
  <2>1. IsFiniteSet(Objects \X (1..MaxOwned))
    BY <1>1, ConstantsOK, FS_Product
  <2>2. OwnedBy(t) \subseteq Objects \X (1..MaxOwned)
    BY DEF OwnedBy
  <2> QED
    BY <2>1, <2>2, FS_Subset
<1>5. Cardinality(S) <= Cardinality(OwnedBy(t)) /\ Cardinality(OwnedBy(t)) \in Nat
  BY <1>3, <1>4, FS_Subset, FS_CardinalityType
<1> QED
  BY <1>0, <1>2, <1>5 DEF MayOwn

LEMMA OwnersFinite ==
  ASSUME NEW o \in Objects
  PROVE  IsFiniteSet(Owners(o)) /\ References(o) \in Nat
<1>1. IsFiniteSet(Threads \X (1..MaxOwned))
  <2>1. IsFiniteSet(Threads) /\ IsFiniteSet(1..MaxOwned)
    BY ConstantsOK, FS_Interval
  <2> QED
    BY <2>1, FS_Product
<1>2. Owners(o) \subseteq Threads \X (1..MaxOwned)
  BY DEF Owners
<1> QED
  BY <1>1, <1>2, FS_Subset, FS_CardinalityType DEF References

LEMMA OwnersMember ==
  ASSUME TypeOK, NEW t \in Threads, NEW o \in Objects, NEW i \in Nat \ {0}
  PROVE  <<t, i>> \in Owners(o) <=> i <= owned[t][o]
<1>1. owned[t][o] \in 0..MaxOwned /\ MaxOwned \in Nat
  BY ConstantsOK DEF TypeOK
<1> QED
  BY <1>1 DEF Owners

LEMMA ReferencesPositive ==
  ASSUME TypeOK, NEW o \in Objects
  PROVE  References(o) > 0 <=> \E t \in Threads : owned[t][o] > 0
<1>1. References(o) \in Nat /\ (References(o) = 0 <=> Owners(o) = {})
  BY OwnersFinite, FS_EmptySet DEF References
<1>2. \A t \in Threads : owned[t][o] \in 0..MaxOwned /\ MaxOwned \in Nat
  BY ConstantsOK DEF TypeOK
<1>3. Owners(o) # {} => \E t \in Threads : owned[t][o] > 0
  BY <1>2 DEF Owners
<1>4. ASSUME NEW t \in Threads, owned[t][o] > 0
      PROVE  Owners(o) # {}
  <2>1. <<t, 1>> \in Owners(o)
    BY <1>2, <1>4, OwnersMember
  <2> QED
    BY <2>1
<1> QED
  BY <1>1, <1>3, <1>4

LEMMA LastReference ==
  ASSUME TypeOK, NEW t \in Threads, NEW o \in Objects, owned[t][o] > 0, ~(References(o) > 1)
  PROVE  owned[t][o] = 1 /\ (\A u \in Threads : u # t => owned[u][o] = 0) /\ References(o) = 1
<1>0. \A u \in Threads : owned[u][o] \in 0..MaxOwned /\ MaxOwned \in Nat
  BY ConstantsOK DEF TypeOK
<1>1. References(o) = 1
  BY OwnersFinite, ReferencesPositive
<1>2. PICK r : Owners(o) = {r}
  BY <1>1, OwnersFinite, FS_Singleton DEF References
<1>3. <<t, 1>> \in Owners(o)
  BY <1>0, OwnersMember
<1>4. \A u \in Threads, i \in Nat \ {0} : <<u, i>> \in Owners(o) => u = t /\ i = 1
  BY <1>2, <1>3
<1>5. <<t, 2>> \notin Owners(o) /\ \A u \in Threads : u # t => <<u, 1>> \notin Owners(o)
  BY <1>4
<1>6. ~(2 <= owned[t][o])
  BY <1>5, OwnersMember
<1>7. ASSUME NEW u \in Threads, u # t
      PROVE  ~(1 <= owned[u][o])
  <2>1. <<u, 1>> \in Owners(o) <=> 1 <= owned[u][o]
    BY OwnersMember
  <2> QED
    BY <1>5, <1>7, <2>1
<1> QED
  BY <1>0, <1>1, <1>6, <1>7

LEMMA AnotherReference ==
  ASSUME TypeOK, NEW t \in Threads, NEW o \in Objects, owned[t][o] > 0, References(o) > 1
  PROVE  owned[t][o] > 1 \/ \E u \in Threads : u # t /\ owned[u][o] > 0
<1>0. \A u \in Threads : owned[u][o] \in 0..MaxOwned /\ MaxOwned \in Nat
  BY ConstantsOK DEF TypeOK
<1> SUFFICES ASSUME owned[t][o] = 1, \A u \in Threads : u # t => owned[u][o] = 0
             PROVE  FALSE
  BY <1>0
<1>1. Owners(o) = {<<t, 1>>}
  <2>1. <<t, 1>> \in Owners(o)
    BY <1>0, OwnersMember
  <2>2. ASSUME NEW r \in Owners(o)
        PROVE  r = <<t, 1>>
    <3>1. r = <<r[1], r[2]>> /\ r[1] \in Threads /\ r[2] \in 1..MaxOwned /\ r[2] <= owned[r[1]][o]
      BY DEF Owners
    <3>2. r[1] = t
      BY <1>0, <3>1
    <3>3. r[2] = 1
      BY <1>0, <3>1, <3>2
    <3> QED
      BY <3>1, <3>2, <3>3
  <2> QED
    BY <2>1, <2>2
<1>2. Cardinality({<<t, 1>>}) = 1
  BY FS_Singleton
<1>3. References(o) = 1
  BY ONLY <1>1, <1>2 DEF References
<1> QED
  BY <1>3

LEMMA ReferencesChange ==
  ASSUME TypeOK, NEW t \in Threads, NEW o \in Objects, NEW e \in {-1, 1}, owned[t][o] + e \in 0..MaxOwned,
         owned' = [owned EXCEPT ![t][o] = owned[t][o] + e], NEW p \in Objects
  PROVE  References(p)' = References(p) + (IF p = o THEN e ELSE 0)
<1>0. owned[t][o] \in 0..MaxOwned /\ MaxOwned \in Nat /\ IsFiniteSet(Owners(p)) /\ References(p) \in Nat
  BY ConstantsOK, OwnersFinite DEF TypeOK
<1>1. \A u \in Threads : owned'[u][p] = IF u = t /\ p = o THEN owned[t][o] + e ELSE owned[u][p]
  BY OwnedChange
<1>2. CASE p # o
  <2>1. Owners(p)' = Owners(p)
    BY <1>1, <1>2 DEF Owners
  <2> QED
    BY <1>0, <1>2, <2>1 DEF References
<1>3. CASE p = o
  <2> DEFINE n == IF e = 1 THEN owned[t][o] + 1 ELSE owned[t][o]
             x == <<t, n>>
  <2>1. n \in 1..MaxOwned /\ x \in Threads \X (1..MaxOwned)
    BY <1>0
  <2>2. ASSUME NEW r \in Threads \X (1..MaxOwned), r # x
        PROVE  r \in Owners(p)' <=> r \in Owners(p)
    <3>1. r = <<r[1], r[2]>> /\ r[1] \in Threads /\ r[2] \in 1..MaxOwned
      BY <2>2
    <3>2. owned[r[1]][p] \in 0..MaxOwned
      BY <3>1 DEF TypeOK
    <3>3. r[2] <= owned'[r[1]][p] <=> r[2] <= owned[r[1]][p]
      BY <1>0, <1>1, <1>3, <2>1, <2>2, <3>1, <3>2
    <3> QED
      BY <2>2, <3>3 DEF Owners
  <2>3. Owners(p) \ {x} = Owners(p)' \ {x}
    BY <2>2 DEF Owners
  <2>4. (x \in Owners(p)' <=> n <= owned'[t][p]) /\ (x \in Owners(p) <=> n <= owned[t][p])
    BY <2>1 DEF Owners
  <2> HIDE DEF n, x
  <2>5. CASE e = 1
    <3>1. x \in Owners(p)' /\ x \notin Owners(p)
      BY <1>0, <1>1, <1>3, <2>4, <2>5 DEF n
    <3>2. Owners(p)' = Owners(p) \cup {x}
      BY <2>3, <3>1
    <3>3. Cardinality(Owners(p) \cup {x}) = Cardinality(Owners(p)) + 1
      BY <1>0, <3>1, FS_AddElement
    <3> QED
      BY <1>3, <2>5, <3>2, <3>3 DEF References
  <2>6. CASE e = -1
    <3>1. x \notin Owners(p)' /\ x \in Owners(p)
      BY <1>0, <1>1, <1>3, <2>4, <2>6 DEF n
    <3>2. Owners(p)' = Owners(p) \ {x}
      BY <2>3, <3>1
    <3>3. Cardinality(Owners(p) \ {x}) = Cardinality(Owners(p)) - 1
      BY <1>0, <3>1, FS_RemoveElement
    <3> QED
      BY <1>0, <1>3, <2>6, <3>2, <3>3 DEF References
  <2> QED
    BY <2>5, <2>6
<1> QED
  BY <1>2, <1>3

----------------------------------------------------------------------------
(* Objects are loaded, created, released and deallocated.                  *)

LEMMA LoadWeakRetainedKeeps == ASSUME IndInv, NEW t \in Threads, LoadWeakRetained(t) PROVE IndInv'
<1> DEFINE o == op[t].obj
<1>0. /\ op[t] \in Op /\ Locals(op[t]) /\ op[t].pc = "locked" /\ op[t].kind \in {"load", "copy"}
      /\ UNCHANGED <<phase, disposing, inited, marked, table>> /\ unlockTwo(t) /\ TypeOK
  BY OpType DEF LoadWeakRetained, At, Loads, IndInv, TypeInv
<1>1. o \in Objects /\ op[t].loc \in Locations /\ (op[t].kind = "copy" => op[t].dst \in Locations)
  BY <1>0 DEF Op, Locals
<1>2. PICK ok \in Viable(o) :
        IF ok
        THEN /\ owned' = [owned EXCEPT ![t][o] = owned[t][o] + 1]
             /\ Loaded(t, o) /\ UNCHANGED <<value, status>>
        ELSE /\ UNCHANGED owned
             /\ IF op[t].kind = "load" THEN UNCHANGED <<value, status>>
                ELSE /\ value' = [value EXCEPT ![op[t].dst] = Nil]
                     /\ status' = [status EXCEPT ![op[t].dst] = "weak"]
             /\ Return(t)
  BY DEF LoadWeakRetained
<1>3. \A p \in Objects, m \in Locations : <<p, m>> \in table' => \E n \in Locations : <<p, n>> \in table
  BY <1>0
<1>4. marked' \subseteq Objects /\ table' \subseteq Objects \X Locations
  BY <1>0, WeakTypes
<1>5. CASE ok
  <2>0. phase[o] = "live" /\ MayOwn(t)
    BY <1>0, <1>2, <1>5 DEF Viable, IndInv, RoomInv, Loads
  <2>1. owned[t][o] < MaxOwned /\ owned[t][o] \in 0..MaxOwned /\ MaxOwned \in Nat
    BY <1>0, <1>1, <2>0, RoomFor, ConstantsOK DEF TypeOK
  <2>2. owned[t][o] + 1 \in 0..MaxOwned
    BY <2>1
  <2>3. owned' = [owned EXCEPT ![t][o] = owned[t][o] + 1] /\ UNCHANGED <<value, status, phase, marked, table>>
    BY <1>0, <1>2, <1>5
  <2>4. /\ owned' \in [Threads -> [Objects -> 0..MaxOwned]] /\ owned'[t][o] = owned[t][o] + 1
        /\ \A u \in Threads, p \in Objects : u # t \/ p # o => owned'[u][p] = owned[u][p]
        /\ \A u \in Threads : u # t => owned'[u] = owned[u]
    BY <1>0, <1>1, <2>2, <2>3, OwnedChange
  <2>5. OwnInv'
    <3>1. owned'[t][o] > 0
      BY <2>1, <2>4
    <3>2. \A p \in Objects : p # o => \A u \in Threads : owned'[u][p] = owned[u][p]
      BY <2>4
    <3> QED
      BY <2>0, <2>3, <3>1, <3>2 DEF IndInv, OwnInv
  <2>6. /\ value' \in [Locations -> Objects \cup {Nil}] /\ status' \in [Locations -> {"raw", "weak"}] /\ TableInv'
        /\ \A u \in Threads : Fits(op[u], status')
    BY <2>3, WeakTypes DEF TableInv
  <2>7. PICK x \in Op : /\ op' = [op EXCEPT ![t] = x] /\ Locals(x) /\ x.kind \notin {"clear", "load", "copy"} /\ Fits(x, status')
                        /\ Exclusive(x) \subseteq Exclusive(op[t]) \cup {Nil} /\ Used(x) \subseteq Used(op[t]) \cup {Nil}
                        /\ x.pc \notin {"lock", "locked"}
    <3>1. CASE op[t].kind = "load"
      <4>1. op' = [op EXCEPT ![t] = Idle]
        BY <1>2, <1>5, <3>1 DEF Loaded, Return
      <4> QED
        BY <4>1, IdleIsOp, IdleUses
    <3>2. CASE op[t].kind = "copy"
      <4> DEFINE x == [Idle EXCEPT !.pc = "read", !.kind = "copied", !.loc = op[t].dst, !.new = o]
      <4>1. op' = [op EXCEPT ![t] = x]
        BY <1>2, <1>5, <3>2 DEF Loaded
      <4>2. x \in Op
        BY <1>1, <3>2 DEF Idle, Op, Pcs, Kinds, Stores
      <4>3. x.pc = "read" /\ x.kind = "copied" /\ x.loc = op[t].dst /\ x.dst = Nil /\ x.new = o
        BY DEF Idle
      <4> HIDE DEF x
      <4>4. Locals(x)
        BY <1>1, <3>2, <4>3, ConstantsOK DEF Locals
      <4>5. Exclusive(x) \subseteq Exclusive(op[t]) \cup {Nil} /\ Used(x) \subseteq Used(op[t]) \cup {Nil}
        BY <4>3 DEF Exclusive, Used
      <4>6. Fits(x, status')
        BY <2>6, <3>2, <4>3 DEF Fits
      <4> QED
        BY <4>1, <4>2, <4>3, <4>4, <4>5, <4>6
    <3> QED
      BY <1>0, <3>1, <3>2
  <2>8. op'[t] = x /\ \A u \in Threads : u # t => op'[u] = op[u]
    BY <2>7, MoveLocals
  <2>9. LockInv' /\ lock' \in [Stripes -> Threads \cup {Nil}]
    BY <1>0, <2>7, <2>8, LockUnlock
  <2>10. UNCHANGED <<phase, disposing, inited>>
    BY <1>0
  <2> HIDE DEF o
  <2> QED
    BY <1>3, <1>4, <2>4, <2>5, <2>6, <2>7, <2>9, <2>10, EndStep
<1>6. CASE ~ok
  <2>1. op' = [op EXCEPT ![t] = Idle] /\ UNCHANGED heap
    BY <1>0, <1>2, <1>6 DEF Return, heap
  <2>2. op'[t] = Idle /\ \A u \in Threads : u # t => op'[u] = op[u]
    BY <2>1, IdleIsOp, MoveLocals
  <2>3. LockInv' /\ lock' \in [Stripes -> Threads \cup {Nil}]
    BY <1>0, <2>2, IdleIsOp, LockUnlock
  <2>4. /\ value' \in [Locations -> Objects \cup {Nil}] /\ status' \in [Locations -> {"raw", "weak"}]
        /\ TableInv' /\ \A u \in Threads : u # t => Fits(op[u], status')
    <3>1. CASE op[t].kind = "load"
      <4>1. UNCHANGED <<value, status, phase, marked, table>>
        BY <1>0, <1>2, <1>6, <3>1
      <4> QED
        BY <4>1, WeakTypes DEF TableInv
    <3>2. CASE op[t].kind = "copy"
      <4>1. op[t].dst \in Locations /\ op[t].dst \in Exclusive(op[t]) /\ status[op[t].dst] = "raw"
        BY <1>1, <3>2, WeakTypes DEF Exclusive, Fits
      <4>2. value' = [value EXCEPT ![op[t].dst] = Nil] /\ status' = [status EXCEPT ![op[t].dst] = "weak"]
        BY <1>2, <1>6, <3>2
      <4>3. UNCHANGED <<phase, marked, table>>
        BY <1>0
      <4> QED
        BY <4>1, <4>2, <4>3, NilVariable
    <3> QED
      BY <1>0, <3>1, <3>2
  <2>5. UNCHANGED inited
    BY <1>0
  <2> QED
    BY <1>3, <1>4, <2>1, <2>3, <2>4, <2>5, SameHeap, IdleIsOp, IdleUses, EndStep
<1> QED
  BY <1>5, <1>6

\* The conjuncts that only the variables and the locks are about.
LEMMA SameWeak ==
  ASSUME IndInv, UNCHANGED <<weak, lock, op>>
  PROVE  LocalsInv' /\ StatusInv' /\ ExclusiveInv' /\ LockInv'
<1>1. UNCHANGED <<marked, value, status, table>>
  BY DEF weak
<1>2. \A u \in Threads : Tables(u)' = Tables(u)
  BY TablesSame
<1>3. LockInv'
  BY <1>2 DEF IndInv, LockInv, Missing
<1>4. LocalsInv' /\ StatusInv' /\ ExclusiveInv'
  BY <1>1 DEF IndInv, LocalsInv, StatusInv, ExclusiveInv
<1> QED
  BY <1>3, <1>4

LEMMA CreateKeeps == ASSUME IndInv, NEW t \in Threads, Create(t) PROVE IndInv'
<1>1. PICK o \in Objects :
        /\ At(t, "idle") /\ phase[o] = "free" /\ MayOwn(t)
        /\ phase' = [phase EXCEPT ![o] = "live"]
        /\ owned' = [owned EXCEPT ![t][o] = 1]
        /\ UNCHANGED <<disposing, inited, weak, lock, op>>
  BY DEF Create
<1>0. TypeOK /\ UNCHANGED <<marked, value, status, table>> /\ 1 \in 0..MaxOwned /\ Locals(op[t])
  BY <1>1, OpType, ConstantsOK DEF IndInv, TypeInv, weak
<1>2. /\ owned' \in [Threads -> [Objects -> 0..MaxOwned]] /\ owned'[t][o] = 1
      /\ \A u \in Threads, p \in Objects : u # t \/ p # o => owned'[u][p] = owned[u][p]
      /\ \A u \in Threads : u # t => owned'[u] = owned[u]
  BY <1>0, <1>1, OwnedChange
<1>3. phase' \in [Objects -> {"free", "live", "dealloc"}] /\ phase'[o] = "live" /\ \A p \in Objects : p # o => phase'[p] = phase[p]
  BY <1>0, <1>1 DEF TypeOK
<1>4. TypeInv'
  BY <1>0, <1>1, <1>2, <1>3 DEF IndInv, TypeInv, TypeOK
<1>5. TableInv'
  BY <1>0, <1>3, WeakTypes DEF TableInv
<1>6. OwnInv'
  <2>1. owned'[t][o] > 0
    BY <1>2
  <2>2. \A p \in Objects : p # o => \A u \in Threads : owned'[u][p] = owned[u][p]
    BY <1>2
  <2> QED
    BY <1>3, <2>1, <2>2 DEF IndInv, OwnInv
<1>7. DisposeInv'
  <2>1. \A u \in Threads : \A i \in DOMAIN disposing[u] : disposing[u][i] \in Objects /\ disposing[u][i] # o
    BY <1>1 DEF IndInv, DisposeInv, TypeInv
  <2> QED
    BY <1>1, <1>3, <2>1 DEF IndInv, DisposeInv
<1>8. RoomInv'
  <2>1. ASSUME NEW u \in Threads, Loads(u)'
        PROVE  MayOwn(u)'
    <3>1. Loads(u) /\ u # t
      BY <1>0, <1>1, <2>1 DEF Loads, At, Locals
    <3> QED
      BY <1>2, <3>1 DEF IndInv, RoomInv, MayOwn, OwnedBy
  <2> QED
    BY <2>1 DEF RoomInv
<1>9. ClearInv'
  BY <1>0, <1>1 DEF IndInv, ClearInv
<1> QED
  BY <1>1, <1>4, <1>5, <1>6, <1>7, <1>8, <1>9, SameWeak DEF IndInv

\* A step that leaves the variables alone and ends the call, if there was one.
LEMMA IdleStep ==
  ASSUME IndInv, NEW t \in Threads, op' = [op EXCEPT ![t] = Idle], op[t].pc \notin {"lock", "locked"},
         UNCHANGED <<inited, lock, value, status, table>>,
         phase' \in [Objects -> {"free", "live", "dealloc"}], owned' \in [Threads -> [Objects -> 0..MaxOwned]],
         disposing' \in [Threads -> Seq(Objects)], marked' \subseteq Objects, OwnInv', DisposeInv',
         \A u \in Threads : u # t => owned'[u] = owned[u] /\ disposing'[u] = disposing[u],
         \A o \in Objects, l \in Locations : <<o, l>> \in table => phase'[o] # "free" /\ o \in marked'
  PROVE  IndInv'
<1>1. LocalsInv' /\ op' \in [Threads -> Op] /\ op'[t] = Idle /\ \A u \in Threads : u # t => op'[u] = op[u]
  BY IdleIsOp, MoveLocals
<1>2. TypeInv'
  BY <1>1 DEF IndInv, TypeInv, TypeOK, Op
<1>3. TableInv'
  BY WeakTypes DEF TableInv
<1>4. StatusInv'
  BY <1>1, WeakTypes, IdleUses, MoveStatus
<1>5. ExclusiveInv'
  BY <1>1, IdleUses, MoveExclusive DEF IndInv
<1>6. RoomInv'
  <2>1. ASSUME NEW u \in Threads, Loads(u)'
        PROVE  MayOwn(u)'
    <3>1. u # t /\ Loads(u)
      BY <1>1, <2>1, IdleIsOp DEF Loads
    <3> QED
      BY <3>1 DEF IndInv, RoomInv, MayOwn, OwnedBy
  <2> QED
    BY <2>1 DEF RoomInv
<1>7. ClearInv'
  <2>1. ASSUME NEW u \in Threads
        PROVE  /\ op'[u].kind = "clear" => disposing'[u] # <<>> /\ op'[u].obj = disposing'[u][1]
               /\ op'[u].pc = "free" => \A l \in Locations : <<op'[u].obj, l>> \notin table'
    <3>1. CASE u = t
      BY <1>1, <3>1, IdleIsOp
    <3>2. CASE u # t
      BY <1>1, <3>2 DEF IndInv, ClearInv
    <3> QED
      BY <3>1, <3>2
  <2> QED
    BY <2>1 DEF ClearInv
<1>8. LockInv'
  BY <1>1, <1>2, IdleIsOp, LockFrame DEF TypeInv
<1> QED
  BY <1>1, <1>2, <1>3, <1>4, <1>5, <1>6, <1>7, <1>8 DEF IndInv

\* The object that the thread deallocates is put before the others.
LEMMA PushDisposing ==
  ASSUME IndInv, NEW t \in Threads, NEW o \in Objects, phase[o] = "live",
         phase' = [phase EXCEPT ![o] = "dealloc"], disposing' = [disposing EXCEPT ![t] = <<o>> \o disposing[t]]
  PROVE  /\ disposing' \in [Threads -> Seq(Objects)] /\ DisposeInv'
         /\ \A u \in Threads : u # t => disposing'[u] = disposing[u]
<1>0. phase \in [Objects -> {"free", "live", "dealloc"}] /\ disposing \in [Threads -> Seq(Objects)] /\ DisposeInv
  BY DEF IndInv, TypeInv, TypeOK
<1>1. disposing[t] \in Seq(Objects) /\ <<o>> \in Seq(Objects) /\ Len(<<o>>) = 1
  BY <1>0
<1> DEFINE q == <<o>> \o disposing[t]
<1>2. q \in Seq(Objects) /\ Len(q) = Len(disposing[t]) + 1
  BY <1>1
<1>3. q[1] = o /\ \A i \in 2..Len(q) : q[i] = disposing[t][i - 1] /\ i - 1 \in DOMAIN disposing[t]
  BY <1>1, <1>2
<1>4. disposing' \in [Threads -> Seq(Objects)] /\ disposing'[t] = q /\ \A u \in Threads : u # t => disposing'[u] = disposing[u]
  BY <1>0, <1>2
<1>5. DOMAIN q = 1..Len(q) /\ Len(q) \in Nat
  BY <1>2
<1> HIDE DEF q
<1>6. ASSUME NEW u \in Threads, NEW i \in DOMAIN disposing[u]
      PROVE  disposing[u][i] \in Objects /\ phase[disposing[u][i]] = "dealloc" /\ disposing[u][i] # o
  BY <1>0 DEF DisposeInv
<1>7. phase'[o] = "dealloc" /\ \A p \in Objects : p # o => phase'[p] = phase[p]
  BY <1>0
<1>8. ASSUME NEW u \in Threads, NEW i \in DOMAIN disposing'[u]
      PROVE  \/ u = t /\ i = 1 /\ disposing'[u][i] = o
             \/ u = t /\ i - 1 \in DOMAIN disposing[u] /\ disposing'[u][i] = disposing[u][i - 1] /\ i \in Int
             \/ u # t /\ i \in DOMAIN disposing[u] /\ disposing'[u][i] = disposing[u][i]
  <2>1. CASE u = t
    <3>1. i \in 1..Len(q) /\ disposing'[u][i] = q[i]
      BY <1>4, <1>5, <2>1
    <3>2. i \in Int /\ (i = 1 \/ i \in 2..Len(q))
      BY <1>5, <3>1
    <3> QED
      BY <1>3, <2>1, <3>1, <3>2
  <2>2. CASE u # t
    BY <1>4, <2>2
  <2> QED
    BY <2>1, <2>2
<1>9. ASSUME NEW u \in Threads, NEW i \in DOMAIN disposing'[u]
      PROVE  phase'[disposing'[u][i]] = "dealloc"
  BY <1>6, <1>7, <1>8
<1>10. ASSUME NEW u \in Threads, NEW v \in Threads, NEW i \in DOMAIN disposing'[u], NEW j \in DOMAIN disposing'[v],
              disposing'[u][i] = disposing'[v][j]
       PROVE  u = v /\ i = j
  <2>1. \A w, z \in Threads : \A a \in DOMAIN disposing[w], b \in DOMAIN disposing[z] :
          disposing[w][a] = disposing[z][b] => w = z /\ a = b
    BY <1>0 DEF DisposeInv
  <2>2. CASE u = t /\ i = 1 /\ disposing'[u][i] = o
    BY <1>6, <1>8, <1>10, <2>2
  <2>3. CASE v = t /\ j = 1 /\ disposing'[v][j] = o
    BY <1>6, <1>8, <1>10, <2>3
  <2>4. CASE u = t /\ i - 1 \in DOMAIN disposing[u] /\ disposing'[u][i] = disposing[u][i - 1] /\ i \in Int
    <3>1. CASE v = t /\ j - 1 \in DOMAIN disposing[v] /\ disposing'[v][j] = disposing[v][j - 1] /\ j \in Int
      <4>1. i - 1 = j - 1
        BY <1>10, <2>1, <2>4, <3>1
      <4> QED
        BY <2>4, <3>1, <4>1
    <3>2. CASE v # t /\ j \in DOMAIN disposing[v] /\ disposing'[v][j] = disposing[v][j]
      BY <1>10, <2>1, <2>4, <3>2
    <3> QED
      BY <1>8, <2>3, <3>1, <3>2
  <2>5. CASE u # t /\ i \in DOMAIN disposing[u] /\ disposing'[u][i] = disposing[u][i]
    <3>1. CASE v = t /\ j - 1 \in DOMAIN disposing[v] /\ disposing'[v][j] = disposing[v][j - 1] /\ j \in Int
      BY <1>10, <2>1, <2>5, <3>1
    <3>2. CASE v # t /\ j \in DOMAIN disposing[v] /\ disposing'[v][j] = disposing[v][j]
      BY <1>10, <2>1, <2>5, <3>2
    <3> QED
      BY <1>8, <2>3, <3>1, <3>2
  <2> QED
    BY <1>8, <2>2, <2>4, <2>5
<1> QED
  BY <1>4, <1>9, <1>10 DEF DisposeInv

LEMMA ReleaseKeeps == ASSUME IndInv, NEW t \in Threads, Release(t) PROVE IndInv'
<1>1. PICK o \in Objects :
        /\ At(t, "idle") \/ (At(t, "release") /\ o = op[t].new)
        /\ owned[t][o] > 0
        /\ owned' = [owned EXCEPT ![t][o] = owned[t][o] - 1]
        /\ IF References(o) > 1 THEN UNCHANGED <<phase, disposing>>
           ELSE /\ phase' = [phase EXCEPT ![o] = "dealloc"]
                /\ disposing' = [disposing EXCEPT ![t] = <<o>> \o disposing[t]]
        /\ Return(t)
        /\ UNCHANGED <<inited, weak, lock>>
  BY DEF Release
<1>0. TypeOK /\ UNCHANGED <<marked, value, status, table>> /\ owned[t][o] \in 0..MaxOwned /\ MaxOwned \in Nat
  BY <1>1, ConstantsOK DEF IndInv, TypeInv, TypeOK, weak
<1>2. owned[t][o] - 1 \in 0..MaxOwned
  BY <1>0, <1>1
<1>3. /\ owned' \in [Threads -> [Objects -> 0..MaxOwned]] /\ owned'[t][o] = owned[t][o] - 1
      /\ \A u \in Threads, p \in Objects : u # t \/ p # o => owned'[u][p] = owned[u][p]
      /\ \A u \in Threads : u # t => owned'[u] = owned[u]
  BY <1>0, <1>1, <1>2, OwnedChange
<1>4. phase[o] = "live" /\ \A p \in Objects : p # o => \A u \in Threads : owned'[u][p] = owned[u][p]
  BY <1>1, <1>3 DEF IndInv, OwnInv
<1>5. /\ op' = [op EXCEPT ![t] = Idle] /\ op[t].pc \notin {"lock", "locked"} /\ marked' \subseteq Objects
      /\ UNCHANGED <<inited, lock, value, status, table>>
  BY <1>0, <1>1, WeakTypes DEF Return, At
<1>6. CASE References(o) > 1
  <2>1. UNCHANGED <<phase, disposing>>
    BY <1>1, <1>6
  <2>2. owned[t][o] > 1 \/ \E u \in Threads : u # t /\ owned[u][o] > 0
    BY <1>0, <1>1, <1>6, AnotherReference
  <2>3. \E u \in Threads : owned'[u][o] > 0
    <3>1. CASE owned[t][o] > 1
      <4>1. owned'[t][o] > 0
        BY <1>0, <1>3, <3>1
      <4> QED
        BY <4>1
    <3>2. CASE \E u \in Threads : u # t /\ owned[u][o] > 0
      BY <1>3, <3>2
    <3> QED
      BY <2>2, <3>1, <3>2
  <2>4. OwnInv'
    BY <1>4, <2>1, <2>3 DEF IndInv, OwnInv
  <2>5. /\ phase' \in [Objects -> {"free", "live", "dealloc"}] /\ disposing' \in [Threads -> Seq(Objects)] /\ DisposeInv'
        /\ \A p \in Objects, l \in Locations : <<p, l>> \in table => phase'[p] # "free" /\ p \in marked'
    BY <1>0, <2>1, WeakTypes DEF IndInv, TypeInv, TypeOK, DisposeInv, TableInv
  <2>6. \A u \in Threads : u # t => owned'[u] = owned[u] /\ disposing'[u] = disposing[u]
    BY <1>3, <2>1
  <2> QED
    BY <1>3, <1>5, <2>4, <2>5, <2>6, IdleStep
<1>7. CASE ~(References(o) > 1)
  <2>1. phase' = [phase EXCEPT ![o] = "dealloc"] /\ disposing' = [disposing EXCEPT ![t] = <<o>> \o disposing[t]]
    BY <1>1, <1>7
  <2>2. owned[t][o] = 1 /\ \A u \in Threads : u # t => owned[u][o] = 0
    BY <1>0, <1>1, <1>7, LastReference
  <2>3. \A u \in Threads : owned'[u][o] = 0
    <3>1. owned'[t][o] = 0
      BY <1>3, <2>2
    <3> QED
      BY <1>3, <2>2, <3>1
  <2>4. phase' \in [Objects -> {"free", "live", "dealloc"}] /\ phase'[o] = "dealloc" /\ \A p \in Objects : p # o => phase'[p] = phase[p]
    BY <1>0, <2>1 DEF TypeOK
  <2>5. OwnInv'
    BY <1>4, <2>3, <2>4 DEF IndInv, OwnInv
  <2>6. /\ disposing' \in [Threads -> Seq(Objects)] /\ DisposeInv'
        /\ \A u \in Threads : u # t => disposing'[u] = disposing[u]
    BY <1>4, <2>1, PushDisposing
  <2>7. \A p \in Objects, l \in Locations : <<p, l>> \in table => phase'[p] # "free" /\ p \in marked'
    BY <1>0, <2>4, WeakTypes DEF TableInv
  <2>8. \A u \in Threads : u # t => owned'[u] = owned[u] /\ disposing'[u] = disposing[u]
    BY <1>3, <2>6
  <2> QED
    BY <1>3, <1>5, <2>4, <2>5, <2>6, <2>7, <2>8, IdleStep
<1> QED
  BY <1>6, <1>7

\* The innermost object that a thread deallocates.
LEMMA Innermost ==
  ASSUME IndInv, NEW t \in Threads, disposing[t] # <<>>
  PROVE  /\ disposing[t] \in Seq(Objects) /\ 1 \in DOMAIN disposing[t] /\ disposing[t][1] \in Objects
         /\ phase[disposing[t][1]] = "dealloc"
<1>1. disposing[t] \in Seq(Objects)
  BY DEF IndInv, TypeInv
<1>2. 1 \in DOMAIN disposing[t] /\ disposing[t][1] \in Objects
  BY <1>1
<1> QED
  BY <1>1, <1>2 DEF IndInv, DisposeInv

LEMMA rootDeallocKeeps == ASSUME IndInv, NEW t \in Threads, rootDealloc(t) PROVE IndInv'
<1>0. op[t].pc = "idle" /\ disposing[t] # <<>> /\ UNCHANGED <<heap, inited, weak, lock>>
  BY DEF rootDealloc, At
<1>1. UNCHANGED <<phase, owned, disposing, marked, value, status, table>>
  BY <1>0 DEF heap, weak
<1> DEFINE o == disposing[t][1]
           x == [Idle EXCEPT !.kind = "clear", !.obj = o, !.pc = IF o \in marked THEN "lock" ELSE "free"]
<1>2. op' = [op EXCEPT ![t] = x]
  BY DEF rootDealloc
<1>3. o \in Objects
  BY <1>0, Innermost
<1>4. x \in Op
  BY <1>3 DEF Idle, Op, Pcs, Kinds
<1>5. x.kind = "clear" /\ x.obj = o /\ x.loc = Nil /\ x.dst = Nil /\ x.pc = IF o \in marked THEN "lock" ELSE "free"
  BY DEF Idle
<1> HIDE DEF x, o
<1>6. Locals(x) /\ Exclusive(x) \subseteq {Nil} /\ Used(x) \subseteq {Nil} /\ Fits(x, status')
  BY <1>3, <1>5, ConstantsOK DEF Locals, Exclusive, Used, Fits, Stores
<1>7. LocalsInv' /\ op' \in [Threads -> Op] /\ op'[t] = x /\ \A u \in Threads : u # t => op'[u] = op[u]
  BY <1>2, <1>4, <1>6, MoveLocals
<1>8. TypeInv'
  BY <1>0, <1>1, <1>7 DEF IndInv, TypeInv, TypeOK, Op
<1>9. TableInv' /\ OwnInv' /\ DisposeInv'
  BY <1>1 DEF IndInv, TableInv, OwnInv, DisposeInv
<1>10. StatusInv'
  BY <1>1, <1>6, <1>7, WeakTypes, MoveStatus
<1>11. ExclusiveInv'
  BY <1>6, <1>7, MoveExclusive DEF IndInv
<1>12. RoomInv'
  <2>1. ASSUME NEW u \in Threads, Loads(u)'
        PROVE  MayOwn(u)'
    <3>1. u # t /\ Loads(u)
      BY <1>5, <1>7, <2>1 DEF Loads
    <3> QED
      BY <1>1, <3>1 DEF IndInv, RoomInv, MayOwn, OwnedBy
  <2> QED
    BY <2>1 DEF RoomInv
<1>13. ClearInv'
  <2>1. ASSUME NEW u \in Threads
        PROVE  /\ op'[u].kind = "clear" => disposing'[u] # <<>> /\ op'[u].obj = disposing'[u][1]
               /\ op'[u].pc = "free" => \A l \in Locations : <<op'[u].obj, l>> \notin table'
    <3>1. CASE u = t
      <4>1. disposing'[u] # <<>> /\ op'[u].obj = disposing'[u][1]
        BY <1>0, <1>1, <1>5, <1>7, <3>1 DEF o
      <4>2. op'[u].pc = "free" => o \notin marked
        BY <1>5, <1>7, <3>1
      <4>3. o \notin marked => \A l \in Locations : <<o, l>> \notin table
        BY <1>3, WeakTypes DEF TableInv
      <4> QED
        BY <1>1, <1>5, <1>7, <3>1, <4>1, <4>2, <4>3
    <3>2. CASE u # t
      BY <1>1, <1>7, <3>2 DEF IndInv, ClearInv
    <3> QED
      BY <3>1, <3>2
  <2> QED
    BY <2>1 DEF ClearInv
<1>14. LockInv'
  <2>1. op'[t].pc # "locked"
    BY <1>5, <1>7
  <2> QED
    BY <1>0, <1>7, <1>8, <2>1, LockFrame DEF TypeInv
<1> QED
  BY <1>7, <1>8, <1>9, <1>10, <1>11, <1>12, <1>13, <1>14 DEF IndInv

\* The variables that hold the object become nil, and its entry goes.
LEMMA weakClearKeeps == ASSUME IndInv, NEW t \in Threads, weak_clear(t) PROVE IndInv'
<1> DEFINE o == op[t].obj
           x == [op[t] EXCEPT !.pc = "free"]
<1>0. /\ op[t] \in Op /\ Locals(op[t]) /\ op[t].pc = "locked" /\ op[t].kind = "clear"
      /\ UNCHANGED <<heap, inited, marked, status>> /\ unlockTwo(t) /\ op' = [op EXCEPT ![t] = x]
      /\ table' = {p \in table : p[1] # o}
      /\ value' = [l \in Locations |-> IF <<o, l>> \in table /\ value[l] = o THEN Nil ELSE value[l]]
  BY OpType DEF weak_clear, At, Goto
<1>1. UNCHANGED <<phase, owned, disposing, inited, marked, status>> /\ o \in Objects
  BY <1>0 DEF heap, Op, Locals
<1>2. x \in Op /\ x.kind = "clear" /\ x.loc = op[t].loc /\ x.dst = op[t].dst /\ x.obj = o /\ x.pc = "free"
  BY <1>0 DEF Op, Pcs
<1> HIDE DEF x, o
<1>3. Locals(x) /\ Fits(x, status') /\ Exclusive(x) = Exclusive(op[t]) /\ Used(x) = Used(op[t])
  BY <1>0, <1>1, <1>2, ConstantsOK DEF Locals, Fits, Exclusive, Used, Stores, o
<1>4. LocalsInv' /\ op' \in [Threads -> Op] /\ op'[t] = x /\ \A u \in Threads : u # t => op'[u] = op[u]
  BY <1>0, <1>2, <1>3, MoveLocals
<1>5. LockInv' /\ lock' \in [Stripes -> Threads \cup {Nil}]
  BY <1>0, <1>2, <1>4, LockUnlock
<1>6. value' \in [Locations -> Objects \cup {Nil}] /\ table' \subseteq Objects \X Locations
  BY <1>0, WeakTypes
<1>7. \A p \in Objects, l \in Locations : <<p, l>> \in table' <=> <<p, l>> \in table /\ p # o
  BY <1>0
<1>8. TypeInv'
  BY <1>1, <1>4, <1>5, <1>6 DEF IndInv, TypeInv, TypeOK, Op
<1>9. TableInv'
  <2>1. ASSUME NEW p \in Objects, NEW l \in Locations
        PROVE  /\ <<p, l>> \in table' <=> status'[l] = "weak" /\ value'[l] = p
               /\ <<p, l>> \in table' => phase'[p] # "free" /\ p \in marked'
    <3>1. value'[l] = IF <<o, l>> \in table /\ value[l] = o THEN Nil ELSE value[l]
      BY <1>0
    <3>2. /\ <<p, l>> \in table <=> status[l] = "weak" /\ value[l] = p
          /\ <<o, l>> \in table <=> status[l] = "weak" /\ value[l] = o
          /\ <<p, l>> \in table => phase[p] # "free" /\ p \in marked
      BY <1>1, WeakTypes DEF TableInv
    <3>3. p # Nil
      BY ConstantsOK
    <3> QED
      BY <1>1, <1>7, <3>1, <3>2, <3>3
  <2> QED
    BY <2>1 DEF TableInv
<1>10. OwnInv' /\ DisposeInv'
  BY <1>1 DEF IndInv, OwnInv, DisposeInv
<1>11. StatusInv'
  BY <1>1, <1>3, <1>4, WeakTypes, MoveStatus
<1>12. ExclusiveInv'
  BY <1>3, <1>4, MoveExclusive DEF IndInv
<1>13. RoomInv'
  <2>1. ASSUME NEW u \in Threads, Loads(u)'
        PROVE  MayOwn(u)'
    <3>1. u # t /\ Loads(u)
      BY <1>2, <1>4, <2>1 DEF Loads
    <3> QED
      BY <1>1, <3>1 DEF IndInv, RoomInv, MayOwn, OwnedBy
  <2> QED
    BY <2>1 DEF RoomInv
<1>14. ClearInv'
  <2>1. ASSUME NEW u \in Threads
        PROVE  /\ op'[u].kind = "clear" => disposing'[u] # <<>> /\ op'[u].obj = disposing'[u][1]
               /\ op'[u].pc = "free" => \A l \in Locations : <<op'[u].obj, l>> \notin table'
    <3>1. CASE u = t
      <4>1. disposing[t] # <<>> /\ o = disposing[t][1]
        BY <1>0 DEF IndInv, ClearInv, o
      <4> QED
        BY <1>1, <1>2, <1>4, <1>7, <3>1, <4>1
    <3>2. CASE u # t
      <4>1. op'[u] = op[u]
        BY <1>4, <3>2
      <4>2. op[u].pc = "free" => \A l \in Locations : <<op[u].obj, l>> \notin table
        BY DEF IndInv, ClearInv
      <4>3. table' \subseteq table
        BY <1>0
      <4>4. op[u].kind = "clear" => disposing[u] # <<>> /\ op[u].obj = disposing[u][1]
        BY DEF IndInv, ClearInv
      <4> QED
        BY <1>1, <4>1, <4>2, <4>3, <4>4
    <3> QED
      BY <3>1, <3>2
  <2> QED
    BY <2>1 DEF ClearInv
<1> QED
  BY <1>4, <1>5, <1>8, <1>9, <1>10, <1>11, <1>12, <1>13, <1>14 DEF IndInv

\* The innermost object leaves the stack of the thread.
LEMMA PopDisposing ==
  ASSUME IndInv, NEW t \in Threads, disposing[t] # <<>>, phase' = [phase EXCEPT ![disposing[t][1]] = "free"],
         disposing' = [disposing EXCEPT ![t] = SubSeq(disposing[t], 2, Len(disposing[t]))]
  PROVE  /\ disposing' \in [Threads -> Seq(Objects)] /\ DisposeInv'
         /\ \A u \in Threads : u # t => disposing'[u] = disposing[u]
<1>0. phase \in [Objects -> {"free", "live", "dealloc"}] /\ disposing \in [Threads -> Seq(Objects)] /\ DisposeInv
  BY DEF IndInv, TypeInv, TypeOK
<1>1. disposing[t] \in Seq(Objects) /\ Len(disposing[t]) \in Nat /\ Len(disposing[t]) >= 1
  BY <1>0
<1> DEFINE o == disposing[t][1]
           q == SubSeq(disposing[t], 2, Len(disposing[t]))
<1>2. q \in Seq(Objects) /\ Len(q) = Len(disposing[t]) - 1
  BY <1>1
<1>3. \A i \in 1..Len(q) : q[i] = disposing[t][i + 1] /\ i + 1 \in DOMAIN disposing[t]
  BY <1>1, <1>2
<1>4. disposing' \in [Threads -> Seq(Objects)] /\ disposing'[t] = q /\ \A u \in Threads : u # t => disposing'[u] = disposing[u]
  BY <1>0, <1>2
<1>5. DOMAIN q = 1..Len(q) /\ Len(q) \in Nat /\ 1 \in DOMAIN disposing[t] /\ o \in Objects
  BY <1>1, <1>2
<1> HIDE DEF q
<1>6. \A w, z \in Threads : \A a \in DOMAIN disposing[w], b \in DOMAIN disposing[z] :
          disposing[w][a] = disposing[z][b] => w = z /\ a = b
  BY <1>0 DEF DisposeInv
<1>7. ASSUME NEW u \in Threads, NEW i \in DOMAIN disposing'[u]
      PROVE  \/ u = t /\ i + 1 \in DOMAIN disposing[u] /\ disposing'[u][i] = disposing[u][i + 1] /\ i \in Nat \ {0}
             \/ u # t /\ i \in DOMAIN disposing[u] /\ disposing'[u][i] = disposing[u][i]
  BY <1>3, <1>4, <1>5
<1>8. \A p \in Objects : p # o => phase'[p] = phase[p]
  BY <1>0
<1>9. ASSUME NEW u \in Threads, NEW i \in DOMAIN disposing'[u]
      PROVE  phase'[disposing'[u][i]] = "dealloc"
  <2>1. PICK j \in DOMAIN disposing[u] : disposing'[u][i] = disposing[u][j] /\ (u = t => j # 1)
    <3>1. CASE u = t
      <4>1. i + 1 \in DOMAIN disposing[u] /\ disposing'[u][i] = disposing[u][i + 1] /\ i + 1 # 1
        BY <1>7, <3>1
      <4> QED
        BY <4>1
    <3>2. CASE u # t
      BY <1>7, <3>2
    <3> QED
      BY <3>1, <3>2
  <2>2. disposing[u][j] \in Objects /\ phase[disposing[u][j]] = "dealloc"
    BY <1>0 DEF DisposeInv
  <2>3. disposing[u][j] # o
    BY <1>5, <1>6, <2>1
  <2> QED
    BY <1>8, <2>1, <2>2, <2>3
<1>10. ASSUME NEW u \in Threads, NEW v \in Threads, NEW i \in DOMAIN disposing'[u], NEW j \in DOMAIN disposing'[v],
              disposing'[u][i] = disposing'[v][j]
       PROVE  u = v /\ i = j
  <2>1. CASE u # t \/ v # t
    BY <1>6, <1>7, <1>10, <2>1
  <2>2. CASE u = t /\ v = t
    <3>1. /\ i + 1 \in DOMAIN disposing[u] /\ disposing'[u][i] = disposing[u][i + 1] /\ i \in Nat
          /\ j + 1 \in DOMAIN disposing[v] /\ disposing'[v][j] = disposing[v][j + 1] /\ j \in Nat
      BY <1>7, <2>2
    <3>2. i + 1 = j + 1
      BY <1>6, <1>10, <3>1
    <3> QED
      BY <2>2, <3>1, <3>2
  <2> QED
    BY <2>1, <2>2
<1> QED
  BY <1>4, <1>9, <1>10 DEF DisposeInv

LEMMA FreeKeeps == ASSUME IndInv, NEW t \in Threads, Free(t) PROVE IndInv'
<1> DEFINE o == op[t].obj
<1>0. /\ op[t] \in Op /\ Locals(op[t]) /\ op[t].pc = "free" /\ op' = [op EXCEPT ![t] = Idle] /\ TypeOK
      /\ UNCHANGED <<owned, inited, value, status, table, lock>> /\ marked' = marked \ {o}
      /\ phase' = [phase EXCEPT ![o] = "free"]
      /\ disposing' = [disposing EXCEPT ![t] = SubSeq(disposing[t], 2, Len(disposing[t]))]
  BY OpType DEF Free, At, Return, IndInv, TypeInv
<1>1. disposing[t] # <<>> /\ o = disposing[t][1] /\ \A l \in Locations : <<o, l>> \notin table
  BY <1>0 DEF IndInv, ClearInv, Locals
<1>2. o \in Objects /\ phase[o] = "dealloc"
  BY <1>1, Innermost
<1> HIDE DEF o
<1>3. phase' \in [Objects -> {"free", "live", "dealloc"}] /\ phase'[o] = "free" /\ \A p \in Objects : p # o => phase'[p] = phase[p]
  BY <1>0, <1>2 DEF TypeOK
<1>4. OwnInv' /\ owned' \in [Threads -> [Objects -> 0..MaxOwned]]
  BY <1>0, <1>2, <1>3 DEF IndInv, OwnInv, TypeOK
<1>5. /\ disposing' \in [Threads -> Seq(Objects)] /\ DisposeInv'
      /\ \A u \in Threads : u # t => disposing'[u] = disposing[u]
  BY <1>0, <1>1, PopDisposing
<1>6. \A p \in Objects, l \in Locations : <<p, l>> \in table => phase'[p] # "free" /\ p \in marked'
  BY <1>0, <1>1, <1>3, WeakTypes DEF TableInv
<1>7. marked' \subseteq Objects /\ op[t].pc \notin {"lock", "locked"} /\ UNCHANGED <<inited, lock, value, status, table>>
  BY <1>0, WeakTypes
<1>8. \A u \in Threads : u # t => owned'[u] = owned[u] /\ disposing'[u] = disposing[u]
  BY <1>0, <1>5
<1> QED
  BY <1>0, <1>3, <1>4, <1>5, <1>6, <1>7, <1>8, IdleStep

----------------------------------------------------------------------------
(* The invariant holds in every behaviour.                                 *)

LEMMA InitKeeps == Init => IndInv
<1> SUFFICES ASSUME Init
             PROVE  IndInv
  OBVIOUS
<1>1. \A t \in Threads : op[t] = Idle /\ disposing[t] = <<>>
  BY DEF Init
<1>2. TypeInv
  <2>1. op \in [Threads -> Op]
    BY IdleIsOp DEF Init
  <2>2. lock \in [Stripes -> Threads \cup {Nil}] /\ inited \in [Objects -> {"no", "done"} \cup Threads]
    BY DEF Init
  <2>3. disposing \in [Threads -> Seq(Objects)] /\ owned \in [Threads -> [Objects -> 0..MaxOwned]]
    BY ConstantsOK DEF Init
  <2> QED
    BY <2>1, <2>2, <2>3 DEF Init, TypeInv, TypeOK, Op
<1>3. TableInv /\ OwnInv
  BY DEF Init, TableInv, OwnInv
<1>4. DisposeInv /\ ClearInv /\ LocalsInv
  BY <1>1, IdleIsOp DEF DisposeInv, ClearInv, LocalsInv
<1>5. StatusInv /\ ExclusiveInv /\ RoomInv
  BY <1>1, IdleIsOp DEF StatusInv, Fits, ExclusiveInv, Exclusive, Used, RoomInv, Loads
<1>6. LockInv
  BY <1>1, IdleIsOp, ConstantsOK DEF Init, LockInv
<1> QED
  BY <1>2, <1>3, <1>4, <1>5, <1>6 DEF IndInv

LEMMA StepKeeps == ASSUME IndInv, NEW t \in Threads, Step(t) PROVE IndInv'
<1>1. CASE BeginCall(t) \/ Create(t) \/ Release(t) \/ rootDealloc(t) \/ BeginInitialize(t) \/ EndInitialize(t)
  BY <1>1, BeginCallKeeps, CreateKeeps, ReleaseKeeps, rootDeallocKeeps, BeginInitializeKeeps, EndInitializeKeeps
<1>2. CASE ReadOld(t) \/ ReadWeak(t) \/ lockTwo(t) \/ Retry(t) \/ UnlockToInitialize(t) \/ class_initialize(t)
  BY <1>2, ReadOldKeeps, ReadWeakKeeps, lockTwoKeeps, RetryKeeps, UnlockToInitializeKeeps, ClassInitializeKeeps
<1>3. CASE StoreWeak(t) \/ StoreCrashes(t) \/ DestroyWeak(t) \/ LoadWeakRetained(t) \/ MoveWeak(t) \/ weak_clear(t) \/ Free(t)
  BY <1>3, StoreWeakKeeps, StoreCrashesKeeps, DestroyWeakKeeps, LoadWeakRetainedKeeps, MoveWeakKeeps, weakClearKeeps, FreeKeeps
<1> QED
  BY <1>1, <1>2, <1>3 DEF Step

LEMMA NextKeeps == IndInv /\ [Next]_vars => IndInv'
<1> SUFFICES ASSUME IndInv, [Next]_vars
             PROVE  IndInv'
  OBVIOUS
<1>1. CASE Next
  BY <1>1, StepKeeps DEF Next
<1>2. CASE UNCHANGED vars
  <2>1. UNCHANGED <<heap, weak, lock, op>> /\ inited' = inited
    BY <1>2 DEF vars, heap, weak
  <2>2. inited' \in [Objects -> {"no", "done"} \cup Threads]
    BY <2>1 DEF IndInv, TypeInv, TypeOK
  <2> QED
    BY <2>1, <2>2, OtherStep
<1> QED
  BY <1>1, <1>2

\* In every behaviour of the calls on weak variables, with the objects they refer to
\* created and deallocated by any thread, the invariant holds: the variables and the
\* weak tables agree, each object is deallocated once by one thread, and stripes are
\* locked in the order of their addresses.
THEOREM WeakInvariance == Spec => []IndInv
  BY InitKeeps, NextKeeps, PTL DEF Spec

\* A variable that holds an object is registered with it and no other is, and the object
\* is not yet free and is marked (weak_register_no_lock, weak_unregister_no_lock and
\* weak_clear_no_lock of objc-weak.mm under the side table locks).
THEOREM WeakRegistered == Spec => []Registered
<1>1. IndInv => Registered
  <2> SUFFICES ASSUME IndInv
               PROVE  Registered
    OBVIOUS
  <2>1. TypeOK /\ TableInv /\ table \subseteq Objects \X Locations
    BY DEF IndInv, TypeInv, TypeOK
  <2>2. ASSUME NEW p \in table
        PROVE  phase[p[1]] # "free" /\ p[1] \in marked
    <3>1. p = <<p[1], p[2]>> /\ p[1] \in Objects /\ p[2] \in Locations
      BY <2>1
    <3> QED
      BY <2>1, <3>1 DEF TableInv
  <2> QED
    BY <2>1, <2>2 DEF Registered, TableInv
<1> QED
  BY <1>1, WeakInvariance, PTL

----------------------------------------------------------------------------
(* Nobody waits forever.                                                   *)

\* Among finitely many numbered things one has the largest number.
LEMMA LargestExists ==
  ASSUME NEW L, IsFiniteSet(L), L # {}, NEW w \in [L -> Nat]
  PROVE  \E t \in L : \A u \in L : w[u] <= w[t]
<1> DEFINE Above(t) == {u \in L : w[u] > w[t]}
           F == {Above(t) : t \in L}
<1>1. IsWellFoundedOn(StrictSubsetOrdering(L), SUBSET L)
  BY FS_StrictSubsetOrderingWellFounded, FS_FiniteSubsetsOfFinite
<1>2. F \subseteq SUBSET L /\ F # {}
  <2>1. PICK t \in L : TRUE
    OBVIOUS
  <2>2. Above(t) \in F
    BY <2>1
  <2>3. F \subseteq SUBSET L
    OBVIOUS
  <2> QED
    BY <2>2, <2>3
<1>3. PICK S \in F : \A R \in F : ~(<<R, S>> \in StrictSubsetOrdering(L))
  <2> HIDE DEF F
  <2> QED
    BY <1>1, <1>2, WFMin
<1>4. PICK t \in L : S = Above(t)
  OBVIOUS
<1>5. ASSUME NEW u \in L, w[u] > w[t]
      PROVE  FALSE
  <2>1. \A v \in L : w[v] \in Nat
    OBVIOUS
  <2>2. Above(u) \subseteq Above(t)
    BY <1>5, <2>1
  <2>3. u \in Above(t) /\ u \notin Above(u)
    BY <1>5, <2>1
  <2>4. <<Above(u), Above(t)>> \in StrictSubsetOrdering(L)
    <3>1. Above(u) \in SUBSET L /\ Above(t) \in SUBSET L
      OBVIOUS
    <3>2. Above(u) # Above(t)
      BY <2>3
    <3> HIDE DEF Above
    <3> QED
      BY <2>2, <3>1, <3>2 DEF StrictSubsetOrdering
  <2> QED
    BY <1>3, <1>4, <2>4
<1> QED
  BY <1>5

\* A thread of T that waits for a stripe waits for one of T that waits for a higher one.
LEMMA WaitsHigher ==
  ASSUME IndInv, NEW t \in Threads, NEW u \in Threads, At(t, "lock"), WaitsFor(t, u)
  PROVE  op[u].pc = "locked" \/ (At(u, "lock") /\ Min(Missing(t)) < Min(Missing(u)))
<1>0. TypeOK /\ LockInv /\ op[t].pc = "lock"
  BY DEF IndInv, TypeInv, At
<1>1. lock[Min(Missing(t))] = u
  BY <1>0 DEF WaitsFor, At, Missing
<1>2. Missing(t) # {} /\ Min(Missing(t)) \in Missing(t)
  BY <1>0, LeastMissing DEF LockInv
<1>3. Min(Missing(t)) \in Stripes
  BY <1>0, <1>2, TablesType DEF Missing
<1>4. op[u].pc \in {"lock", "locked"} /\ Min(Missing(t)) \in Tables(u)
  BY <1>0, <1>1, <1>3 DEF LockInv
<1>5. ASSUME op[u].pc = "lock"
      PROVE  Min(Missing(t)) < Min(Missing(u))
  <2>1. Missing(u) # {} /\ \A s \in Tables(u), m \in Missing(u) : lock[s] = u => s < m
    BY <1>0, <1>5 DEF LockInv
  <2>2. Min(Missing(u)) \in Missing(u)
    BY <1>0, <2>1, LeastMissing
  <2> QED
    BY <1>1, <1>4, <2>1, <2>2
<1> QED
  BY <1>4, <1>5 DEF At

\* No set of threads waits for each other, for stripes or for +initialize, unless two of
\* them are in +initialize methods that need each other (SideTable::lockTwo and
\* class_initialize, called from storeWeak and objc_loadWeakRetained).
THEOREM NobodyWaits == Spec => []NobodyWaitsForever
<1>1. IndInv => NobodyWaitsForever
  <2> SUFFICES ASSUME IndInv
               PROVE  NobodyWaitsForever
    OBVIOUS
  <2>0. TypeOK /\ LockInv /\ IsFiniteSet(Threads)
    BY ConstantsOK DEF IndInv, TypeInv
  <2>1. ASSUME NEW T \in (SUBSET Threads) \ {{}}, \A t, u \in Initializers(T) : t = u,
               \A t \in T : \E u \in T : WaitsFor(t, u)
        PROVE  FALSE
    <3> DEFINE L == {t \in T : At(t, "lock")}
               w == [t \in L |-> Min(Missing(t))]
    <3>0. T # {} /\ T \subseteq Threads
      OBVIOUS
    <3>1. \A t \in T : At(t, "lock") \/ At(t, "initialize")
      BY <2>1 DEF WaitsFor
    <3>2. CASE L = {}
      <4>1. ASSUME NEW t \in T
            PROVE  \E u \in Initializers(T) : u # t
        <5>1. At(t, "initialize") /\ ~At(t, "lock")
          BY <3>1, <3>2
        <5>2. PICK u \in T : inited[IF Loads(t) THEN op[t].obj ELSE op[t].new] = u /\ u # t
          BY <2>1, <5>1 DEF WaitsFor
        <5>3. (IF Loads(t) THEN op[t].obj ELSE op[t].new) \in Objects
          <6>1. op[t] \in Op /\ Locals(op[t]) /\ op[t].pc = "initialize"
            BY <3>0, <5>1, OpType DEF At
          <6>2. Loads(t) => op[t].obj \in Objects
            BY <6>1 DEF Loads, Op, Locals
          <6>3. ~Loads(t) => op[t].new \in Objects
            BY <6>1 DEF Loads, Op, Locals
          <6> QED
            BY <6>2, <6>3
        <5>4. u \in Initializers(T)
          BY <5>2, <5>3 DEF Initializers
        <5> QED
          BY <5>2, <5>4
      <4>2. PICK t \in T : TRUE
        BY <3>0
      <4>3. PICK u \in Initializers(T) : u # t
        BY <4>1
      <4>4. u \in T
        BY DEF Initializers
      <4>5. PICK v \in Initializers(T) : v # u
        BY <4>1, <4>4
      <4> QED
        BY <2>1, <4>5
    <3>3. CASE L # {}
      <4>1. IsFiniteSet(L) /\ L \subseteq Threads
        <5>1. L \in SUBSET Threads
          BY <3>0
        <5> HIDE DEF L
        <5> QED
          BY <2>0, <5>1, FS_Subset
      <4>2. ASSUME NEW t \in L
            PROVE  Min(Missing(t)) \in Nat
        <5>1. t \in Threads /\ op[t].pc = "lock"
          BY <3>0 DEF At
        <5>2. Missing(t) # {}
          BY <2>0, <5>1 DEF LockInv
        <5>3. Min(Missing(t)) \in Missing(t)
          BY <2>0, <5>1, <5>2, LeastMissing
        <5> QED
          BY <2>0, <5>1, <5>3, TablesType DEF Missing
      <4>3. w \in [L -> Nat]
        BY <4>2
      <4>4. PICK t \in L : \A u \in L : w[u] <= w[t]
        <5> HIDE DEF L, w
        <5> QED
          BY <3>3, <4>1, <4>3, LargestExists
      <4>5. PICK u \in T : WaitsFor(t, u)
        BY <2>1
      <4>6. op[u].pc = "locked" \/ (At(u, "lock") /\ Min(Missing(t)) < Min(Missing(u)))
        <5>1. t \in Threads /\ u \in Threads /\ At(t, "lock")
          BY <3>0
        <5> QED
          BY <4>5, <5>1, WaitsHigher
      <4>7. op[u].pc # "locked"
        BY <3>1 DEF At
      <4>8. u \in L /\ Min(Missing(t)) < Min(Missing(u))
        BY <4>6, <4>7
      <4>9. Min(Missing(u)) <= Min(Missing(t))
        BY <4>4, <4>8
      <4> QED
        BY <4>2, <4>8, <4>9
    <3> QED
      BY <3>2, <3>3
  <2>2. ASSUME NEW s \in Stripes, lock[s] # Nil
        PROVE  op[lock[s]].pc \in {"lock", "locked"} /\ s \in Tables(lock[s])
    <3>1. lock[s] \in Threads
      BY <2>0, <2>2 DEF TypeOK
    <3> QED
      BY <2>0, <3>1 DEF LockInv
  <2> QED
    BY <2>1, <2>2 DEF NobodyWaitsForever
<1> QED
  BY <1>1, WeakInvariance, PTL

----------------------------------------------------------------------------
(* Each object lives as ObjectLifetime says.                               *)

LEMMA SameReferences ==
  ASSUME NEW p \in Objects, \A u \in Threads : owned'[u][p] = owned[u][p]
  PROVE  References(p)' = References(p)
<1>1. Owners(p)' = Owners(p)
  BY DEF Owners
<1> QED
  BY <1>1 DEF References

\* Its strong references stay, and weak variables are formed only to a live object or to
\* one that already has some.
LEMMA WeakChange ==
  ASSUME IndInv, NEW o \in Objects, phase'[o] = phase[o], \A u \in Threads : owned'[u][o] = owned[u][o],
         \A l \in Locations : <<o, l>> \in table' => phase[o] = "live" \/ \E m \in Locations : <<o, m>> \in table
  PROVE  Lifetime(o)!Next \/ UNCHANGED Lifetime(o)!vars
<1>1. References(o)' = References(o)
  BY SameReferences
<1>2. phase[o] = "live" => References(o) > 0
  BY ReferencesPositive DEF IndInv, OwnInv, TypeInv
<1>3. CASE (\E l \in Locations : <<o, l>> \in table') /\ ~(\E l \in Locations : <<o, l>> \in table)
  <2>1. phase[o] = "live"
    BY <1>3
  <2>2. Lifetime(o)!FormWeak
    BY <1>1, <1>2, <1>3, <2>1 DEF Lifetime!FormWeak
  <2> QED
    BY <2>2 DEF Lifetime!Next
<1>4. CASE ~(\E l \in Locations : <<o, l>> \in table') /\ \E l \in Locations : <<o, l>> \in table
  <2>1. Lifetime(o)!ClearWeak
    BY <1>1, <1>4 DEF Lifetime!ClearWeak
  <2> QED
    BY <2>1 DEF Lifetime!Next
<1>5. CASE (\E l \in Locations : <<o, l>> \in table') <=> \E l \in Locations : <<o, l>> \in table
  BY <1>1, <1>5 DEF Lifetime!vars
<1> QED
  BY <1>3, <1>4, <1>5

LEMMA CreateLives == ASSUME IndInv, NEW t \in Threads, Create(t), NEW o \in Objects PROVE Lifetime(o)!Next \/ UNCHANGED Lifetime(o)!vars
<1>1. PICK p \in Objects :
        /\ phase[p] = "free" /\ phase' = [phase EXCEPT ![p] = "live"]
        /\ owned' = [owned EXCEPT ![t][p] = 1] /\ UNCHANGED weak
  BY DEF Create
<1>0. TypeOK /\ table' = table /\ 1 \in 0..MaxOwned /\ MaxOwned \in Nat
  BY <1>1, ConstantsOK DEF IndInv, TypeInv, weak
<1>2. \A u \in Threads, r \in Objects : u # t \/ r # p => owned'[u][r] = owned[u][r]
  BY <1>0, <1>1, OwnedChange
<1>3. phase'[p] = "live" /\ \A r \in Objects : r # p => phase'[r] = phase[r]
  BY <1>0, <1>1 DEF TypeOK
<1>4. CASE o # p
  BY <1>0, <1>2, <1>3, <1>4, WeakChange
<1>5. CASE o = p
  <2>1. \A u \in Threads : owned[u][o] = 0
    <3>1. \A u \in Threads : ~(owned[u][o] > 0) /\ owned[u][o] \in 0..MaxOwned
      BY <1>0, <1>1, <1>5, SMTT(30) DEF IndInv, OwnInv, TypeOK
    <3> QED
      BY <1>0, <3>1
  <2>2. References(o) = 0
    <3>1. ~(References(o) > 0) /\ References(o) \in Nat
      BY <1>0, <2>1, ReferencesPositive, OwnersFinite
    <3> QED
      BY <3>1
  <2>3. References(o)' = References(o) + 1
    <3>0. owned[t][o] + 1 = 1
      BY <2>1
    <3>1. owned' = [owned EXCEPT ![t][o] = owned[t][o] + 1] /\ owned[t][o] + 1 \in 0..MaxOwned
      BY ONLY <1>0, <1>1, <1>5, <3>0
    <3>2. References(o)' = References(o) + (IF o = o THEN 1 ELSE 0)
      BY <1>0, <3>1, ReferencesChange
    <3> QED
      BY <3>2
  <2>4. ~(\E l \in Locations : <<o, l>> \in table) /\ phase[o] = "free" /\ phase'[o] = "live"
    BY <1>1, <1>3, <1>5, WeakTypes DEF TableInv
  <2>5. References(o)' = 1
    BY <2>2, <2>3
  <2>6. Lifetime(o)!Create
    BY <1>0, <2>4, <2>5 DEF Lifetime!Create
  <2> QED
    BY <2>6 DEF Lifetime!Next
<1> QED
  BY <1>4, <1>5

LEMMA LoadLives == ASSUME IndInv, NEW t \in Threads, LoadWeakRetained(t), NEW o \in Objects PROVE Lifetime(o)!Next \/ UNCHANGED Lifetime(o)!vars
<1> DEFINE p == op[t].obj
<1>0. /\ op[t] \in Op /\ Locals(op[t]) /\ op[t].pc = "locked" /\ op[t].kind \in {"load", "copy"}
      /\ UNCHANGED <<phase, table>> /\ TypeOK
  BY OpType DEF LoadWeakRetained, At, Loads, IndInv, TypeInv
<1>1. p \in Objects
  BY <1>0 DEF Op, Locals
<1>2. PICK ok \in Viable(p) :
        IF ok THEN owned' = [owned EXCEPT ![t][p] = owned[t][p] + 1] ELSE UNCHANGED owned
  BY DEF LoadWeakRetained
<1>3. CASE ~ok
  BY <1>0, <1>2, <1>3, WeakChange
<1>4. CASE ok
  <2>1. phase[p] = "live" /\ MayOwn(t)
    BY <1>0, <1>2, <1>4 DEF Viable, IndInv, RoomInv, Loads
  <2>2. owned[t][p] < MaxOwned /\ owned[t][p] \in 0..MaxOwned /\ MaxOwned \in Nat
    BY <1>0, <1>1, <2>1, RoomFor, ConstantsOK DEF TypeOK
  <2>3. owned[t][p] + 1 \in 0..MaxOwned /\ owned' = [owned EXCEPT ![t][p] = owned[t][p] + 1]
    BY <1>2, <1>4, <2>2
  <2> HIDE DEF p
  <2>4. CASE o # p
    <3>1. \A u \in Threads : owned'[u][o] = owned[u][o]
      BY <1>0, <1>1, <2>3, <2>4, OwnedChange
    <3> QED
      BY <1>0, <3>1, WeakChange
  <2>5. CASE o = p
    <3>1. References(o)' = References(o) + (IF o = p THEN 1 ELSE 0)
      BY <1>0, <1>1, <2>3, ReferencesChange
    <3>2. References(o) > 0
      BY <1>0, <2>1, <2>5, ReferencesPositive DEF IndInv, OwnInv
    <3>3. References(o)' = References(o) + 1
      BY <2>5, <3>1
    <3>4. Lifetime(o)!Retain
      BY <1>0, <2>1, <2>5, <3>2, <3>3 DEF Lifetime!Retain
    <3> QED
      BY <3>4 DEF Lifetime!Next
  <2> QED
    BY <2>4, <2>5
<1> QED
  BY <1>3, <1>4

LEMMA ReleaseLives == ASSUME IndInv, NEW t \in Threads, Release(t), NEW o \in Objects PROVE Lifetime(o)!Next \/ UNCHANGED Lifetime(o)!vars
<1>1. PICK p \in Objects :
        /\ owned[t][p] > 0
        /\ owned' = [owned EXCEPT ![t][p] = owned[t][p] - 1]
        /\ IF References(p) > 1 THEN UNCHANGED phase ELSE phase' = [phase EXCEPT ![p] = "dealloc"]
        /\ UNCHANGED weak
  BY DEF Release
<1>0. /\ TypeOK /\ table' = table /\ owned[t][p] \in 0..MaxOwned /\ MaxOwned \in Nat
      /\ owned[t][p] - 1 = owned[t][p] + (-1)
  BY <1>1, ConstantsOK, SMTT(30) DEF IndInv, TypeInv, TypeOK, weak
<1>2. owned[t][p] + (-1) \in 0..MaxOwned /\ owned' = [owned EXCEPT ![t][p] = owned[t][p] + (-1)]
  <2>1. owned' = [owned EXCEPT ![t][p] = owned[t][p] + (-1)]
    BY ONLY <1>0, <1>1
  <2>2. owned[t][p] + (-1) \in 0..MaxOwned
    BY <1>0, <1>1
  <2> QED
    BY <2>1, <2>2
<1>3. phase[p] = "live"
  BY <1>1 DEF IndInv, OwnInv
<1>4. CASE o # p
  <2>1. \A u \in Threads : owned'[u][o] = owned[u][o]
    BY <1>0, <1>2, <1>4, OwnedChange
  <2>2. phase'[o] = phase[o]
    BY <1>0, <1>1, <1>4 DEF TypeOK
  <2> QED
    BY <1>0, <2>1, <2>2, WeakChange
<1>5. CASE o = p
  <2>1. References(o)' = References(o) + (IF o = p THEN -1 ELSE 0) /\ References(o) \in Nat
    BY <1>0, <1>2, ReferencesChange, OwnersFinite
  <2>2. References(o)' = References(o) - 1
    BY <1>5, <2>1
  <2>3. CASE References(p) > 1
    <3>1. Lifetime(o)!Release
      BY <1>0, <1>1, <1>3, <1>5, <2>2, <2>3 DEF Lifetime!Release
    <3> QED
      BY <3>1 DEF Lifetime!Next
  <2>4. CASE ~(References(p) > 1)
    <3>1. References(o) = 1
      BY <1>0, <1>1, <1>5, <2>4, LastReference
    <3>2. phase'[o] = "dealloc"
      BY <1>0, <1>1, <1>5, <2>4 DEF TypeOK
    <3>3. References(o)' = 0
      BY <2>2, <3>1
    <3>4. Lifetime(o)!LastRelease
      BY <1>0, <1>3, <1>5, <3>1, <3>2, <3>3 DEF Lifetime!LastRelease
    <3> QED
      BY <3>4 DEF Lifetime!Next
  <2> QED
    BY <2>3, <2>4
<1> QED
  BY <1>4, <1>5

LEMMA FreeLives == ASSUME IndInv, NEW t \in Threads, Free(t), NEW o \in Objects PROVE Lifetime(o)!Next \/ UNCHANGED Lifetime(o)!vars
<1> DEFINE p == op[t].obj
<1>0. /\ Locals(op[t]) /\ op[t].pc = "free" /\ TypeOK
      /\ UNCHANGED <<owned, table>> /\ phase' = [phase EXCEPT ![p] = "free"]
  BY OpType DEF Free, At, IndInv, TypeInv
<1>1. disposing[t] # <<>> /\ p = disposing[t][1] /\ \A l \in Locations : <<p, l>> \notin table
  BY <1>0 DEF IndInv, ClearInv, Locals
<1>2. p \in Objects /\ phase[p] = "dealloc"
  BY <1>1, Innermost
<1>3. phase'[p] = "free" /\ \A r \in Objects : r # p => phase'[r] = phase[r]
  BY <1>0, <1>2 DEF TypeOK
<1> HIDE DEF p
<1>4. CASE o # p
  BY <1>0, <1>3, <1>4, WeakChange
<1>5. CASE o = p
  <2>1. References(o)' = References(o)
    BY <1>0, SameReferences
  <2>2. Lifetime(o)!Free
    BY <1>0, <1>1, <1>2, <1>3, <1>5, <2>1 DEF Lifetime!Free
  <2> QED
    BY <2>2 DEF Lifetime!Next
<1> QED
  BY <1>4, <1>5

\* The critical sections that form, move and clear weak variables.
LEMMA SectionLives ==
  ASSUME IndInv, NEW t \in Threads, StoreWeak(t) \/ DestroyWeak(t) \/ MoveWeak(t) \/ weak_clear(t), NEW o \in Objects
  PROVE Lifetime(o)!Next \/ UNCHANGED Lifetime(o)!vars
<1>0. /\ op[t] \in Op /\ Locals(op[t]) /\ op[t].pc = "locked" /\ op[t].kind \in Stores \cup {"destroy", "move", "clear"}
      /\ UNCHANGED <<phase, owned>>
  BY OpType DEF StoreWeak, DestroyWeak, MoveWeak, weak_clear, At, heap
<1> SUFFICES ASSUME NEW l \in Locations, <<o, l>> \in table'
             PROVE  phase[o] = "live" \/ \E m \in Locations : <<o, m>> \in table
  BY <1>0, WeakChange
<1>1. CASE DestroyWeak(t)
  BY <1>1 DEF DestroyWeak
<1>2. CASE weak_clear(t)
  BY <1>2 DEF weak_clear
<1>3. CASE MoveWeak(t)
  <2>1. /\ table' = (table \ {<<op[t].obj, op[t].loc>>}) \cup {<<op[t].obj, op[t].dst>>}
        /\ op[t].kind = "move" /\ Unchanged(t)
    BY <1>3 DEF MoveWeak
  <2>2. op[t].loc \in Locations /\ value[op[t].loc] = op[t].obj /\ status[op[t].loc] = "weak" /\ op[t].obj \in Objects
    BY <1>0, <2>1, WeakTypes DEF Op, Locals, Unchanged, Fits
  <2>3. <<op[t].obj, op[t].loc>> \in table
    BY <2>2, WeakTypes DEF TableInv
  <2> QED
    BY <2>1, <2>2, <2>3
<1>4. CASE StoreWeak(t)
  <2>1. PICK ok \in (IF op[t].new = Nil THEN {TRUE} ELSE Viable(op[t].new)) :
          LET p == IF ok THEN op[t].new ELSE Nil
              old == IF HaveOld(t) THEN table \ {<<op[t].obj, op[t].loc>>} ELSE table
          IN  table' = IF p = Nil THEN old ELSE old \cup {<<p, op[t].loc>>}
    BY <1>4 DEF StoreWeak
  <2>2. CASE ok /\ op[t].new # Nil
    <3>1. phase[op[t].new] = "live"
      BY <2>1, <2>2 DEF Viable
    <3>2. <<o, l>> \in table \/ <<o, l>> = <<op[t].new, op[t].loc>>
      BY <2>1, <2>2
    <3> QED
      BY <3>1, <3>2
  <2>3. CASE ~ok \/ op[t].new = Nil
    BY <2>1, <2>3
  <2> QED
    BY <2>2, <2>3
<1> QED
  BY <1>1, <1>2, <1>3, <1>4

LEMMA OtherLives ==
  ASSUME IndInv, UNCHANGED <<heap, table>>, NEW o \in Objects
  PROVE Lifetime(o)!Next \/ UNCHANGED Lifetime(o)!vars
<1>1. UNCHANGED <<phase, owned, table>>
  BY DEF heap
<1> QED
  BY <1>1, WeakChange

LEMMA StepLives == ASSUME IndInv, NEW t \in Threads, Step(t), NEW o \in Objects PROVE Lifetime(o)!Next \/ UNCHANGED Lifetime(o)!vars
<1>1. CASE Create(t) \/ Release(t) \/ LoadWeakRetained(t) \/ Free(t)
  BY <1>1, CreateLives, ReleaseLives, LoadLives, FreeLives
<1>2. CASE StoreWeak(t) \/ DestroyWeak(t) \/ MoveWeak(t) \/ weak_clear(t)
  BY <1>2, SectionLives
<1>3. CASE BeginCall(t)
  <2>1. UNCHANGED heap
    BY <1>3 DEF BeginCall
  <2>2. UNCHANGED table
    BY <1>3 DEF BeginCall, storeWeak, initWeak, destroyWeak, loadWeakRetained, copyWeak, moveWeak, weak
  <2> QED
    BY <2>1, <2>2, OtherLives
<1>4. CASE rootDealloc(t) \/ BeginInitialize(t) \/ EndInitialize(t) \/ ReadOld(t) \/ ReadWeak(t) \/ lockTwo(t)
  <2>1. UNCHANGED heap /\ UNCHANGED table
    BY <1>4 DEF rootDealloc, BeginInitialize, EndInitialize, ReadOld, ReadWeak, lockTwo, weak
  <2> QED
    BY <2>1, OtherLives
<1>5. CASE Retry(t) \/ UnlockToInitialize(t) \/ class_initialize(t) \/ StoreCrashes(t)
  <2>1. UNCHANGED heap /\ UNCHANGED table
    BY <1>5 DEF Retry, UnlockToInitialize, class_initialize, StoreCrashes, weak
  <2> QED
    BY <2>1, OtherLives
<1> QED
  BY <1>1, <1>2, <1>3, <1>4, <1>5 DEF Step

\* Every object lives as ObjectLifetime says: a weak load retains only an object that is
\* not being deallocated, no variable is formed to one that is, and none holds it when
\* its memory is freed.
THEOREM EachLives == Spec => EachLifetime
<1>1. Init => \A o \in Objects : Lifetime(o)!Init
  <2> SUFFICES ASSUME Init, NEW o \in Objects
               PROVE  Lifetime(o)!Init
    OBVIOUS
  <2>1. TypeOK /\ \A t \in Threads : ~(owned[t][o] > 0)
    BY InitKeeps DEF Init, IndInv, TypeInv
  <2>2. ~(References(o) > 0) /\ References(o) \in Nat
    BY <2>1, ReferencesPositive, OwnersFinite
  <2>3. phase[o] = "free" /\ ~(\E l \in Locations : <<o, l>> \in table)
    BY DEF Init
  <2>4. References(o) = 0
    BY <2>2
  <2> QED
    BY <2>3, <2>4 DEF Lifetime!Init
<1>2. IndInv /\ [Next]_vars => [\A o \in Objects : Lifetime(o)!Next \/ UNCHANGED Lifetime(o)!vars]_vars
  BY StepLives DEF Next
<1> QED
  BY <1>1, <1>2, WeakInvariance, PTL DEF Spec, EachLifetime
=============================================================================
