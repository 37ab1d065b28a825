-------------------------- MODULE InitializeProofs --------------------------
(***************************************************************************)
(* Proofs about Initialize: each class is initialized once, after its      *)
(* superclass and on one thread; nobody uses it before; and none of the    *)
(* fatal errors of objc-initialize.mm is reached but the one of a fork.    *)
(***************************************************************************)
EXTENDS Initialize, FiniteSetTheorems, WellFoundedInduction, TLAPS

(***************************************************************************)
(* The inductive invariant.                                                *)
(***************************************************************************)
Frames == [cls : Classes \cup {NoClass}, at : Steps, todo : SUBSET Classes, funcs : SUBSET Funcs, throws : BOOLEAN]

TypeInv ==
  /\ initializing \in SUBSET Classes /\ initialized \in SUBSET Classes /\ pending \in SUBSET Classes
  /\ metaclasses \in [Threads -> SUBSET Classes]
  /\ stack \in [Threads -> Seq(Frames)]
  /\ willInitializeFuncs \in SUBSET Funcs /\ multithreadedForkChild \in BOOLEAN
  /\ halted \in {"no", "after fork"}
  /\ sent \in [Classes -> Nat] /\ told \in [Funcs -> [Classes -> Nat]]

Begun == initializing \cup initialized

\* The calls that may be below another one are those that wait for a superclass
\* and +initialize methods.
ShapeAt(s, i) ==
  /\ s[i].at = "add" <=> s[i].cls = NoClass
  /\ s[i].at = "add" => Len(s) = 1
  /\ s[i].at = "client" => s[i].todo \subseteq Uses[s[i].cls]
  /\ s[i].at \notin {"client", "add"} => s[i].todo = {}
  /\ s[i].funcs # {} => s[i].at \in {"begin", "tell", "add"} \/ multithreadedForkChild
  /\ i < Len(s) =>
       /\ s[i].at \in {"set", "client"}
       /\ s[i].at = "set" => s[i + 1].cls = Superclass[s[i].cls]
       /\ s[i].at = "client" => Uses[s[i].cls] # {}
Shape(s) == \A i \in 1..Len(s) : ShapeAt(s, i)

Owning == {"begin", "tell", "client", "fork", "finish"}
Claiming == Owning \ {"begin"}

\* What a call that is at a step of thread t knows of its class.
Knows(t, at, c) ==
  /\ at \in Owning => c \in Begun /\ c \notin pending
  /\ at \in Claiming => c \in metaclasses[t]
  /\ at \in {"begin", "takeOver"} => c \notin metaclasses[t]
  /\ at \in {"isInitializing", "takeOver", "wait", "blocked"} => c \in Begun
  /\ at = "isInitialized" => c \in initialized
  /\ at \in {"fork", "takeOver"} => multithreadedForkChild
  /\ at = "tell" => ~multithreadedForkChild
  /\ ~multithreadedForkChild =>
       /\ at \in {"begin", "tell"} => sent[c] = 0
       /\ at \in {"client", "finish"} => sent[c] = 1

SuperUsable(t, c) == Superclass[c] = NoClass \/ Superclass[c] \in initialized \/ Superclass[c] \in metaclasses[t]

\* The call has seen to the superclass.
SuperDone(s, i) == s[i].at \notin {"start", "add"} /\ (s[i].at = "set" => i = Len(s))

Covers(s, c) == \E i \in 1..Len(s) : s[i].cls = c /\ s[i].at \in Claiming

\* What holds of the calls of one thread.
Calls(t, s) ==
  /\ Shape(s)
  /\ \A i \in 1..Len(s) : Knows(t, s[i].at, s[i].cls) /\ (SuperDone(s, i) => SuperUsable(t, s[i].cls))
  /\ \A i, j \in 1..Len(s) : i # j /\ s[i].at \in Owning /\ s[j].at \in Owning => s[i].cls # s[j].cls
  /\ \A c \in metaclasses[t] : c \in pending \/ Covers(s, c)

StackInv == \A t \in Threads : Calls(t, stack[t])

\* A claim comes after the one of the superclass.
ClaimInv == \A t \in Threads : \A c \in metaclasses[t] : c \in Begun /\ SuperUsable(t, c)

FlagInv ==
  /\ initializing \cap initialized = {}
  /\ \A c \in Begun : Superclass[c] # NoClass =>
       Superclass[c] \in Begun /\ (c \in initialized => Superclass[c] \in initialized)
  /\ \A c \in pending : c \in initializing /\ Superclass[c] \in initializing

\* Of a class whose subclass is pending, +initialize used another class.
PendingInv ==
  Forks => \A c \in pending : classHasTrivialInitialize(Superclass[c]) => Superclass[c] \in pending

\* The classes a thread has, or is about to have, on its list.
Begins(s) == {c \in Classes : \E i \in 1..Len(s) : s[i].cls = c /\ s[i].at = "begin"}
Own(t) == metaclasses[t] \cup Begins(stack[t])

\* Before a fork: one thread initializes a class, and the counts are exact.
Owes(f, c, s) == \E i \in 1..Len(s) : f \in s[i].funcs /\ (s[i].cls = c \/ c \in s[i].todo)
Counted(f, c) ==
  /\ Owed(f, c) = {} \/ \E t \in Threads : Owed(f, c) = {t}
  /\ told[f][c] + Cardinality(Owed(f, c)) = IF f \in willInitializeFuncs /\ c \in Begun THEN 1 ELSE 0
ParentInv ==
  ~multithreadedForkChild =>
    /\ \A t, u \in Threads : t # u => Own(t) \cap Own(u) = {}
    /\ \A t \in Threads : Own(t) \cap initialized = {}
    /\ \A c \in pending : \E t \in Threads : c \in metaclasses[t]
    /\ \A c \in Classes : (c \notin Begun => sent[c] = 0) /\ (c \in initialized \cup pending => sent[c] = 1)
    /\ \A f \in Funcs, c \in Classes : Counted(f, c)

\* In the child of a fork: the thread that called fork may still have what it had
\* then, others have the one class that they are about to finish, and a thread that
\* is about to halt does not matter.
Doomed(s) == s # <<>> /\ s[Len(s)].at = "fork" /\ ~classHasTrivialInitialize(s[Len(s)].cls)
Fresh(u, s) ==
  /\ \A i \in 1..Len(s) : s[i].at # "client" /\ (s[i].at = "finish" => classHasTrivialInitialize(s[i].cls))
  /\ \A c \in metaclasses[u] : s # <<>> /\ c = s[Len(s)].cls /\ s[Len(s)].at \in {"fork", "finish"}
Survives(w, s) ==
  ~Doomed(s) => \A c \in pending : Superclass[c] \in metaclasses[w] => c \in metaclasses[w]
ChildInv ==
  multithreadedForkChild =>
    Forks /\ \E w \in Threads : Survives(w, stack[w]) /\ \A u \in Threads \ {w} : Fresh(u, stack[u])

SentInv == \A c \in Classes : sent[c] <= 1

IndInv == TypeInv /\ StackInv /\ ClaimInv /\ FlagInv /\ PendingInv /\ ParentInv /\ ChildInv /\ SentInv

(***************************************************************************)
(* Superclasses.                                                           *)
(***************************************************************************)
LEMMA LineageClosed ==
  ASSUME NEW c \in Classes
  PROVE  Lineage(c) \in SUBSET Classes /\ c \in Lineage(c) /\ Closed(Lineage(c))
<1>1. Lineage(c) \in SUBSET Classes /\ c \in Lineage(c)
  BY DEF Lineage
<1>2. ASSUME NEW d \in Lineage(c), Superclass[d] # NoClass PROVE Superclass[d] \in Lineage(c)
  <2>1. d \in Classes /\ Superclass[d] \in Classes
    BY <1>1, <1>2, InitializeAssumption
  <2>2. ASSUME NEW S \in SUBSET Classes, c \in S, Closed(S) PROVE Superclass[d] \in S
    <3>1. d \in S
      BY <2>2 DEF Lineage
    <3> QED
      BY <1>2, <2>2, <3>1 DEF Closed
  <2> QED
    BY <2>1, <2>2 DEF Lineage
<1> QED
  BY <1>1, <1>2 DEF Closed

\* The least such set.
LEMMA LineageLeast ==
  ASSUME NEW c \in Classes, NEW S \in SUBSET Classes, c \in S, Closed(S)
  PROVE  Lineage(c) \subseteq S
BY DEF Lineage

LEMMA LineageStep ==
  ASSUME NEW c \in Classes, Superclass[c] # NoClass
  PROVE  Superclass[c] \in Classes /\ Lineage(c) = {c} \cup Lineage(Superclass[c])
<1> DEFINE e == Superclass[c]
<1>1. e \in Classes
  BY InitializeAssumption
<1>2. Lineage(e) \subseteq Lineage(c)
  BY <1>1, LineageClosed, LineageLeast DEF Closed
<1>3. Lineage(c) \subseteq {c} \cup Lineage(e)
  <2>1. Closed({c} \cup Lineage(e)) /\ {c} \cup Lineage(e) \in SUBSET Classes
    BY <1>1, LineageClosed DEF Closed
  <2> QED
    BY <2>1, LineageLeast
<1> QED
  BY <1>1, <1>2, <1>3, LineageClosed

LEMMA LineageOrder ==
  ASSUME NEW c \in Classes, NEW d \in Lineage(c), c \in Lineage(d)
  PROVE  c = d
<1> SUFFICES ASSUME c # d PROVE FALSE
  OBVIOUS
<1> DEFINE S == {x \in Lineage(c) : c \in Lineage(x)}
<1>1. S \in (SUBSET Classes) \ {{}} /\ d \in Classes
  BY LineageClosed
<1>2. ASSUME NEW x \in S PROVE Superclass[x] \in S
  <2>1. x \in Classes /\ x \in Lineage(c) /\ c \in Lineage(x)
    BY <1>1
  <2>2. Superclass[x] # NoClass
    <3> SUFFICES ASSUME Superclass[x] = NoClass PROVE FALSE
      OBVIOUS
    <3>1. Lineage(x) \subseteq {x}
      BY <2>1, LineageLeast, ZenonT(60) DEF Closed
    <3>2. x = c
      BY <2>1, <3>1
    <3> QED
      BY <3>1, <3>2
  <2>3. Superclass[x] \in Lineage(c) /\ Superclass[x] \in Classes
    BY <2>1, <2>2, LineageClosed DEF Closed
  <2>4. Lineage(x) = {x} \cup Lineage(Superclass[x])
    BY <2>1, <2>2, LineageStep
  <2>5. CASE x # c
    BY <2>1, <2>3, <2>4, <2>5
  <2>6. CASE x = c
    <3>1. d \in Lineage(Superclass[c])
      BY <2>4, <2>6
    <3>2. Lineage(d) \subseteq Lineage(Superclass[c])
      BY <1>1, <2>3, <2>6, <3>1, LineageClosed, LineageLeast
    <3> QED
      BY <2>3, <2>6, <3>2
  <2> QED
    BY <2>5, <2>6
<1> HIDE DEF S
<1> QED
  BY <1>1, <1>2, InitializeAssumption

\* Classes that are released with c: their superclasses are too, and whatever is
\* pending below them.
LEMMA ReleasedUp ==
  ASSUME NEW c \in Classes, pending \subseteq Classes, NEW d \in Released(c), d # c
  PROVE  d \in pending /\ Superclass[d] \in Released(c)
<1>1. d \in pending /\ d \in Classes /\ c \in Lineage(d) /\ Lineage(d) \ Lineage(c) \subseteq pending
  BY DEF Released
<1>2. Superclass[d] # NoClass
  <2> SUFFICES ASSUME Superclass[d] = NoClass PROVE FALSE
    OBVIOUS
  <2>1. Lineage(d) \subseteq {d}
    BY <1>1, LineageLeast DEF Closed
  <2> QED
    BY <1>1, <2>1
<1> DEFINE e == Superclass[d]
<1>3. e \in Classes /\ Lineage(d) = {d} \cup Lineage(e)
  BY <1>1, <1>2, LineageStep
<1>4. c \in Lineage(e) /\ e \in Lineage(e)
  BY <1>1, <1>3, LineageClosed
<1>5. CASE e = c
  BY <1>1, <1>5 DEF Released
<1>6. CASE e # c
  <2>1. e \notin Lineage(c)
    BY <1>4, <1>6, LineageOrder
  <2>2. e \in pending /\ Lineage(e) \ Lineage(c) \subseteq pending
    BY <1>1, <1>3, <1>4, <2>1
  <2> QED
    BY <1>1, <1>4, <2>2 DEF Released
<1> QED
  BY <1>5, <1>6

LEMMA ReleasedDown ==
  ASSUME NEW c \in Classes, pending \subseteq Classes, NEW d \in pending, Superclass[d] \in Released(c)
  PROVE  d \in Released(c)
<1> DEFINE e == Superclass[d]
<1>1. e \in Classes /\ e # NoClass
  BY InitializeAssumption DEF Released
<1>2. Lineage(d) = {d} \cup Lineage(e)
  BY <1>1, LineageStep
<1>3. c \in Lineage(e) /\ Lineage(e) \ Lineage(c) \subseteq pending
  BY <1>1, LineageClosed DEF Released
<1> QED
  BY <1>2, <1>3 DEF Released

LEMMA ReleasedWithin ==
  ASSUME NEW c \in Classes, pending \subseteq Classes, NEW M, c \in M,
         \A d \in pending : Superclass[d] \in M => d \in M
  PROVE  Released(c) \subseteq M
<1> SUFFICES ASSUME NEW d \in Released(c), d \notin M PROVE FALSE
  OBVIOUS
<1> DEFINE A == {a \in Released(c) : a \notin M}
<1>1. A \in SUBSET Classes /\ d \in A /\ d \in Classes
  BY DEF Released
<1>2. Closed(A)
  <2> SUFFICES ASSUME NEW a \in A PROVE Superclass[a] \in A
    BY DEF Closed
  <2>1. a \in Released(c) /\ a # c /\ a \notin M
    OBVIOUS
  <2>2. a \in pending /\ Superclass[a] \in Released(c)
    BY <2>1, ReleasedUp
  <2> QED
    BY <2>1, <2>2
<1>3. Lineage(d) \subseteq A
  BY <1>1, <1>2, LineageLeast
<1>4. c \in Lineage(d)
  BY DEF Released
<1> QED
  BY <1>3, <1>4

(***************************************************************************)
(* Stacks of calls.                                                        *)
(***************************************************************************)
LEMMA CutFacts ==
  ASSUME NEW q \in Seq(Frames), NEW m \in 0..Len(q)
  PROVE  /\ SubSeq(q, 1, m) \in Seq(Frames) /\ Len(SubSeq(q, 1, m)) = m
         /\ \A k \in 1..m : SubSeq(q, 1, m)[k] = q[k]
OBVIOUS

LEMMA TopFacts ==
  ASSUME NEW q \in Seq(Frames), q # <<>>
  PROVE  /\ Len(q) \in Nat /\ Len(q) >= 1 /\ Last(q) = q[Len(q)] /\ q[Len(q)] \in Frames
         /\ Front(q) = SubSeq(q, 1, Len(q) - 1) /\ Front(q) \in Seq(Frames) /\ Len(Front(q)) = Len(q) - 1
         /\ \A k \in 1..(Len(q) - 1) : Front(q)[k] = q[k]
<1>1. Len(q) \in Nat /\ Len(q) >= 1
  OBVIOUS
<1>2. Last(q) = q[Len(q)] /\ q[Len(q)] \in Frames
  BY <1>1 DEF Last
<1>3. Len(q) - 1 \in 0..Len(q)
  BY <1>1
<1> QED
  BY <1>1, <1>2, <1>3, CutFacts DEF Front

LEMMA PushFacts ==
  ASSUME NEW q \in Seq(Frames), NEW x \in Frames
  PROVE  /\ Append(q, x) \in Seq(Frames) /\ Len(Append(q, x)) = Len(q) + 1 /\ Append(q, x) # <<>>
         /\ Append(q, x)[Len(q) + 1] = x /\ \A k \in 1..Len(q) : Append(q, x)[k] = q[k]
OBVIOUS

\* The newest call goes on as x.
Replace(q, x) == Append(Front(q), x)
LEMMA ReplaceFacts ==
  ASSUME NEW q \in Seq(Frames), q # <<>>, NEW x \in Frames
  PROVE  /\ Replace(q, x) \in Seq(Frames) /\ Len(Replace(q, x)) = Len(q) /\ Replace(q, x) # <<>>
         /\ Len(q) \in Nat /\ Len(q) >= 1 /\ Last(q) = q[Len(q)]
         /\ Replace(q, x)[Len(q)] = x /\ \A k \in 1..(Len(q) - 1) : Replace(q, x)[k] = q[k]
<1>1. Front(q) \in Seq(Frames) /\ Len(Front(q)) = Len(q) - 1 /\ Len(q) \in Nat /\ Len(q) >= 1 /\ Last(q) = q[Len(q)]
      /\ \A k \in 1..(Len(q) - 1) : Front(q)[k] = q[k]
  BY TopFacts
<1>2. /\ Append(Front(q), x) \in Seq(Frames) /\ Len(Append(Front(q), x)) = Len(Front(q)) + 1 /\ Append(Front(q), x) # <<>>
      /\ Append(Front(q), x)[Len(Front(q)) + 1] = x /\ \A k \in 1..Len(Front(q)) : Append(Front(q), x)[k] = Front(q)[k]
  BY <1>1, PushFacts
<1>3. Len(Front(q)) + 1 = Len(q) /\ 1..Len(Front(q)) = 1..(Len(q) - 1)
  BY <1>1
<1> QED
  BY <1>1, <1>2, <1>3 DEF Replace

(***************************************************************************)
(* What a thread's calls satisfy, when the newest goes on, returns or makes *)
(* another call.                                                           *)
(***************************************************************************)
LEMMA ReplaceCalls ==
  ASSUME NEW t \in Threads, NEW s \in Seq(Frames), s # <<>>, Calls(t, s), NEW x \in Frames,
         NEW top, top = s[Len(s)], x.cls = top.cls, x.at # "add", top.at # "add",
         x.at = "client" => x.todo \subseteq Uses[x.cls],
         x.at # "client" => x.todo = {},
         x.funcs # {} => x.at \in {"begin", "tell"} \/ multithreadedForkChild,
         Knows(t, x.at, x.cls), x.at # "start" => SuperUsable(t, x.cls),
         x.at \in Owning => top.at \in Owning \/ \A i \in 1..(Len(s) - 1) : s[i].at \in Owning => s[i].cls # x.cls,
         top.at \in Claiming => x.at \in Claiming
  PROVE  Calls(t, Replace(s, x))
<1> DEFINE r == Replace(s, x)
           n == Len(s)
<1>1. /\ Len(r) = n /\ n \in Nat /\ n >= 1 /\ r[n] = x /\ \A k \in 1..(n - 1) : r[k] = s[k]
  BY ReplaceFacts
<1> HIDE DEF r
<1>2. Shape(r)
  <2> SUFFICES ASSUME NEW i \in 1..n PROVE ShapeAt(r, i)
    BY <1>1 DEF Shape
  <2>0. ShapeAt(s, i) /\ ShapeAt(s, n)
    BY <1>1 DEF Calls, Shape
  <2>1. CASE i = n
    BY <1>1, <2>0, <2>1 DEF ShapeAt
  <2>2. CASE i # n
    <3>1. r[i] = s[i] /\ i < n /\ i + 1 \in 1..n /\ (i + 1 # n => r[i + 1] = s[i + 1])
      BY <1>1, <2>2
    <3>2. r[i + 1].cls = s[i + 1].cls
      BY <1>1, <3>1
    <3> QED
      BY <1>1, <2>0, <3>1, <3>2 DEF ShapeAt
  <2> QED
    BY <2>1, <2>2
<1>3. \A i \in 1..n : Knows(t, r[i].at, r[i].cls) /\ (SuperDone(r, i) => SuperUsable(t, r[i].cls))
  <2> SUFFICES ASSUME NEW i \in 1..n PROVE Knows(t, r[i].at, r[i].cls) /\ (SuperDone(r, i) => SuperUsable(t, r[i].cls))
    OBVIOUS
  <2>1. CASE i = n
    BY <1>1, <2>1 DEF SuperDone
  <2>2. CASE i # n
    BY <1>1, <2>2 DEF Calls, SuperDone
  <2> QED
    BY <2>1, <2>2
<1>4. \A i, j \in 1..n : i # j /\ r[i].at \in Owning /\ r[j].at \in Owning => r[i].cls # r[j].cls
  <2>1. \A i, j \in 1..n : i # j /\ s[i].at \in Owning /\ s[j].at \in Owning => s[i].cls # s[j].cls
    BY DEF Calls
  <2>2. \A i \in 1..(n - 1) : s[i].at \in Owning /\ x.at \in Owning => s[i].cls # x.cls
    BY <1>1, <2>1
  <2> QED
    BY <1>1, <2>1, <2>2
<1>5. \A c \in metaclasses[t] : c \in pending \/ Covers(r, c)
  <2> SUFFICES ASSUME NEW c \in metaclasses[t], c \notin pending PROVE Covers(r, c)
    OBVIOUS
  <2>1. PICK i \in 1..n : s[i].cls = c /\ s[i].at \in Claiming
    BY DEF Calls, Covers
  <2> QED
    BY <1>1, <2>1 DEF Covers
<1> QED
  BY <1>1, <1>2, <1>3, <1>4, <1>5 DEF Calls, r

\* Calls above number m leave: the newest, or all that have waited for it too.
LEMMA CutCalls ==
  ASSUME NEW t \in Threads, NEW s \in Seq(Frames), s # <<>>, Calls(t, s), NEW m \in 0..(Len(s) - 1),
         \A c \in metaclasses[t] : c \in pending \/ \E i \in 1..m : s[i].cls = c /\ s[i].at \in Claiming,
         m > 0 /\ s[m].at = "set" => SuperUsable(t, s[m].cls)
  PROVE  Calls(t, SubSeq(s, 1, m))
<1> DEFINE r == SubSeq(s, 1, m)
           n == Len(s)
<1>1. r \in Seq(Frames) /\ Len(r) = m /\ \A k \in 1..m : r[k] = s[k]
  BY CutFacts
<1>2. n \in Nat /\ m \in Nat /\ m < n
  OBVIOUS
<1> HIDE DEF r
<1>3. Shape(r)
  <2> SUFFICES ASSUME NEW i \in 1..m PROVE ShapeAt(r, i)
    BY <1>1 DEF Shape
  <2>0. ShapeAt(s, i) /\ r[i] = s[i] /\ i < n /\ (i < m => r[i + 1] = s[i + 1])
    BY <1>1, <1>2 DEF Calls, Shape
  <2> QED
    BY <1>1, <1>2, <2>0 DEF ShapeAt
<1>4. \A i \in 1..m : Knows(t, r[i].at, r[i].cls) /\ (SuperDone(r, i) => SuperUsable(t, r[i].cls))
  <2> SUFFICES ASSUME NEW i \in 1..m PROVE Knows(t, r[i].at, r[i].cls) /\ (SuperDone(r, i) => SuperUsable(t, r[i].cls))
    OBVIOUS
  <2>1. r[i] = s[i] /\ i \in 1..n /\ i < n
    BY <1>1, <1>2
  <2>2. Knows(t, s[i].at, s[i].cls) /\ (SuperDone(s, i) => SuperUsable(t, s[i].cls))
    BY <2>1 DEF Calls
  <2> QED
    BY <1>1, <1>2, <2>1, <2>2 DEF SuperDone
<1>5. \A i, j \in 1..m : i # j /\ r[i].at \in Owning /\ r[j].at \in Owning => r[i].cls # r[j].cls
  BY <1>1, <1>2 DEF Calls
<1>6. \A c \in metaclasses[t] : c \in pending \/ Covers(r, c)
  BY <1>1 DEF Covers
<1> QED
  BY <1>1, <1>3, <1>4, <1>5, <1>6 DEF Calls, r

\* A call returns to one that finds its class usable.
LEMMA PopCalls ==
  ASSUME NEW t \in Threads, NEW s \in Seq(Frames), s # <<>>, Calls(t, s),
         NEW top, top = s[Len(s)], top.at \notin Claiming,
         top.cls = NoClass \/ top.cls \in initialized \/ top.cls \in metaclasses[t]
  PROVE  Calls(t, Front(s))
<1> DEFINE n == Len(s)
           m == n - 1
<1>1. n \in Nat /\ n >= 1 /\ m \in 0..(n - 1) /\ Front(s) = SubSeq(s, 1, m) /\ m + 1 = n
  BY TopFacts
<1>2. \A c \in metaclasses[t] : c \in pending \/ \E i \in 1..m : s[i].cls = c /\ s[i].at \in Claiming
  <2> SUFFICES ASSUME NEW c \in metaclasses[t], c \notin pending
               PROVE  \E i \in 1..m : s[i].cls = c /\ s[i].at \in Claiming
    OBVIOUS
  <2>1. PICK i \in 1..n : s[i].cls = c /\ s[i].at \in Claiming
    BY DEF Calls, Covers
  <2> QED
    BY <1>1, <2>1
<1>3. m > 0 /\ s[m].at = "set" => SuperUsable(t, s[m].cls)
  BY <1>1 DEF Calls, Shape, ShapeAt, SuperUsable
<1> HIDE DEF m, n
<1>4. m \in 0..(Len(s) - 1)
  BY <1>1 DEF n
<1> QED
  BY <1>1, <1>2, <1>3, <1>4, CutCalls

LEMMA PushCalls ==
  ASSUME NEW t \in Threads, NEW s \in Seq(Frames), Calls(t, s), NEW x \in Frames,
         x.at = "start", x.cls # NoClass, x.todo = {}, x.funcs = {},
         s # <<>> => \/ s[Len(s)].at = "client" /\ Uses[s[Len(s)].cls] # {}
                     \/ s[Len(s)].at = "set" /\ Superclass[s[Len(s)].cls] = x.cls
  PROVE  Calls(t, Append(s, x))
<1> DEFINE r == Append(s, x)
           n == Len(s)
<1>1. Len(r) = n + 1 /\ r[n + 1] = x /\ \A k \in 1..n : r[k] = s[k]
  BY PushFacts
<1>2. n \in Nat /\ (n > 0 => s # <<>>)
  OBVIOUS
<1> HIDE DEF r
<1>3. Shape(r)
  <2> SUFFICES ASSUME NEW i \in 1..(n + 1) PROVE ShapeAt(r, i)
    BY <1>1 DEF Shape
  <2>1. CASE i = n + 1
    BY <1>1, <1>2, <2>1 DEF ShapeAt
  <2>2. CASE i = n
    BY <1>1, <1>2, <2>2 DEF Calls, Shape, ShapeAt
  <2>3. CASE i < n
    <3>1. i \in 1..n /\ i + 1 \in 1..n /\ r[i] = s[i] /\ r[i + 1] = s[i + 1]
      BY <1>1, <1>2, <2>3
    <3> QED
      BY <1>1, <1>2, <2>3, <3>1 DEF Calls, Shape, ShapeAt
  <2> QED
    BY <1>2, <2>1, <2>2, <2>3
<1>4. \A i \in 1..(n + 1) : Knows(t, r[i].at, r[i].cls) /\ (SuperDone(r, i) => SuperUsable(t, r[i].cls))
  <2> SUFFICES ASSUME NEW i \in 1..(n + 1) PROVE Knows(t, r[i].at, r[i].cls) /\ (SuperDone(r, i) => SuperUsable(t, r[i].cls))
    OBVIOUS
  <2>1. CASE i = n + 1
    BY <1>1, <2>1 DEF SuperDone, Knows, Owning, Claiming
  <2>2. CASE i # n + 1
    BY <1>1, <1>2, <2>2 DEF Calls, SuperDone
  <2> QED
    BY <2>1, <2>2
<1>5. \A i, j \in 1..(n + 1) : i # j /\ r[i].at \in Owning /\ r[j].at \in Owning => r[i].cls # r[j].cls
  BY <1>1, <1>2 DEF Calls, Owning
<1>6. \A c \in metaclasses[t] : c \in pending \/ Covers(r, c)
  BY <1>1, <1>2 DEF Calls, Covers
<1> QED
  BY <1>1, <1>3, <1>4, <1>5, <1>6 DEF Calls, r

\* Only the newest call may owe something, or be about to claim its class.
LEMMA OwesTop ==
  ASSUME NEW t \in Threads, NEW s \in Seq(Frames), Calls(t, s), ~multithreadedForkChild, NEW f \in Funcs, NEW c \in Classes
  PROVE  Owes(f, c, s) <=> s # <<>> /\ f \in s[Len(s)].funcs /\ (s[Len(s)].cls = c \/ c \in s[Len(s)].todo)
<1>1. Len(s) \in Nat /\ (s # <<>> <=> Len(s) >= 1)
  OBVIOUS
<1>2. \A i \in 1..Len(s) : i # Len(s) => s[i].funcs = {}
  BY <1>1 DEF Calls, Shape, ShapeAt
<1> QED
  BY <1>1, <1>2 DEF Owes

LEMMA BeginsTop ==
  ASSUME NEW t \in Threads, NEW s \in Seq(Frames), Calls(t, s), NEW c \in Classes
  PROVE  c \in Begins(s) <=> s # <<>> /\ s[Len(s)].at = "begin" /\ s[Len(s)].cls = c
<1>1. Len(s) \in Nat /\ (s # <<>> <=> Len(s) >= 1)
  OBVIOUS
<1>2. \A i \in 1..Len(s) : i # Len(s) => s[i].at # "begin"
  BY <1>1 DEF Calls, Shape, ShapeAt
<1> QED
  BY <1>1, <1>2 DEF Begins

LEMMA OwedIs ==
  ASSUME NEW f, NEW c
  PROVE  (TypeInv => Owed(f, c) = {t \in Threads : Owes(f, c, stack[t])})
         /\ (TypeInv' => Owed(f, c)' = {t \in Threads : Owes(f, c, stack'[t])})
<1>1. ASSUME TypeInv, NEW t \in Threads PROVE DOMAIN stack[t] = 1..Len(stack[t])
  <2>1. stack[t] \in Seq(Frames)
    BY <1>1 DEF TypeInv
  <2> QED
    BY <2>1
<1>2. ASSUME TypeInv', NEW t \in Threads PROVE DOMAIN stack'[t] = 1..Len(stack'[t])
  <2>1. stack'[t] \in Seq(Frames)
    BY <1>2 DEF TypeInv
  <2> QED
    BY <2>1
<1> QED
  BY <1>1, <1>2 DEF Owed, Owes

\* Calls that stay as they are while others change the flags.
LEMMA CallsKept ==
  ASSUME NEW u \in Threads, NEW r \in Seq(Frames), Calls(u, r),
         initialized \subseteq initialized', Begun \subseteq Begun', metaclasses'[u] = metaclasses[u],
         multithreadedForkChild' = multithreadedForkChild,
         \A i \in 1..Len(r) : r[i].at \in Owning => r[i].cls \notin pending',
         \A c \in metaclasses[u] : c \in pending => c \in pending' \/ Covers(r, c),
         ~multithreadedForkChild => \A i \in 1..Len(r) : r[i].at \in Owning => sent'[r[i].cls] = sent[r[i].cls]
  PROVE  Calls(u, r)'
<1>1. Shape(r)'
  BY DEF Calls, Shape, ShapeAt
<1>2. ASSUME NEW i \in 1..Len(r)
      PROVE  Knows(u, r[i].at, r[i].cls)' /\ (SuperDone(r, i)' => SuperUsable(u, r[i].cls)')
  <2>1. Knows(u, r[i].at, r[i].cls) /\ (SuperDone(r, i) => SuperUsable(u, r[i].cls))
    BY DEF Calls
  <2>2. Knows(u, r[i].at, r[i].cls)'
    BY <2>1 DEF Knows, Owning, Claiming
  <2>3. SuperDone(r, i)' => SuperUsable(u, r[i].cls)'
    BY <2>1 DEF SuperDone, SuperUsable
  <2> QED
    BY <2>2, <2>3
<1>3. \A c \in metaclasses'[u] : c \in pending' \/ Covers(r, c)'
  BY DEF Calls, Covers
<1> QED
  BY <1>1, <1>2, <1>3 DEF Calls

LEMMA CountedKept ==
  ASSUME TypeInv, TypeInv', NEW f \in Funcs, NEW c \in Classes, Counted(f, c), told'[f][c] = told[f][c],
         f \in willInitializeFuncs' /\ c \in Begun' <=> f \in willInitializeFuncs /\ c \in Begun,
         \A u \in Threads : Owes(f, c, stack'[u]) <=> Owes(f, c, stack[u])
  PROVE  Counted(f, c)'
<1>1. Owed(f, c)' = Owed(f, c)
  BY OwedIs, ZenonT(60)
<1> QED
  BY <1>1 DEF Counted

\* A step of one thread that changes neither flags, lists nor counts.
LEMMA SameFlags ==
  ASSUME IndInv, NEW t \in Threads, NEW q \in Seq(Frames),
         UNCHANGED <<flags, metaclasses, process, ghosts>>, halted' \in {"no", "after fork"},
         stack' = [stack EXCEPT ![t] = q], Calls(t, q),
         q # <<>> => q[Len(q)].at # "begin",
         ~multithreadedForkChild => \A f \in Funcs, c \in Classes : ~Owes(f, c, q) /\ ~Owes(f, c, stack[t]),
         multithreadedForkChild => /\ Fresh(t, stack[t]) => Fresh(t, q)
                                   /\ Doomed(stack[t]) => Doomed(q)
  PROVE  IndInv'
<1>0. UNCHANGED <<initializing, initialized, pending, metaclasses, willInitializeFuncs, multithreadedForkChild, sent, told>>
      /\ Begun' = Begun
  BY DEF flags, process, ghosts, Begun
<1>1. stack'[t] = q /\ (\A u \in Threads : u # t => stack'[u] = stack[u]) /\ stack' \in [Threads -> Seq(Frames)]
  BY DEF IndInv, TypeInv
<1>2. TypeInv'
  BY <1>0, <1>1 DEF IndInv, TypeInv
<1>3. ASSUME NEW u \in Threads, NEW r \in Seq(Frames), Calls(u, r) PROVE Calls(u, r)'
  <2>1. \A i \in 1..Len(r) : r[i].at \in Owning => r[i].cls \notin pending'
    BY <1>0, <1>3 DEF Calls, Knows
  <2> QED
    BY <1>0, <1>3, <2>1, CallsKept
<1>4. StackInv'
  <2> SUFFICES ASSUME NEW u \in Threads PROVE Calls(u, stack[u])'
    BY DEF StackInv
  <2>1. CASE u = t
    BY <1>1, <1>3, <2>1
  <2>2. CASE u # t
    <3>1. stack[u] \in Seq(Frames) /\ Calls(u, stack[u]) /\ stack'[u] = stack[u]
      BY <1>1, <2>2 DEF IndInv, TypeInv, StackInv
    <3> QED
      BY <1>3, <3>1
  <2> QED
    BY <2>1, <2>2
<1>5. ClaimInv' /\ FlagInv' /\ PendingInv' /\ SentInv'
  BY <1>0 DEF IndInv, ClaimInv, FlagInv, PendingInv, SentInv, SuperUsable
<1>6. ParentInv'
  <2> SUFFICES ASSUME ~multithreadedForkChild
               PROVE  /\ \A u, v \in Threads : u # v => Own(u)' \cap Own(v)' = {}
                      /\ \A u \in Threads : Own(u)' \cap initialized' = {}
                      /\ \A c \in pending' : \E u \in Threads : c \in metaclasses'[u]
                      /\ \A c \in Classes : (c \notin Begun' => sent'[c] = 0) /\ (c \in initialized' \cup pending' => sent'[c] = 1)
                      /\ \A f \in Funcs, c \in Classes : Counted(f, c)'
    BY <1>0 DEF ParentInv
  <2>0. ParentInv /\ ~multithreadedForkChild
    BY DEF IndInv
  <2>1. \A u \in Threads : Own(u)' \subseteq Own(u)
    <3>1. Begins(q) = {}
      BY BeginsTop DEF Begins
    <3>2. \A u \in Threads : Begins(stack[u])' \subseteq Begins(stack[u])
      <4>1. Begins(stack[t])' = {}
        BY <1>1, <3>1 DEF Begins
      <4>2. \A u \in Threads : u # t => Begins(stack[u])' = Begins(stack[u])
        BY <1>1 DEF Begins
      <4> QED
        BY <4>1, <4>2
    <3> QED
      BY <1>0, <3>2 DEF Own
  <2>2. \A f \in Funcs, c \in Classes : Counted(f, c)'
    <3> SUFFICES ASSUME NEW f \in Funcs, NEW c \in Classes PROVE Counted(f, c)'
      OBVIOUS
    <3>1. \A u \in Threads : Owes(f, c, stack'[u]) <=> Owes(f, c, stack[u])
      BY <1>1
    <3>2. Counted(f, c) /\ TypeInv
      BY <2>0 DEF ParentInv, IndInv
    <3> QED
      BY <1>0, <1>2, <3>1, <3>2, CountedKept
  <2> QED
    BY <1>0, <2>0, <2>1, <2>2 DEF ParentInv
<1>7. ChildInv'
  <2> SUFFICES ASSUME multithreadedForkChild
               PROVE  Forks /\ \E w \in Threads : Survives(w, stack[w])' /\ \A u \in Threads \ {w} : Fresh(u, stack[u])'
    BY <1>0 DEF ChildInv
  <2>1. PICK w \in Threads : Survives(w, stack[w]) /\ \A u \in Threads \ {w} : Fresh(u, stack[u])
    BY DEF IndInv, ChildInv
  <2>2. Survives(w, stack[w])'
    <3>1. Doomed(stack[w]) => Doomed(stack'[w])
      BY <1>1
    <3> QED
      BY <1>0, <2>1, <3>1 DEF Survives, Doomed
  <2>3. \A u \in Threads \ {w} : Fresh(u, stack[u])'
    <3>1. \A u \in Threads \ {w} : Fresh(u, stack'[u])
      BY <1>1, <2>1
    <3> QED
      BY <1>0, <3>1 DEF Fresh
  <2> QED
    BY <2>2, <2>3 DEF IndInv, ChildInv
<1> QED
  BY <1>2, <1>4, <1>5, <1>6, <1>7 DEF IndInv

LEMMA TopIs ==
  ASSUME IndInv, NEW t \in Threads, stack[t] # <<>>
  PROVE  /\ stack[t] \in Seq(Frames) /\ Calls(t, stack[t]) /\ Len(stack[t]) \in Nat /\ Len(stack[t]) >= 1
         /\ Len(stack[t]) \in 1..Len(stack[t])
         /\ Top(t) = stack[t][Len(stack[t])] /\ Top(t) \in Frames /\ ShapeAt(stack[t], Len(stack[t]))
         /\ Knows(t, Top(t).at, Top(t).cls) /\ (Top(t).at # "add" => Top(t).cls \in Classes /\ Top(t).cls # NoClass)
         /\ (Top(t).at \notin {"start", "add"} => SuperUsable(t, Top(t).cls))
         /\ (~multithreadedForkChild /\ Top(t).at \notin {"begin", "tell", "add"} => Top(t).funcs = {})
         /\ (Top(t).at \notin {"client", "add"} => Top(t).todo = {})
<1>1. stack[t] \in Seq(Frames) /\ Calls(t, stack[t])
  BY DEF IndInv, TypeInv, StackInv
<1>2. Len(stack[t]) \in Nat /\ Len(stack[t]) >= 1 /\ Top(t) = stack[t][Len(stack[t])] /\ Top(t) \in Frames
  BY <1>1, TopFacts DEF Top
<1>3. /\ ShapeAt(stack[t], Len(stack[t])) /\ Knows(t, Top(t).at, Top(t).cls)
      /\ (SuperDone(stack[t], Len(stack[t])) => SuperUsable(t, Top(t).cls))
  BY <1>1, <1>2 DEF Calls, Shape
<1>4. Top(t).cls \in Classes \cup {NoClass}
  BY <1>2 DEF Frames
<1> QED
  BY <1>1, <1>2, <1>3, <1>4 DEF ShapeAt, SuperDone

LEMMA FreshReplace ==
  ASSUME NEW t \in Threads, NEW s \in Seq(Frames), s # <<>>, Fresh(t, s), NEW x \in Frames, x.cls = s[Len(s)].cls,
         x.at # "client", x.at = "finish" => classHasTrivialInitialize(x.cls),
         s[Len(s)].at \in {"fork", "finish"} => x.at \in {"fork", "finish"}
  PROVE  Fresh(t, Replace(s, x))
<1> DEFINE r == Replace(s, x)
<1>1. /\ Len(r) = Len(s) /\ r # <<>> /\ Len(s) \in Nat /\ r[Len(s)] = x
      /\ \A k \in 1..(Len(s) - 1) : r[k] = s[k]
  BY ReplaceFacts
<1> HIDE DEF r
<1>2. \A i \in 1..Len(r) : r[i].at # "client" /\ (r[i].at = "finish" => classHasTrivialInitialize(r[i].cls))
  BY <1>1 DEF Fresh
<1> QED
  BY <1>1, <1>2 DEF Fresh, r

LEMMA FreshCut ==
  ASSUME NEW t \in Threads, NEW s \in Seq(Frames), s # <<>>, Fresh(t, s), s[Len(s)].at \notin {"fork", "finish"}
  PROVE  metaclasses[t] = {} /\ Fresh(t, Front(s))
<1>1. metaclasses[t] = {}
  BY DEF Fresh
<1>2. Len(s) \in Nat /\ Len(Front(s)) = Len(s) - 1 /\ \A k \in 1..(Len(s) - 1) : Front(s)[k] = s[k]
  BY TopFacts
<1> QED
  BY <1>1, <1>2 DEF Fresh

LEMMA FreshPush ==
  ASSUME NEW t \in Threads, NEW s \in Seq(Frames), Fresh(t, s), s # <<>> => s[Len(s)].at \notin {"fork", "finish"},
         NEW x \in Frames, x.at = "start"
  PROVE  Fresh(t, Append(s, x))
<1>1. metaclasses[t] = {}
  BY DEF Fresh
<1>2. Len(s) \in Nat /\ Len(Append(s, x)) = Len(s) + 1 /\ Append(s, x)[Len(s) + 1] = x /\ \A k \in 1..Len(s) : Append(s, x)[k] = s[k]
  BY PushFacts
<1> QED
  BY <1>1, <1>2 DEF Fresh

\* The newest call goes on to another step.
LEMMA GoesOn ==
  ASSUME IndInv, NEW t \in Threads, stack[t] # <<>>, NEW x \in Frames,
         UNCHANGED <<flags, metaclasses, process, ghosts>>, halted' \in {"no", "after fork"},
         stack' = [stack EXCEPT ![t] = Replace(stack[t], x)],
         x.cls = Top(t).cls, x.funcs = Top(t).funcs, x.todo = {},
         Top(t).at # "add", x.at \notin {"add", "start", "begin", "client"},
         ~multithreadedForkChild => Top(t).funcs = {},
         Knows(t, x.at, x.cls), SuperUsable(t, x.cls),
         x.at \in Owning => Top(t).at \in Owning, Top(t).at \in Claiming => x.at \in Claiming,
         x.at = "finish" => Top(t).at = "client" \/ classHasTrivialInitialize(x.cls),
         Top(t).at = "finish" => x.at = "finish",
         Top(t).at = "fork" => x.at = "finish" /\ classHasTrivialInitialize(x.cls)
  PROVE  IndInv'
<1> DEFINE s == stack[t]
           q == Replace(s, x)
           n == Len(s)
<1>0. /\ s \in Seq(Frames) /\ s # <<>> /\ Calls(t, s) /\ n \in Nat /\ n >= 1 /\ Top(t) = s[n] /\ Top(t).cls \in Classes
  BY TopIs
<1>1. q \in Seq(Frames) /\ q # <<>> /\ Len(q) = n /\ q[n] = x
  BY <1>0, ReplaceFacts
<1>2. Calls(t, q)
  BY <1>0, ReplaceCalls
<1>3. ASSUME ~multithreadedForkChild, NEW f \in Funcs, NEW c \in Classes PROVE ~Owes(f, c, q) /\ ~Owes(f, c, s)
  BY <1>0, <1>1, <1>2, <1>3, OwesTop
<1>4. ASSUME multithreadedForkChild, Fresh(t, s) PROVE Fresh(t, q)
  <2>1. s[n].at # "client"
    <3>1. n \in 1..n
      BY TopIs
    <3> QED
      BY <1>4, <3>1 DEF Fresh
  <2> QED
    BY <1>0, <1>4, <2>1, FreshReplace
<1>5. ~Doomed(s)
  BY <1>0 DEF Doomed
<1> HIDE DEF q, s
<1> QED
  BY <1>1, <1>2, <1>3, <1>4, <1>5, SameFlags DEF q, s

\* The call below the newest.
LEMMA BelowTop ==
  ASSUME NEW t \in Threads, NEW s \in Seq(Frames), s # <<>>, Calls(t, s), Front(s) # <<>>
  PROVE  /\ Front(s)[Len(Front(s))].at \in {"set", "client"}
         /\ ~multithreadedForkChild => Front(s)[Len(Front(s))].funcs = {}
<1> DEFINE q == Front(s)
           n == Len(s)
<1>1. n \in Nat /\ n >= 1 /\ q \in Seq(Frames) /\ Len(q) = n - 1 /\ \A k \in 1..(n - 1) : q[k] = s[k]
  BY TopFacts
<1> HIDE DEF q
<1>2. Len(q) >= 1
  BY <1>1 DEF q
<1>3. n - 1 \in 1..n /\ n - 1 < n /\ q[Len(q)] = s[n - 1]
  BY <1>1, <1>2
<1>4. ShapeAt(s, n - 1)
  BY <1>3 DEF Calls, Shape
<1> QED
  BY <1>3, <1>4 DEF ShapeAt, q

\* The newest call returns: its caller may use the class.
LEMMA Returns ==
  ASSUME IndInv, NEW t \in Threads, stack[t] # <<>>,
         UNCHANGED <<flags, metaclasses, process, ghosts>>, halted' \in {"no", "after fork"},
         stack' = [stack EXCEPT ![t] = Front(stack[t])],
         Top(t).at \notin Owning,
         Top(t).cls = NoClass \/ Top(t).cls \in initialized \/ Top(t).cls \in metaclasses[t],
         ~multithreadedForkChild => Top(t).funcs = {} \/ (Top(t).cls = NoClass /\ Top(t).todo = {})
  PROVE  IndInv'
<1> DEFINE s == stack[t]
           q == Front(s)
           n == Len(s)
<1>0. /\ s \in Seq(Frames) /\ s # <<>> /\ Calls(t, s) /\ n \in Nat /\ n >= 1 /\ Top(t) = s[n]
  BY TopIs
<1>1. q \in Seq(Frames) /\ Len(q) = n - 1 /\ \A k \in 1..(n - 1) : q[k] = s[k]
  BY <1>0, TopFacts
<1>2. Calls(t, q)
  BY <1>0, PopCalls DEF Claiming
<1> HIDE DEF q, s, n
<1>3. q # <<>> => q[Len(q)].at \in {"set", "client"} /\ (~multithreadedForkChild => q[Len(q)].funcs = {})
  BY <1>0, BelowTop DEF q
<1>4. ASSUME ~multithreadedForkChild, NEW f \in Funcs, NEW c \in Classes PROVE ~Owes(f, c, q) /\ ~Owes(f, c, s)
  <2>1. ~Owes(f, c, q)
    BY <1>1, <1>2, <1>3, <1>4, OwesTop
  <2>2. ~Owes(f, c, s)
    <3>1. Owes(f, c, s) => f \in s[n].funcs /\ (s[n].cls = c \/ c \in s[n].todo)
      BY <1>0, <1>4, OwesTop DEF n
    <3>2. c # NoClass
      BY InitializeAssumption
    <3> QED
      BY <1>0, <1>4, <3>1, <3>2
  <2> QED
    BY <2>1, <2>2
<1>5. ASSUME multithreadedForkChild, Fresh(t, s) PROVE Fresh(t, q)
  BY <1>0, <1>5, FreshCut DEF Owning, n, q
<1>6. ~Doomed(s)
  BY <1>0 DEF Doomed, Owning, n
<1> QED
  BY <1>1, <1>2, <1>3, <1>4, <1>5, <1>6, SameFlags DEF q, s

LEMMA AtFacts ==
  ASSUME NEW f \in Frames, NEW a \in Steps
  PROVE  /\ [f EXCEPT !.at = a] \in Frames /\ [f EXCEPT !.at = a].at = a /\ [f EXCEPT !.at = a].cls = f.cls
         /\ [f EXCEPT !.at = a].todo = f.todo /\ [f EXCEPT !.at = a].funcs = f.funcs /\ [f EXCEPT !.at = a].throws = f.throws
BY DEF Frames

LEMMA UpdateIs ==
  ASSUME NEW t, NEW x
  PROVE  Update(t, x) = [stack EXCEPT ![t] = Replace(stack[t], x)]
BY DEF Update, Replace

LEMMA CallFacts ==
  ASSUME NEW c \in Classes \cup {NoClass}
  PROVE  /\ Call(c) \in Frames /\ Call(c).cls = c /\ Call(c).at = "start" /\ Call(c).todo = {} /\ Call(c).funcs = {}
         /\ Call(c).throws = FALSE
BY DEF Call, Frames, Steps

----------------------------------------------------------------------------
(* One lemma for each action: it preserves the invariant.                  *)

LEMMA SetFailsKeeps ==
  ASSUME IndInv, halted = "no", NEW t \in Threads, SetFails(t)
  PROVE  IndInv'
<1> DEFINE x == [Top(t) EXCEPT !.at = "isInitializing"]
<1>1. stack[t] # <<>> /\ Top(t).at = "set" /\ Top(t).cls \in Begun /\ stack' = [stack EXCEPT ![t] = Replace(stack[t], x)]
      /\ UNCHANGED <<flags, metaclasses, process, halted, ghosts>>
  BY UpdateIs DEF SetFails, At, Goto, Begun
<1>2. Top(t) \in Frames /\ SuperUsable(t, Top(t).cls) /\ Top(t).todo = {} /\ (~multithreadedForkChild => Top(t).funcs = {})
  BY <1>1, TopIs
<1>3. x \in Frames /\ x.at = "isInitializing" /\ x.cls = Top(t).cls /\ x.funcs = Top(t).funcs /\ x.todo = Top(t).todo
  BY <1>2, AtFacts DEF Steps
<1> HIDE DEF x
<1>4. Knows(t, x.at, x.cls) /\ x.at \notin Owning /\ Top(t).at \notin Claiming
  BY <1>1, <1>3 DEF Knows, Owning, Claiming
<1> QED
  BY <1>1, <1>2, <1>3, <1>4, GoesOn

LEMMA InitializeReturnsKeeps ==
  ASSUME IndInv, halted = "no", NEW t \in Threads, NEW throws \in BOOLEAN, InitializeReturns(t, throws)
  PROVE  IndInv'
<1> DEFINE x == [Top(t) EXCEPT !.at = "finish", !.todo = {}, !.throws = throws]
<1>1. stack[t] # <<>> /\ Top(t).at = "client" /\ stack' = [stack EXCEPT ![t] = Replace(stack[t], x)]
      /\ UNCHANGED <<flags, metaclasses, process, halted, ghosts>>
  BY UpdateIs DEF InitializeReturns, At
<1>2. Top(t) \in Frames /\ SuperUsable(t, Top(t).cls) /\ (~multithreadedForkChild => Top(t).funcs = {})
      /\ Knows(t, "client", Top(t).cls)
  BY <1>1, TopIs
<1>3. x \in Frames /\ x.at = "finish" /\ x.cls = Top(t).cls /\ x.funcs = Top(t).funcs /\ x.todo = {}
  BY <1>2 DEF Frames, Steps
<1> HIDE DEF x
<1>4. Knows(t, x.at, x.cls) /\ x.at \in Owning /\ x.at \in Claiming /\ Top(t).at \in Owning
  BY <1>1, <1>2, <1>3 DEF Knows, Owning, Claiming
<1> QED
  BY <1>1, <1>2, <1>3, <1>4, GoesOn

LEMMA HaltKeeps ==
  ASSUME IndInv, halted' \in {"no", "after fork"}, UNCHANGED <<flags, metaclasses, process, stack, ghosts>>
  PROVE  IndInv'
<1>0. UNCHANGED <<initializing, initialized, pending, metaclasses, willInitializeFuncs, multithreadedForkChild, stack, sent, told>>
  BY DEF flags, process, ghosts
<1>1. TypeInv' /\ ClaimInv' /\ FlagInv' /\ PendingInv' /\ SentInv'
  BY <1>0 DEF IndInv, TypeInv, ClaimInv, FlagInv, PendingInv, SentInv, SuperUsable, Begun
<1>2. ASSUME NEW u \in Threads PROVE Calls(u, stack[u])'
  <2>1. stack[u] \in Seq(Frames) /\ Calls(u, stack[u]) /\ stack'[u] = stack[u] /\ Begun' = Begun
    BY <1>0 DEF IndInv, TypeInv, StackInv, Begun
  <2>2. \A i \in 1..Len(stack[u]) : stack[u][i].at \in Owning => stack[u][i].cls \notin pending'
    BY <1>0, <2>1 DEF Calls, Knows
  <2> QED
    BY <1>0, <2>1, <2>2, CallsKept
<1>3. StackInv'
  BY <1>2 DEF StackInv
<1>4. ParentInv'
  <2>1. \A u \in Threads : Own(u)' = Own(u)
    BY <1>0 DEF Own, Begins
  <2>2. \A f \in Funcs, c \in Classes : Counted(f, c) => Counted(f, c)'
    <3>1. \A f \in Funcs, c \in Classes : Owed(f, c)' = Owed(f, c)
      BY <1>0 DEF Owed
    <3> QED
      BY <1>0, <3>1 DEF Counted, Begun
  <2> QED
    BY <1>0, <2>1, <2>2 DEF IndInv, ParentInv, Begun
<1>5. ChildInv'
  <2>1. \A u \in Threads : (Survives(u, stack[u]) => Survives(u, stack[u])') /\ (Fresh(u, stack[u]) => Fresh(u, stack[u])')
    BY <1>0 DEF Survives, Doomed, Fresh
  <2> QED
    BY <1>0, <2>1 DEF IndInv, ChildInv
<1> QED
  BY <1>1, <1>3, <1>4, <1>5 DEF IndInv

LEMMA ForkChildInitializeKeeps ==
  ASSUME IndInv, halted = "no", NEW t \in Threads, ForkChildInitialize(t)
  PROVE  IndInv'
<1> DEFINE x == [Top(t) EXCEPT !.at = "finish"]
<1>1. stack[t] # <<>> /\ Top(t).at = "fork" /\ UNCHANGED <<flags, metaclasses, process, ghosts>>
  BY DEF ForkChildInitialize, At
<1>2. CASE ~classHasTrivialInitialize(Top(t).cls)
  BY <1>1, <1>2, HaltKeeps DEF ForkChildInitialize
<1>3. CASE classHasTrivialInitialize(Top(t).cls)
  <2>1. stack' = [stack EXCEPT ![t] = Replace(stack[t], x)] /\ halted' = "no"
    BY <1>3, UpdateIs DEF ForkChildInitialize, Goto
  <2>2. Top(t) \in Frames /\ SuperUsable(t, Top(t).cls) /\ Top(t).todo = {} /\ Knows(t, "fork", Top(t).cls)
    BY <1>1, TopIs
  <2>3. x \in Frames /\ x.at = "finish" /\ x.cls = Top(t).cls /\ x.funcs = Top(t).funcs /\ x.todo = Top(t).todo
    BY <2>2, AtFacts DEF Steps
  <2> HIDE DEF x
  <2>4. Knows(t, x.at, x.cls) /\ x.at \in Owning /\ x.at \in Claiming /\ Top(t).at \in Owning /\ multithreadedForkChild
    BY <1>1, <2>2, <2>3 DEF Knows, Owning, Claiming
  <2> QED
    BY <1>1, <1>3, <2>1, <2>2, <2>3, <2>4, GoesOn
<1> QED
  BY <1>2, <1>3

LEMMA IsInitializingKeeps ==
  ASSUME IndInv, halted = "no", NEW t \in Threads, IsInitializing(t)
  PROVE  IndInv'
<1> DEFINE c == Top(t).cls
           x(a) == [Top(t) EXCEPT !.at = a]
<1>1. stack[t] # <<>> /\ Top(t).at = "isInitializing" /\ UNCHANGED <<flags, metaclasses, process, halted, ghosts>>
  BY DEF IsInitializing, At
<1>2. Top(t) \in Frames /\ SuperUsable(t, c) /\ Top(t).todo = {} /\ Knows(t, "isInitializing", c)
      /\ (~multithreadedForkChild => Top(t).funcs = {})
  BY <1>1, TopIs
<1>3. c \in Begun
  BY <1>2 DEF Knows
<1>4. ASSUME NEW a \in {"isInitialized", "takeOver", "wait"}, Knows(t, a, c),
             stack' = [stack EXCEPT ![t] = Replace(stack[t], x(a))]
      PROVE  IndInv'
  <2>0. a \in Steps
    BY DEF Steps
  <2>1. x(a) \in Frames /\ x(a).at = a /\ x(a).cls = c /\ x(a).funcs = Top(t).funcs /\ x(a).todo = {}
    <3>1. /\ [Top(t) EXCEPT !.at = a] \in Frames /\ [Top(t) EXCEPT !.at = a].at = a /\ [Top(t) EXCEPT !.at = a].cls = Top(t).cls
          /\ [Top(t) EXCEPT !.at = a].todo = Top(t).todo /\ [Top(t) EXCEPT !.at = a].funcs = Top(t).funcs
      BY <1>2, <2>0, AtFacts
    <3> QED
      BY <1>2, <3>1
  <2>2. a \notin Owning /\ Top(t).at \notin Claiming
    BY <1>1 DEF Owning, Claiming
  <2> HIDE DEF x
  <2> QED
    BY <1>1, <1>2, <1>4, <2>1, <2>2, GoesOn
<1>5. CASE c \notin initializing
  <2>1. stack' = [stack EXCEPT ![t] = Replace(stack[t], x("isInitialized"))]
    BY <1>5, UpdateIs DEF IsInitializing, Goto
  <2>2. Knows(t, "isInitialized", c)
    BY <1>3, <1>5 DEF Knows, Owning, Claiming, Begun
  <2> QED
    BY <1>4, <2>1, <2>2
<1>6. CASE c \in initializing /\ c \in metaclasses[t]
  <2>1. stack' = [stack EXCEPT ![t] = Front(stack[t])]
    BY <1>6 DEF IsInitializing, ThisThreadIsInitializingClass, Return
  <2> QED
    BY <1>1, <1>2, <1>6, <2>1, Returns DEF Owning
<1>7. CASE c \in initializing /\ c \notin metaclasses[t] /\ multithreadedForkChild
  <2>1. stack' = [stack EXCEPT ![t] = Replace(stack[t], x("takeOver"))]
    BY <1>7, UpdateIs DEF IsInitializing, Goto, ThisThreadIsInitializingClass
  <2>2. Knows(t, "takeOver", c)
    BY <1>3, <1>7 DEF Knows, Owning, Claiming
  <2> QED
    BY <1>4, <2>1, <2>2
<1>8. CASE c \in initializing /\ c \notin metaclasses[t] /\ ~multithreadedForkChild
  <2>1. stack' = [stack EXCEPT ![t] = Replace(stack[t], x("wait"))]
    BY <1>8, UpdateIs DEF IsInitializing, Goto, ThisThreadIsInitializingClass
  <2>2. Knows(t, "wait", c)
    BY <1>3, <1>8 DEF Knows, Owning, Claiming
  <2> QED
    BY <1>4, <2>1, <2>2
<1> QED
  BY <1>5, <1>6, <1>7, <1>8

LEMMA IsInitializedKeeps ==
  ASSUME IndInv, halted = "no", NEW t \in Threads, IsInitialized(t)
  PROVE  IndInv'
<1>1. stack[t] # <<>> /\ Top(t).at = "isInitialized" /\ UNCHANGED <<flags, metaclasses, process, ghosts>>
  BY DEF IsInitialized, At
<1>2. Knows(t, "isInitialized", Top(t).cls) /\ (~multithreadedForkChild => Top(t).funcs = {})
  BY <1>1, TopIs
<1>3. Top(t).cls \in initialized
  BY <1>2 DEF Knows
<1>4. stack' = [stack EXCEPT ![t] = Front(stack[t])] /\ halted' = "no"
  BY <1>3 DEF IsInitialized, Return
<1> QED
  BY <1>1, <1>2, <1>3, <1>4, Returns DEF Owning

LEMMA WaitKeeps ==
  ASSUME IndInv, halted = "no", NEW t \in Threads, Wait(t)
  PROVE  IndInv'
<1> DEFINE x == [Top(t) EXCEPT !.at = "blocked"]
<1>1. stack[t] # <<>> /\ Top(t).at = "wait" /\ UNCHANGED <<flags, metaclasses, process, halted, ghosts>>
  BY DEF Wait, At
<1>2. Top(t) \in Frames /\ SuperUsable(t, Top(t).cls) /\ Top(t).todo = {} /\ Knows(t, "wait", Top(t).cls)
      /\ (~multithreadedForkChild => Top(t).funcs = {})
  BY <1>1, TopIs
<1>3. CASE Top(t).cls \in initialized
  <2>1. stack' = [stack EXCEPT ![t] = Front(stack[t])]
    BY <1>3 DEF Wait, Return
  <2> QED
    BY <1>1, <1>2, <1>3, <2>1, Returns DEF Owning
<1>4. CASE Top(t).cls \notin initialized
  <2>1. stack' = [stack EXCEPT ![t] = Replace(stack[t], x)]
    BY <1>4, UpdateIs DEF Wait, Goto
  <2>2. x \in Frames /\ x.at = "blocked" /\ x.cls = Top(t).cls /\ x.funcs = Top(t).funcs /\ x.todo = Top(t).todo
    BY <1>2, AtFacts DEF Steps
  <2> HIDE DEF x
  <2>3. Knows(t, x.at, x.cls) /\ x.at \notin Owning /\ Top(t).at \notin Claiming
    BY <1>1, <1>2, <2>2 DEF Knows, Owning, Claiming
  <2> QED
    BY <1>1, <1>2, <2>1, <2>2, <2>3, GoesOn
<1> QED
  BY <1>3, <1>4

LEMMA AddReturnsKeeps ==
  ASSUME IndInv, halted = "no", NEW t \in Threads, AddReturns(t)
  PROVE  IndInv'
<1>1. stack[t] # <<>> /\ Top(t).at = "add" /\ Top(t).todo = {} /\ stack' = [stack EXCEPT ![t] = Front(stack[t])]
      /\ UNCHANGED <<flags, metaclasses, process, halted, ghosts>>
  BY DEF AddReturns, At, Return
<1>2. Top(t).cls = NoClass
  BY <1>1, TopIs DEF ShapeAt
<1> QED
  BY <1>1, <1>2, Returns DEF Owning

\* The newest call has its superclass seen to first.
LEMMA SuperFirst ==
  ASSUME NEW t \in Threads, NEW s \in Seq(Frames), s # <<>>, Calls(t, s), NEW x \in Frames, NEW y \in Frames,
         s[Len(s)].at = "start", x.cls = s[Len(s)].cls, x.at = "set", x.todo = {}, x.funcs = s[Len(s)].funcs,
         y.cls = Superclass[x.cls], y.cls # NoClass, y.at = "start", y.todo = {}, y.funcs = {}
  PROVE  Calls(t, Append(Replace(s, x), y))
<1> DEFINE q == Append(Replace(s, x), y)
           n == Len(s)
<1>1. /\ n \in Nat /\ n >= 1 /\ Len(q) = n + 1 /\ q[n + 1] = y /\ q[n] = x
      /\ \A k \in 1..(n - 1) : q[k] = s[k]
  <2>1. /\ Replace(s, x) \in Seq(Frames) /\ Len(Replace(s, x)) = n /\ n \in Nat /\ n >= 1
        /\ Replace(s, x)[n] = x /\ \A k \in 1..(n - 1) : Replace(s, x)[k] = s[k]
    BY ReplaceFacts
  <2>2. /\ Len(q) = n + 1 /\ q[n + 1] = y /\ \A k \in 1..n : q[k] = Replace(s, x)[k]
    BY <2>1, PushFacts
  <2> HIDE DEF q
  <2> QED
    BY <2>1, <2>2
<1> HIDE DEF q
<1>2. /\ \A i \in 1..Len(q) : i = n + 1 \/ i = n \/ (i \in 1..(n - 1) /\ i \in 1..n /\ i < n)
      /\ n \in 1..n
  BY <1>1
<1>3. ShapeAt(s, n) /\ \A i \in 1..n : ShapeAt(s, i)
  BY <1>2 DEF Calls, Shape
<1>4. Shape(q)
  <2> SUFFICES ASSUME NEW i \in 1..Len(q) PROVE ShapeAt(q, i)
    BY DEF Shape
  <2>1. CASE i = n + 1
    BY <1>1, <2>1 DEF ShapeAt
  <2>2. CASE i = n
    BY <1>1, <1>3, <2>2 DEF ShapeAt
  <2>3. CASE i \in 1..(n - 1) /\ i \in 1..n /\ i < n
    <3>1. q[i] = s[i] /\ q[i + 1].cls = s[i + 1].cls /\ ShapeAt(s, i)
      <4>1. i + 1 = n \/ i + 1 \in 1..(n - 1)
        BY <1>1, <2>3
      <4> QED
        BY <1>1, <1>3, <2>3, <4>1
    <3>2. s[i].at \in {"set", "client"}
      BY <2>3, <3>1 DEF ShapeAt
    <3> QED
      BY <1>1, <2>3, <3>1, <3>2 DEF ShapeAt
  <2> QED
    BY <1>2, <2>1, <2>2, <2>3
<1>5. ASSUME NEW i \in 1..Len(q)
      PROVE  Knows(t, q[i].at, q[i].cls) /\ (SuperDone(q, i) => SuperUsable(t, q[i].cls))
  <2>1. CASE i = n + 1
    BY <1>1, <2>1 DEF SuperDone, Knows, Owning, Claiming
  <2>2. CASE i = n
    BY <1>1, <2>2 DEF SuperDone, Knows, Owning, Claiming
  <2>3. CASE i \in 1..(n - 1) /\ i \in 1..n /\ i < n
    <3>1. Knows(t, s[i].at, s[i].cls) /\ (SuperDone(s, i) => SuperUsable(t, s[i].cls))
      BY <2>3 DEF Calls
    <3> QED
      BY <1>1, <2>3, <3>1 DEF SuperDone
  <2> QED
    BY <1>2, <2>1, <2>2, <2>3
<1>6. \A i, j \in 1..Len(q) : i # j /\ q[i].at \in Owning /\ q[j].at \in Owning => q[i].cls # q[j].cls
  <2>1. \A i \in 1..Len(q) : q[i].at \in Owning => i \in 1..n /\ q[i] = s[i]
    BY <1>1, <1>2 DEF Owning
  <2> QED
    BY <2>1 DEF Calls
<1>7. \A c \in metaclasses[t] : c \in pending \/ Covers(q, c)
  <2>1. \A c : Covers(s, c) => Covers(q, c)
    <3> SUFFICES ASSUME NEW c, NEW i \in 1..n, s[i].cls = c, s[i].at \in Claiming PROVE Covers(q, c)
      BY DEF Covers
    <3>1. i # n
      BY DEF Claiming, Owning
    <3>2. i \in 1..Len(q) /\ q[i] = s[i]
      BY <1>1, <3>1
    <3> QED
      BY <3>2 DEF Covers
  <2> QED
    BY <2>1 DEF Calls
<1> QED
  BY <1>4, <1>5, <1>6, <1>7 DEF Calls, q

LEMMA StartKeeps ==
  ASSUME IndInv, halted = "no", NEW t \in Threads, Start(t)
  PROVE  IndInv'
<1> DEFINE s == stack[t]
           n == Len(s)
           x == [Top(t) EXCEPT !.at = "set"]
           y == Call(Superclass[Top(t).cls])
           q == Append(Replace(s, x), y)
<1>1. s # <<>> /\ Top(t).at = "start" /\ UNCHANGED <<flags, metaclasses, process, halted, ghosts>>
  BY DEF Start, At
<1>2. /\ Top(t) \in Frames /\ Top(t).todo = {} /\ (~multithreadedForkChild => Top(t).funcs = {})
      /\ s \in Seq(Frames) /\ Calls(t, s) /\ n \in Nat /\ n >= 1 /\ n \in 1..n /\ Top(t) = s[n] /\ Top(t).cls \in Classes
  BY <1>1, TopIs
<1>3. x \in Frames /\ x.at = "set" /\ x.cls = Top(t).cls /\ x.funcs = Top(t).funcs /\ x.todo = Top(t).todo
  BY <1>2, AtFacts, ZenonT(60) DEF Steps
<1>4. Superclass[Top(t).cls] \in Classes \cup {NoClass}
  BY <1>2, InitializeAssumption
<1>5. CASE Superclass[Top(t).cls] = NoClass \/ Superclass[Top(t).cls] \in initialized
  <2>1. stack' = [stack EXCEPT ![t] = Replace(stack[t], x)]
    BY <1>5 DEF Start, Replace, Top
  <2> HIDE DEF x
  <2>2. Knows(t, x.at, x.cls) /\ SuperUsable(t, x.cls) /\ x.at \notin Owning /\ Top(t).at \notin Claiming
    BY <1>1, <1>3, <1>5 DEF Knows, SuperUsable, Owning, Claiming
  <2> QED
    BY <1>1, <1>2, <1>3, <2>1, <2>2, GoesOn
<1>6. CASE Superclass[Top(t).cls] # NoClass /\ Superclass[Top(t).cls] \notin initialized
  <2>1. stack' = [stack EXCEPT ![t] = q]
    BY <1>1, <1>6 DEF Start, Replace, Top
  <2>2. y \in Frames /\ y.at = "start" /\ y.cls = Superclass[x.cls] /\ y.todo = {} /\ y.funcs = {} /\ y.cls # NoClass
    BY <1>3, <1>4, <1>6, CallFacts
  <2> HIDE DEF x, y, s, n
  <2>3. Replace(s, x) \in Seq(Frames) /\ Replace(s, x) # <<>> /\ Len(Replace(s, x)) = n /\ Replace(s, x)[n] = x
    BY <1>1, <1>2, <1>3, ReplaceFacts DEF n
  <2>4. q \in Seq(Frames) /\ Len(q) = n + 1 /\ q[n + 1] = y
    BY <2>2, <2>3, PushFacts
  <2>5. Calls(t, q)
    BY <1>1, <1>2, <1>3, <2>2, SuperFirst DEF n
  <2>6. ASSUME ~multithreadedForkChild, NEW f \in Funcs, NEW c \in Classes PROVE ~Owes(f, c, q) /\ ~Owes(f, c, s)
    <3> HIDE DEF q
    <3> QED
      BY <1>1, <1>2, <2>2, <2>4, <2>5, <2>6, OwesTop DEF n
  <2>7. ASSUME Fresh(t, s) PROVE Fresh(t, q)
    <3>1. Fresh(t, Replace(s, x))
      BY <1>1, <1>2, <1>3, <2>7, FreshReplace DEF n
    <3> QED
      BY <1>3, <2>2, <2>3, <3>1, FreshPush
  <2>8. ~Doomed(s)
    BY <1>1, <1>2 DEF Doomed, n
  <2> HIDE DEF q
  <2> QED
    BY <1>1, <2>1, <2>2, <2>4, <2>5, <2>6, <2>7, <2>8, SameFlags DEF s
<1> QED
  BY <1>5, <1>6

LEMMA SendKeeps ==
  ASSUME IndInv, halted = "no", NEW t \in Threads, NEW c \in Classes, Send(t, c)
  PROVE  IndInv'
<1> DEFINE s == stack[t]
           n == Len(s)
           x == [Top(t) EXCEPT !.todo = @ \ {c}]
           r == IF s = <<>> THEN s ELSE Replace(s, x)
           q == Append(r, Call(c))
<1>1. UNCHANGED <<flags, metaclasses, process, halted, ghosts>> /\ s \in Seq(Frames) /\ Calls(t, s) /\ c # NoClass
      /\ Call(c) \in Frames /\ Call(c).cls = c /\ Call(c).at = "start" /\ Call(c).todo = {} /\ Call(c).funcs = {}
  <2>1. UNCHANGED <<flags, metaclasses, process, halted, ghosts>>
    BY DEF Send
  <2>2. s \in Seq(Frames) /\ Calls(t, s) /\ c # NoClass
    BY InitializeAssumption DEF IndInv, TypeInv, StackInv
  <2> QED
    BY <2>1, <2>2, CallFacts
<1>2. stack' = [stack EXCEPT ![t] = q]
  <2>1. CASE s = <<>>
    <3>1. Append(s, Call(c)) = <<Call(c)>>
      BY <2>1
    <3> QED
      BY <2>1, <3>1 DEF Send
  <2>2. CASE s # <<>>
    BY <2>2 DEF Send, Replace
  <2> QED
    BY <2>1, <2>2
<1>3. /\ r \in Seq(Frames) /\ Calls(t, r)
      /\ r # <<>> => r[Len(r)].at = "client" /\ Uses[r[Len(r)].cls] # {}
      /\ ~Doomed(s) /\ (Fresh(t, s) => Fresh(t, r))
      /\ ~multithreadedForkChild => \A f \in Funcs, d \in Classes : ~Owes(f, d, s)
  <2>1. CASE s = <<>>
    <3>1. r = s /\ Len(s) = 0
      BY <2>1
    <3> QED
      BY <1>1, <2>1, <3>1 DEF Doomed, Owes
  <2>2. CASE s # <<>>
    <3>1. Top(t).at = "client" /\ c \in Top(t).todo
      BY <2>2 DEF Send, ClientRuns, At
    <3>2. /\ Top(t) \in Frames /\ (~multithreadedForkChild => Top(t).funcs = {}) /\ SuperUsable(t, Top(t).cls)
          /\ Knows(t, Top(t).at, Top(t).cls) /\ ShapeAt(s, n)
          /\ n \in Nat /\ n >= 1 /\ n \in 1..n /\ Top(t) = s[n] /\ Top(t).cls \in Classes
      BY <2>2, <3>1, TopIs
    <3>3. x \in Frames /\ x.at = "client" /\ x.cls = Top(t).cls /\ x.funcs = Top(t).funcs /\ x.todo \subseteq Top(t).todo
      BY <3>1, <3>2 DEF Frames
    <3>4. Top(t).todo \subseteq Uses[Top(t).cls] /\ (Top(t).funcs # {} => multithreadedForkChild)
      BY <3>1, <3>2 DEF ShapeAt
    <3> HIDE DEF x, s
    <3>5. Replace(s, x) \in Seq(Frames) /\ Replace(s, x) # <<>> /\ Len(Replace(s, x)) = n /\ Replace(s, x)[n] = x
      BY <1>1, <2>2, <3>2, <3>3, ReplaceFacts DEF n
    <3>6. Calls(t, Replace(s, x))
      <4>1. Knows(t, x.at, x.cls) /\ SuperUsable(t, x.cls) /\ Top(t).at \in Owning /\ x.at \in Claiming
        BY <3>1, <3>2, <3>3 DEF Owning, Claiming
      <4> QED
        BY <1>1, <2>2, <3>1, <3>2, <3>3, <3>4, <4>1, ReplaceCalls
    <3>7. ~Fresh(t, s) /\ ~Doomed(s)
      BY <3>1, <3>2 DEF Fresh, Doomed, n
    <3>8. ~multithreadedForkChild => \A f \in Funcs, d \in Classes : ~Owes(f, d, s)
      BY <1>1, <3>2, OwesTop DEF n
    <3> QED
      BY <2>2, <3>1, <3>2, <3>3, <3>4, <3>5, <3>6, <3>7, <3>8
  <2> QED
    BY <2>1, <2>2
<1> HIDE DEF r, s
<1>4. q \in Seq(Frames) /\ Len(q) = Len(r) + 1 /\ q[Len(r) + 1] = Call(c)
  BY <1>1, <1>3, PushFacts
<1>5. Calls(t, q)
  BY <1>1, <1>3, PushCalls
<1>6. ASSUME Fresh(t, s) PROVE Fresh(t, q)
  BY <1>1, <1>3, <1>6, FreshPush
<1> HIDE DEF q
<1>7. ~multithreadedForkChild => \A f \in Funcs, d \in Classes : ~Owes(f, d, q)
  BY <1>1, <1>4, <1>5, OwesTop
<1> QED
  BY <1>1, <1>2, <1>3, <1>4, <1>5, <1>6, <1>7, SameFlags DEF s

----------------------------------------------------------------------------
(* Steps that change flags, lists or counts.                               *)

\* What every state satisfies, the next one does.
ReplaceFact ==
  \A t \in Threads, s \in Seq(Frames), x \in Frames :
    /\ s # <<>> /\ Calls(t, s) /\ x.cls = s[Len(s)].cls /\ x.at # "add" /\ s[Len(s)].at # "add"
    /\ x.at = "client" => x.todo \subseteq Uses[x.cls]
    /\ x.at # "client" => x.todo = {}
    /\ x.funcs # {} => x.at \in {"begin", "tell"} \/ multithreadedForkChild
    /\ Knows(t, x.at, x.cls) /\ (x.at # "start" => SuperUsable(t, x.cls))
    /\ x.at \in Owning => s[Len(s)].at \in Owning \/ \A i \in 1..(Len(s) - 1) : s[i].at \in Owning => s[i].cls # x.cls
    /\ s[Len(s)].at \in Claiming => x.at \in Claiming
    => Calls(t, Replace(s, x))
LEMMA ReplaceAlways == ReplaceFact
BY ReplaceCalls DEF ReplaceFact
LEMMA ReplaceNext == ReplaceFact'
BY ReplaceAlways, PTL

LEMMA ReplaceOwes ==
  ASSUME NEW t \in Threads, NEW s \in Seq(Frames), s # <<>>, Calls(t, s), ~multithreadedForkChild, NEW x \in Frames,
         NEW f \in Funcs, NEW c \in Classes
  PROVE  Owes(f, c, Replace(s, x)) <=> f \in x.funcs /\ (x.cls = c \/ c \in x.todo)
<1> DEFINE r == Replace(s, x)
           n == Len(s)
<1>1. /\ Len(r) = n /\ n \in Nat /\ n >= 1 /\ r[n] = x /\ \A k \in 1..(n - 1) : r[k] = s[k]
  BY ReplaceFacts
<1> HIDE DEF r
<1>2. \A k \in 1..n : k = n \/ (k \in 1..(n - 1) /\ k < n)
  BY <1>1
<1>3. \A k \in 1..n : k # n => r[k].funcs = {}
  BY <1>1, <1>2 DEF Calls, Shape, ShapeAt
<1> QED
  BY <1>1, <1>3 DEF Owes, r

LEMMA ReplaceBegins ==
  ASSUME NEW t \in Threads, NEW s \in Seq(Frames), s # <<>>, Calls(t, s), NEW x \in Frames, x.cls \in Classes
  PROVE  Begins(Replace(s, x)) = IF x.at = "begin" THEN {x.cls} ELSE {}
<1> DEFINE r == Replace(s, x)
           n == Len(s)
<1>1. /\ Len(r) = n /\ n \in Nat /\ n >= 1 /\ r[n] = x /\ \A k \in 1..(n - 1) : r[k] = s[k]
  BY ReplaceFacts
<1> HIDE DEF r
<1>2. \A k \in 1..n : k = n \/ (k \in 1..(n - 1) /\ k < n)
  BY <1>1
<1>3. \A k \in 1..n : k # n => r[k].at # "begin"
  BY <1>1, <1>2 DEF Calls, Shape, ShapeAt
<1> QED
  BY <1>1, <1>3 DEF Begins, r

\* One thread's calls become q; the classes of the others are not concerned.
LEMMA OthersCalls ==
  ASSUME IndInv, NEW t \in Threads, NEW q \in Seq(Frames), stack' = [stack EXCEPT ![t] = q], Calls(t, q)',
         initialized \subseteq initialized', Begun \subseteq Begun', multithreadedForkChild' = multithreadedForkChild,
         \A u \in Threads : u # t =>
           /\ metaclasses'[u] = metaclasses[u]
           /\ metaclasses[u] \cap pending \subseteq pending'
           /\ \A i \in 1..Len(stack[u]) : stack[u][i].at \in Owning =>
                /\ stack[u][i].cls \notin pending'
                /\ ~multithreadedForkChild => sent'[stack[u][i].cls] = sent[stack[u][i].cls]
  PROVE  StackInv'
<1>1. stack'[t] = q /\ \A u \in Threads : u # t => stack'[u] = stack[u]
  BY DEF IndInv, TypeInv
<1> SUFFICES ASSUME NEW u \in Threads PROVE Calls(u, stack[u])'
  BY DEF StackInv
<1>2. CASE u = t
  BY <1>1, <1>2
<1>3. CASE u # t
  <2>1. stack[u] \in Seq(Frames) /\ Calls(u, stack[u]) /\ stack'[u] = stack[u]
    BY <1>1, <1>3 DEF IndInv, TypeInv, StackInv
  <2>2. ASSUME NEW r, r = stack[u] PROVE Calls(u, r)'
    <3>1. /\ metaclasses'[u] = metaclasses[u]
          /\ \A c \in metaclasses[u] : c \in pending => c \in pending' \/ Covers(r, c)
      BY <1>3
    <3>2. \A i \in 1..Len(r) : r[i].at \in Owning =>
                /\ r[i].cls \notin pending'
                /\ ~multithreadedForkChild => sent'[r[i].cls] = sent[r[i].cls]
      BY <1>3, <2>2
    <3>3. r \in Seq(Frames) /\ Calls(u, r)
      BY <2>1, <2>2
    <3> QED
      BY <3>1, <3>2, <3>3, CallsKept
  <2> QED
    BY <2>1, <2>2
<1> QED
  BY <1>2, <1>3

LEMMA ChildKept ==
  ASSUME IndInv, NEW t \in Threads, NEW q \in Seq(Frames), stack' = [stack EXCEPT ![t] = q],
         multithreadedForkChild' = multithreadedForkChild, pending' \subseteq pending,
         \A u \in Threads : u # t => metaclasses'[u] = metaclasses[u],
         multithreadedForkChild /\ Fresh(t, stack[t]) => Fresh(t, q)',
         multithreadedForkChild /\ Survives(t, stack[t]) => Survives(t, q)'
  PROVE  ChildInv'
<1>1. stack'[t] = q /\ \A u \in Threads : u # t => stack'[u] = stack[u]
  BY DEF IndInv, TypeInv
<1> SUFFICES ASSUME multithreadedForkChild
             PROVE  Forks /\ \E w \in Threads : Survives(w, stack[w])' /\ \A u \in Threads \ {w} : Fresh(u, stack[u])'
  BY DEF ChildInv
<1>2. PICK w \in Threads : Survives(w, stack[w]) /\ \A u \in Threads \ {w} : Fresh(u, stack[u])
  BY DEF IndInv, ChildInv
<1>3. Survives(w, stack[w])'
  <2>1. CASE w = t
    BY <1>1, <1>2, <2>1
  <2>2. CASE w # t
    BY <1>1, <1>2, <2>2 DEF Survives, Doomed
  <2> QED
    BY <2>1, <2>2
<1>4. \A u \in Threads \ {w} : Fresh(u, stack[u])'
  <2> SUFFICES ASSUME NEW u \in Threads \ {w} PROVE Fresh(u, stack[u])'
    OBVIOUS
  <2>0. Fresh(u, stack[u])
    BY <1>2
  <2>1. CASE u = t
    BY <1>1, <2>0, <2>1
  <2>2. CASE u # t
    BY <1>1, <2>0, <2>2 DEF Fresh
  <2> QED
    BY <2>1, <2>2
<1> QED
  BY <1>3, <1>4 DEF IndInv, ChildInv

\* A class that a call owns, or has on its list, has begun to be initialized.
LEMMA OwnersBegun ==
  ASSUME IndInv, NEW u \in Threads
  PROVE  /\ \A i \in 1..Len(stack[u]) : stack[u][i].at \in Owning => stack[u][i].cls \in Begun /\ stack[u][i].cls \notin pending
         /\ metaclasses[u] \subseteq Begun /\ Begins(stack[u]) \subseteq Begun /\ Own(u) \subseteq Begun
<1>1. Calls(u, stack[u]) /\ \A c \in metaclasses[u] : c \in Begun
  BY DEF IndInv, StackInv, ClaimInv
<1>2. \A i \in 1..Len(stack[u]) : stack[u][i].at \in Owning => stack[u][i].cls \in Begun /\ stack[u][i].cls \notin pending
  BY <1>1 DEF Calls, Knows
<1>3. Begins(stack[u]) \subseteq Begun
  BY <1>2 DEF Begins, Owning
<1> QED
  BY <1>1, <1>2, <1>3 DEF Own

LEMMA NoneCounted ==
  ASSUME NEW n \in Nat, NEW S, S = {} \/ \E t \in Threads : S = {t}, n + Cardinality(S) = 0
  PROVE  S = {} /\ n = 0
<1>1. CASE S = {}
  BY <1>1, FS_EmptySet
<1>2. ASSUME NEW t \in Threads, S = {t} PROVE FALSE
  <2>1. Cardinality(S) = 1
    BY <1>2, FS_Singleton
  <2> QED
    BY <2>1
<1> QED
  BY <1>1, <1>2

LEMMA SetInitializingKeeps ==
  ASSUME IndInv, halted = "no", NEW t \in Threads, SetInitializing(t)
  PROVE  IndInv'
<1> PICK s : s = stack[t]
  OBVIOUS
<1> PICK c : c = Top(t).cls
  OBVIOUS
<1> PICK x : x = [Top(t) EXCEPT !.at = "begin", !.funcs = willInitializeFuncs]
  OBVIOUS
<1> PICK q : q = Replace(s, x)
  OBVIOUS
<1>1. /\ s # <<>> /\ Top(t).at = "set" /\ c \notin Begun /\ initializing' = initializing \cup {c}
      /\ stack' = [stack EXCEPT ![t] = q]
      /\ UNCHANGED <<initialized, pending, metaclasses, willInitializeFuncs, multithreadedForkChild, halted, sent, told>>
  BY UpdateIs DEF SetInitializing, At, Begun, process, ghosts
<1>2. /\ Top(t) \in Frames /\ SuperUsable(t, c) /\ Top(t).todo = {} /\ (~multithreadedForkChild => Top(t).funcs = {})
      /\ s \in Seq(Frames) /\ Calls(t, s) /\ Len(s) \in Nat /\ Len(s) >= 1 /\ Len(s) \in 1..Len(s)
      /\ Top(t) = s[Len(s)] /\ c \in Classes
  BY <1>1, TopIs
<1>3. x \in Frames /\ x.at = "begin" /\ x.cls = c /\ x.funcs = willInitializeFuncs /\ x.todo = {}
  BY <1>2 DEF Frames, Steps, IndInv, TypeInv
<1>4. q \in Seq(Frames) /\ q # <<>> /\ Len(q) = Len(s) /\ q[Len(s)] = x
  BY <1>1, <1>2, <1>3, ReplaceFacts
<1>5. Begun' = Begun \cup {c} /\ c \notin pending /\ c \notin initialized /\ \A u \in Threads : c \notin metaclasses[u] /\ c \notin Own(u)
  <2>1. Begun' = Begun \cup {c} /\ c \notin pending /\ c \notin initialized
    BY <1>1 DEF Begun, IndInv, FlagInv
  <2> QED
    BY <1>1, <2>1, OwnersBegun
<1>6. stack'[t] = q /\ (\A u \in Threads : u # t => stack'[u] = stack[u]) /\ stack' \in [Threads -> Seq(Frames)]
  BY <1>1, <1>4 DEF IndInv, TypeInv
<1>7. TypeInv'
  BY <1>1, <1>2, <1>6 DEF IndInv, TypeInv
<1>8. Calls(t, q)'
  <2>1. Calls(t, s)'
    <3>1. \A i \in 1..Len(s) : s[i].at \in Owning => s[i].cls \notin pending'
      BY <1>1, <1>2 DEF Calls, Knows
    <3> QED
      BY <1>1, <1>2, <1>5, <3>1, CallsKept
  <2>2. Knows(t, x.at, x.cls)' /\ SuperUsable(t, x.cls)'
    <3>1. ~multithreadedForkChild => sent[c] = 0
      BY <1>1, <1>2 DEF IndInv, ParentInv
    <3>2. c \in Begun' /\ c \notin pending' /\ c \notin metaclasses'[t]
      BY <1>1, <1>5
    <3> QED
      BY <1>1, <1>2, <1>3, <3>1, <3>2 DEF Knows, SuperUsable, Owning, Claiming
  <2>3. \A i \in 1..(Len(s) - 1) : s[i].at \in Owning => s[i].cls # x.cls
    <3>1. \A i \in 1..(Len(s) - 1) : i \in 1..Len(s)
      BY <1>2
    <3> QED
      BY <1>1, <1>3, <3>1, OwnersBegun
  <2>4. ReplaceFact'
    BY ReplaceNext
  <2>5. s[Len(s)].at \notin Claiming
    BY <1>1, <1>2 DEF Claiming, Owning
  <2>6. Calls(t, Replace(s, x))'
    BY <1>1, <1>2, <1>3, <2>1, <2>2, <2>3, <2>4, <2>5 DEF ReplaceFact
  <2> QED
    BY <2>6
<1>9. StackInv'
  <2>1. initialized \subseteq initialized' /\ Begun \subseteq Begun'
    BY <1>1, <1>5
  <2>2. \A u \in Threads : \A i \in 1..Len(stack[u]) : stack[u][i].at \in Owning => stack[u][i].cls \notin pending'
    BY <1>1, OwnersBegun
  <2> QED
    BY <1>1, <1>4, <1>8, <2>1, <2>2, OthersCalls
<1>10. ClaimInv' /\ PendingInv' /\ SentInv'
  BY <1>1, <1>5 DEF IndInv, ClaimInv, PendingInv, SentInv, SuperUsable
<1>11. FlagInv'
  <2>1. Superclass[c] # NoClass => Superclass[c] \in Begun
    BY <1>2, OwnersBegun DEF SuperUsable, Begun
  <2> QED
    BY <1>1, <1>5, <2>1 DEF IndInv, FlagInv
<1>12. ParentInv'
  <2> SUFFICES ASSUME ~multithreadedForkChild
               PROVE  /\ \A u, v \in Threads : u # v => Own(u)' \cap Own(v)' = {}
                      /\ \A u \in Threads : Own(u)' \cap initialized' = {}
                      /\ \A d \in pending' : \E u \in Threads : d \in metaclasses'[u]
                      /\ \A d \in Classes : (d \notin Begun' => sent'[d] = 0) /\ (d \in initialized' \cup pending' => sent'[d] = 1)
                      /\ \A f \in Funcs, d \in Classes : Counted(f, d)'
    BY <1>1 DEF ParentInv
  <2>0. /\ \A u, v \in Threads : u # v => Own(u) \cap Own(v) = {}
        /\ \A u \in Threads : Own(u) \cap initialized = {}
        /\ \A d \in pending : \E u \in Threads : d \in metaclasses[u]
        /\ \A d \in Classes : (d \notin Begun => sent[d] = 0) /\ (d \in initialized \cup pending => sent[d] = 1)
        /\ \A f \in Funcs, d \in Classes : Counted(f, d)
    BY DEF IndInv, ParentInv
  <2>1. Own(t)' \subseteq Own(t) \cup {c} /\ \A u \in Threads : u # t => Own(u)' = Own(u)
    <3>1. Begins(q) = {c}
      BY <1>1, <1>2, <1>3, ReplaceBegins
    <3>2. Begins(stack[t])' = {c}
      BY <1>6, <3>1 DEF Begins
    <3>3. \A u \in Threads : u # t => Begins(stack[u])' = Begins(stack[u])
      BY <1>6 DEF Begins
    <3> QED
      BY <1>1, <3>2, <3>3 DEF Own
  <2>2. \A f \in Funcs, d \in Classes : Counted(f, d)'
    <3> SUFFICES ASSUME NEW f \in Funcs, NEW d \in Classes PROVE Counted(f, d)'
      OBVIOUS
    <3>1. ~Owes(f, d, stack[t])
      BY <1>1, <1>2, OwesTop
    <3>2. Owes(f, d, stack'[t]) <=> f \in willInitializeFuncs /\ d = c
      <4>1. Owes(f, d, Replace(s, x)) <=> f \in x.funcs /\ (x.cls = d \/ d \in x.todo)
        <5>1. s \in Seq(Frames) /\ s # <<>> /\ Calls(t, s) /\ x \in Frames /\ ~multithreadedForkChild
          BY <1>1, <1>2, <1>3
        <5> QED
          BY <5>1, ReplaceOwes, Zenon
      <4> QED
        BY <1>3, <1>6, <4>1
    <3>3. Counted(f, d) /\ TypeInv
      BY <2>0 DEF IndInv
    <3>4. CASE ~(f \in willInitializeFuncs /\ d = c)
      BY <1>1, <1>5, <1>6, <1>7, <3>1, <3>2, <3>3, <3>4, CountedKept
    <3>5. CASE f \in willInitializeFuncs /\ d = c
      <4>1. told[f][d] \in Nat /\ told' = told
        BY <1>1 DEF IndInv, TypeInv
      <4>2. Owed(f, d) = {} /\ told[f][d] = 0
        <5>1. told[f][d] + Cardinality(Owed(f, d)) = 0
          BY <1>1, <3>3, <3>5 DEF Counted
        <5> QED
          BY <3>3, <4>1, <5>1, NoneCounted DEF Counted
      <4>3. Owed(f, d)' = {t}
        BY <1>6, <1>7, <3>2, <3>3, <3>5, <4>2, OwedIs
      <4>4. Cardinality(Owed(f, d)') = 1
        BY <4>3, FS_Singleton
      <4> QED
        BY <1>1, <1>5, <3>5, <4>1, <4>2, <4>3, <4>4 DEF Counted
    <3> QED
      BY <3>4, <3>5
  <2>3. \A u \in Threads : Own(u)' \cap initialized' = {}
    BY <1>1, <1>5, <2>0, <2>1
  <2>4. \A u, v \in Threads : u # v => Own(u)' \cap Own(v)' = {}
    BY <1>5, <2>0, <2>1
  <2> QED
    BY <1>1, <1>5, <2>0, <2>2, <2>3, <2>4
<1>13. ChildInv'
  <2>1. ASSUME Fresh(t, stack[t]) PROVE Fresh(t, q)'
    <3>1. Fresh(t, q)
      BY <1>1, <1>2, <1>3, <2>1, FreshReplace
    <3> QED
      BY <1>1, <3>1 DEF Fresh
  <2>2. ASSUME Survives(t, stack[t]) PROVE Survives(t, q)'
    <3>1. ~Doomed(stack[t])
      BY <1>1, <1>2 DEF Doomed
    <3> QED
      BY <1>1, <2>2, <3>1 DEF Survives
  <2> QED
    BY <1>1, <1>4, <2>1, <2>2, ChildKept
<1> QED
  BY <1>7, <1>9, <1>10, <1>11, <1>12, <1>13 DEF IndInv

\* The newest call goes on as x, and flags, lists or counts change.
Moves(t, s, x) ==
  /\ x.cls = s[Len(s)].cls /\ x.at # "add" /\ s[Len(s)].at # "add"
  /\ x.at = "client" => x.todo \subseteq Uses[x.cls]
  /\ x.at # "client" => x.todo = {}
  /\ x.funcs # {} => x.at \in {"begin", "tell"} \/ multithreadedForkChild
  /\ Knows(t, x.at, x.cls)' /\ SuperUsable(t, x.cls)'
  /\ \A d \in Classes : SuperUsable(t, d) => SuperUsable(t, d)'
  /\ \A i \in 1..(Len(s) - 1) : s[i].at = "client" => Knows(t, "client", s[i].cls)'
  /\ x.at \in Owning => s[Len(s)].at \in Owning \/ \A i \in 1..(Len(s) - 1) : s[i].at = "client" => s[i].cls # x.cls
  /\ \A c \in metaclasses'[t] : \/ c \in pending' \/ (c = x.cls /\ x.at \in Claiming)
                                \/ \E i \in 1..(Len(s) - 1) : s[i].cls = c /\ s[i].at = "client"
LEMMA MovesCalls ==
  ASSUME NEW t \in Threads, NEW s \in Seq(Frames), s # <<>>, Calls(t, s), NEW x \in Frames,
         multithreadedForkChild' = multithreadedForkChild, Moves(t, s, x), NEW q, q = Replace(s, x)
  PROVE  Calls(t, q)'
<1> USE DEF Moves
<1> DEFINE n == Len(s)
<1>1. /\ Len(q) = n /\ n \in Nat /\ n >= 1 /\ q[n] = x /\ \A k \in 1..(n - 1) : q[k] = s[k]
  <2>1. /\ Len(Replace(s, x)) = n /\ n \in Nat /\ n >= 1 /\ Replace(s, x)[n] = x
        /\ \A k \in 1..(n - 1) : Replace(s, x)[k] = s[k]
    BY ReplaceFacts
  <2> QED
    BY <2>1
<1>2. \A i \in 1..n : i = n \/ (i \in 1..(n - 1) /\ i < n /\ q[i] = s[i])
  BY <1>1
<1>3. \A i \in 1..n : ShapeAt(s, i)
  BY DEF Calls, Shape
<1>4. \A i \in 1..(n - 1) : i \in 1..n /\ s[i].at \in {"set", "client"}
  BY <1>1, <1>3 DEF ShapeAt
<1>5. Shape(q)
  <2> SUFFICES ASSUME NEW i \in 1..n PROVE ShapeAt(q, i)
    BY <1>1 DEF Shape
  <2>0. ShapeAt(s, i) /\ ShapeAt(s, n)
    BY <1>1, <1>3
  <2>1. CASE i = n
    BY <1>1, <2>0, <2>1 DEF ShapeAt
  <2>2. CASE i # n
    <3>1. q[i] = s[i] /\ i < n /\ i + 1 \in 1..n /\ (i + 1 # n => q[i + 1] = s[i + 1])
      BY <1>1, <2>2
    <3>2. q[i + 1].cls = s[i + 1].cls
      BY <1>1, <3>1
    <3> QED
      BY <1>1, <2>0, <3>1, <3>2 DEF ShapeAt
  <2> QED
    BY <2>1, <2>2
<1>6. Shape(q)'
  BY <1>5 DEF Shape, ShapeAt
<1>7. ASSUME NEW i \in 1..n PROVE Knows(t, q[i].at, q[i].cls)' /\ (SuperDone(q, i)' => SuperUsable(t, q[i].cls)')
  <2>1. CASE i = n
    BY <1>1, <2>1
  <2>2. CASE i # n
    <3>1. i \in 1..(n - 1) /\ i < n /\ q[i] = s[i] /\ s[i].at \in {"set", "client"}
      BY <1>2, <1>4, <2>2
    <3>2. Knows(t, s[i].at, s[i].cls)'
      <4>1. CASE s[i].at = "client"
        BY <3>1, <4>1
      <4>2. CASE s[i].at = "set"
        BY <4>2 DEF Knows, Owning, Claiming
      <4> QED
        BY <3>1, <4>1, <4>2
    <3>3. SuperDone(s, i) => SuperUsable(t, s[i].cls)
      BY DEF Calls
    <3>4. s[i].cls \in Classes
      <4>1. s[i] \in Frames /\ ShapeAt(s, i)
        BY <1>3, <3>1
      <4> QED
        BY <3>1, <4>1 DEF Frames, ShapeAt
    <3> QED
      BY <1>1, <3>1, <3>2, <3>3, <3>4 DEF SuperDone
  <2> QED
    BY <2>1, <2>2
<1>8. \A i, j \in 1..n : i # j /\ q[i].at \in Owning /\ q[j].at \in Owning => q[i].cls # q[j].cls
  <2>1. \A i, j \in 1..n : i # j /\ s[i].at \in Owning /\ s[j].at \in Owning => s[i].cls # s[j].cls
    BY DEF Calls
  <2>2. \A i \in 1..(n - 1) : s[i].at \in Owning /\ x.at \in Owning => s[i].cls # x.cls
    BY <1>1, <1>4, <2>1 DEF Owning
  <2> QED
    BY <1>1, <1>2, <2>1, <2>2
<1>9. \A c \in metaclasses'[t] : c \in pending' \/ Covers(q, c)
  <2>1. "client" \in Claiming
    BY DEF Claiming, Owning
  <2> SUFFICES ASSUME NEW c \in metaclasses'[t], c \notin pending' PROVE Covers(q, c)
    OBVIOUS
  <2>2. CASE c = x.cls /\ x.at \in Claiming
    BY <1>1, <2>2 DEF Covers
  <2>3. ASSUME NEW i \in 1..(n - 1), s[i].cls = c, s[i].at = "client" PROVE Covers(q, c)
    <3>1. i \in 1..Len(q) /\ q[i].cls = c /\ q[i].at \in Claiming
      BY <1>1, <1>4, <2>1, <2>3
    <3> QED
      BY <3>1, Zenon DEF Covers
  <2> QED
    BY <2>2, <2>3
<1> QED
  BY <1>1, <1>6, <1>7, <1>8, <1>9 DEF Calls, Covers

\* A class is pending on one of the lists, unless the thread that had it was lost.
LEMMA PendingClaim ==
  ASSUME IndInv, NEW t \in Threads, stack[t] # <<>>, Top(t).at \in {"begin", "takeOver"}
  PROVE  /\ Top(t).cls \notin pending /\ Top(t).cls \notin metaclasses[t] /\ Top(t).cls \in Begun
         /\ (Top(t).at = "takeOver" => multithreadedForkChild)
<1> DEFINE c == Top(t).cls
<1>1. /\ Knows(t, Top(t).at, c) /\ SuperUsable(t, c) /\ c \in Classes /\ Top(t) = stack[t][Len(stack[t])]
  BY TopIs
<1>2. c \in Begun /\ c \notin metaclasses[t] /\ (Top(t).at = "begin" => c \notin pending) /\ (Top(t).at = "takeOver" => multithreadedForkChild)
  BY <1>1 DEF Knows, Owning
<1>3. ASSUME Top(t).at = "takeOver", c \in pending PROVE FALSE
  <2>1. Superclass[c] \in metaclasses[t]
    BY <1>1, <1>3, InitializeAssumption DEF SuperUsable, IndInv, FlagInv, TypeInv
  <2>2. PICK w \in Threads : Survives(w, stack[w]) /\ \A u \in Threads \ {w} : Fresh(u, stack[u])
    BY <1>2, <1>3 DEF IndInv, ChildInv
  <2>3. ~Doomed(stack[t])
    BY <1>1, <1>3 DEF Doomed
  <2>4. w # t
    BY <1>2, <1>3, <2>1, <2>2, <2>3 DEF Survives
  <2>5. Fresh(t, stack[t])
    BY <2>2, <2>4
  <2> QED
    BY <1>1, <1>3, <2>1, <2>5 DEF Fresh
<1> QED
  BY <1>2, <1>3

LEMMA ClaimKeeps ==
  ASSUME IndInv, NEW t \in Threads, stack[t] # <<>>, Top(t).at \in {"begin", "takeOver"}, NEW x \in Frames,
         NEW a \in {"fork", "tell"}, a = "fork" <=> multithreadedForkChild, x = [Top(t) EXCEPT !.at = a],
         stack' = [stack EXCEPT ![t] = Replace(stack[t], x)],
         metaclasses' = [metaclasses EXCEPT ![t] = @ \cup {Top(t).cls}], halted' = "no",
         UNCHANGED <<flags, process, ghosts>>
  PROVE  IndInv'
<1> PICK s : s = stack[t]
  OBVIOUS
<1> PICK c : c = Top(t).cls
  OBVIOUS
<1> PICK q : q = Replace(s, x)
  OBVIOUS
<1>1. /\ s # <<>> /\ UNCHANGED <<initializing, initialized, pending, willInitializeFuncs, multithreadedForkChild, sent, told>>
      /\ Begun' = Begun /\ stack' = [stack EXCEPT ![t] = q]
  BY DEF flags, process, ghosts, Begun
<1>2. /\ Top(t) \in Frames /\ SuperUsable(t, c) /\ Top(t).todo = {} /\ Knows(t, Top(t).at, c)
      /\ s \in Seq(Frames) /\ Calls(t, s) /\ Len(s) \in Nat /\ Len(s) >= 1 /\ Len(s) \in 1..Len(s)
      /\ Top(t) = s[Len(s)] /\ c \in Classes
  BY <1>1, TopIs
<1>3. x.at = a /\ x.cls = c /\ x.funcs = Top(t).funcs /\ x.todo = {}
  <2>1. a \in Steps
    BY DEF Steps
  <2> QED
    BY <1>2, <2>1, AtFacts
<1>4. q \in Seq(Frames) /\ q # <<>> /\ Len(q) = Len(s) /\ q[Len(s)] = x
  BY <1>1, <1>2, <1>3, ReplaceFacts
<1>5. /\ c \notin pending /\ c \notin metaclasses[t] /\ c \in Begun
      /\ (Top(t).at = "takeOver" => multithreadedForkChild)
  BY PendingClaim
<1>6. /\ stack'[t] = q /\ (\A u \in Threads : u # t => stack'[u] = stack[u]) /\ stack' \in [Threads -> Seq(Frames)]
      /\ metaclasses'[t] = metaclasses[t] \cup {c} /\ (\A u \in Threads : u # t => metaclasses'[u] = metaclasses[u])
      /\ metaclasses' \in [Threads -> SUBSET Classes]
  <2>1. stack \in [Threads -> Seq(Frames)] /\ metaclasses \in [Threads -> SUBSET Classes]
    BY DEF IndInv, TypeInv
  <2> QED
    BY <1>1, <1>2, <1>4, <2>1
<1>7. TypeInv'
  BY <1>1, <1>6 DEF IndInv, TypeInv
<1>8. \A u \in Threads, d \in Classes : SuperUsable(u, d) => SuperUsable(u, d)'
  BY <1>1, <1>6 DEF SuperUsable
<1>9. Calls(t, q)'
  <2>1. Knows(t, x.at, x.cls)'
    BY <1>1, <1>2, <1>3, <1>5, <1>6 DEF Knows, Owning, Claiming
  <2>2. \A i \in 1..(Len(s) - 1) : s[i].at = "client" => s[i].cls \in metaclasses[t] /\ Knows(t, "client", s[i].cls)'
    <3> SUFFICES ASSUME NEW i \in 1..(Len(s) - 1), s[i].at = "client"
                 PROVE  s[i].cls \in metaclasses[t] /\ Knows(t, "client", s[i].cls)'
      OBVIOUS
    <3>1. Knows(t, "client", s[i].cls)
      <4>1. i \in 1..Len(s)
        BY <1>2
      <4> QED
        BY <1>2, <4>1 DEF Calls
    <3> QED
      BY <1>1, <1>6, <3>1 DEF Knows, Owning, Claiming
  <2>3. \A d \in metaclasses[t] : d \in pending' \/ \E i \in 1..(Len(s) - 1) : s[i].cls = d /\ s[i].at = "client"
    <3> SUFFICES ASSUME NEW d \in metaclasses[t], d \notin pending PROVE \E i \in 1..(Len(s) - 1) : s[i].cls = d /\ s[i].at = "client"
      BY <1>1
    <3>1. PICK i \in 1..Len(s) : s[i].cls = d /\ s[i].at \in Claiming
      BY <1>2 DEF Calls, Covers
    <3>2. i # Len(s)
      BY <1>2, <3>1 DEF Claiming, Owning
    <3>3. i \in 1..(Len(s) - 1) /\ i < Len(s) /\ ShapeAt(s, i)
      BY <1>2, <3>2 DEF Calls, Shape
    <3>4. s[i].at = "client"
      BY <3>1, <3>3 DEF ShapeAt, Claiming, Owning
    <3> QED
      BY <3>1, <3>3, <3>4
  <2>4. x.at \in Owning /\ x.at \in Claiming /\ (Top(t).at \in Owning \/ \A i \in 1..(Len(s) - 1) : s[i].at = "client" => s[i].cls # x.cls)
    BY <1>3, <1>5, <2>2 DEF Owning, Claiming
  <2>5. SuperUsable(t, x.cls)' /\ \A d \in Classes : SuperUsable(t, d) => SuperUsable(t, d)'
    BY <1>2, <1>3, <1>8
  <2>6. \A d \in metaclasses'[t] : \/ d \in pending' \/ (d = x.cls /\ x.at \in Claiming)
                                   \/ \E i \in 1..(Len(s) - 1) : s[i].cls = d /\ s[i].at = "client"
    BY <1>3, <1>6, <2>3, <2>4
  <2>7. Moves(t, s, x)
    BY <1>2, <1>3, <2>1, <2>2, <2>4, <2>5, <2>6 DEF Moves
  <2> QED
    BY <1>1, <1>2, <2>7, MovesCalls
<1>10. StackInv'
  <2>1. initialized \subseteq initialized' /\ Begun \subseteq Begun'
    BY <1>1
  <2>2. \A u \in Threads : \A i \in 1..Len(stack[u]) : stack[u][i].at \in Owning => stack[u][i].cls \notin pending'
    BY <1>1, OwnersBegun
  <2> QED
    BY <1>1, <1>4, <1>6, <1>9, <2>1, <2>2, OthersCalls
<1>11. ClaimInv'
  <2> SUFFICES ASSUME NEW u \in Threads, NEW d \in metaclasses'[u] PROVE d \in Begun' /\ SuperUsable(u, d)'
    BY DEF ClaimInv
  <2>1. d \in Classes /\ d \in Begun /\ SuperUsable(u, d)
    BY <1>2, <1>5, <1>6 DEF IndInv, TypeInv, ClaimInv
  <2> QED
    BY <1>1, <1>8, <2>1
<1>12. FlagInv' /\ PendingInv' /\ SentInv'
  BY <1>1 DEF IndInv, FlagInv, PendingInv, SentInv
<1>13. ParentInv'
  <2> SUFFICES ASSUME ~multithreadedForkChild
               PROVE  /\ \A u, v \in Threads : u # v => Own(u)' \cap Own(v)' = {}
                      /\ \A u \in Threads : Own(u)' \cap initialized' = {}
                      /\ \A d \in pending' : \E u \in Threads : d \in metaclasses'[u]
                      /\ \A d \in Classes : (d \notin Begun' => sent'[d] = 0) /\ (d \in initialized' \cup pending' => sent'[d] = 1)
                      /\ \A f \in Funcs, d \in Classes : Counted(f, d)'
    BY <1>1 DEF ParentInv
  <2>0. /\ \A u, v \in Threads : u # v => Own(u) \cap Own(v) = {}
        /\ \A u \in Threads : Own(u) \cap initialized = {}
        /\ \A d \in pending : \E u \in Threads : d \in metaclasses[u]
        /\ \A d \in Classes : (d \notin Begun => sent[d] = 0) /\ (d \in initialized \cup pending => sent[d] = 1)
        /\ \A f \in Funcs, d \in Classes : Counted(f, d)
    BY DEF IndInv, ParentInv
  <2>1. \A u \in Threads : Own(u)' = Own(u)
    <3>1. Begins(q) = {}
      <4>1. s \in Seq(Frames) /\ s # <<>> /\ Calls(t, s) /\ x \in Frames /\ x.cls \in Classes /\ x.at # "begin"
        BY <1>1, <1>2, <1>3
      <4> QED
        BY <4>1, ReplaceBegins, Zenon
    <3>2. Begins(stack[t])' = {}
      BY <1>6, <3>1 DEF Begins
    <3>3. \A u \in Threads : u # t => Begins(stack[u])' = Begins(stack[u])
      BY <1>6 DEF Begins
    <3>4. Begins(stack[t]) = {c}
      <4>1. Begins(stack[t]) \subseteq Classes
        BY DEF Begins
      <4>2. \A d \in Classes : d \in Begins(s) <=> d = c
        BY <1>1, <1>2, <1>5, BeginsTop
      <4> QED
        BY <1>2, <4>1, <4>2
    <3> QED
      BY <1>6, <3>2, <3>3, <3>4 DEF Own
  <2>2. \A f \in Funcs, d \in Classes : Counted(f, d)'
    <3> SUFFICES ASSUME NEW f \in Funcs, NEW d \in Classes PROVE Counted(f, d)'
      OBVIOUS
    <3>0. s \in Seq(Frames) /\ s # <<>> /\ Calls(t, s) /\ x \in Frames /\ ~multithreadedForkChild
      BY <1>1, <1>2, <1>3
    <3>1. Owes(f, d, s) <=> f \in s[Len(s)].funcs /\ (s[Len(s)].cls = d \/ d \in s[Len(s)].todo)
      BY <3>0, OwesTop
    <3>2. Owes(f, d, Replace(s, x)) <=> f \in x.funcs /\ (x.cls = d \/ d \in x.todo)
      BY <3>0, ReplaceOwes, Zenon
    <3>3. Counted(f, d) /\ TypeInv
      BY <2>0 DEF IndInv
    <3>4. \A u \in Threads : Owes(f, d, stack'[u]) <=> Owes(f, d, stack[u])
      BY <1>2, <1>3, <1>6, <3>1, <3>2
    <3> QED
      BY <1>1, <1>7, <3>3, <3>4, CountedKept
  <2>3. \A d \in pending' : \E u \in Threads : d \in metaclasses'[u]
    BY <1>1, <1>6, <2>0
  <2> QED
    BY <1>1, <2>0, <2>1, <2>2, <2>3
<1>14. ChildInv'
  <2>0. s[Len(s)].at \notin {"fork", "finish"}
    BY <1>2
  <2>1. ASSUME multithreadedForkChild, Fresh(t, stack[t]) PROVE Fresh(t, q)'
    <3>1. Fresh(t, q)
      <4>1. /\ s \in Seq(Frames) /\ s # <<>> /\ Fresh(t, s) /\ x \in Frames /\ x.cls = s[Len(s)].cls /\ x.at # "client"
            /\ x.at # "finish" /\ s[Len(s)].at \notin {"fork", "finish"}
        BY <1>1, <1>2, <1>3, <2>0, <2>1
      <4>2. Fresh(t, Replace(s, x))
        BY <4>1, FreshReplace
      <4> QED
        BY <4>2
    <3>2. metaclasses[t] = {}
      BY <1>1, <1>2, <2>0, <2>1, FreshCut
    <3>3. \A d \in metaclasses'[t] : q # <<>> /\ d = q[Len(q)].cls /\ q[Len(q)].at \in {"fork", "finish"}
      BY <1>3, <1>4, <1>6, <2>1, <3>2
    <3> QED
      BY <3>1, <3>3 DEF Fresh
  <2>2. ASSUME multithreadedForkChild, Survives(t, stack[t]) PROVE Survives(t, q)'
    <3>1. ~Doomed(stack[t])
      BY <1>2 DEF Doomed
    <3> SUFFICES ASSUME classHasTrivialInitialize(c), NEW d \in pending, Superclass[d] \in metaclasses'[t] PROVE d \in metaclasses'[t]
      <4>1. Doomed(q) <=> ~classHasTrivialInitialize(c)
        <5>1. q # <<>> /\ q[Len(q)] = x /\ x.at = "fork" /\ x.cls = c
          BY <1>3, <1>4, <2>2
        <5> QED
          BY <5>1 DEF Doomed
      <4>2. Doomed(q)' <=> Doomed(q)
        BY DEF Doomed
      <4> QED
        BY <1>1, <4>1, <4>2 DEF Survives
    <3>2. Superclass[d] # c
      BY <1>5, <2>2 DEF IndInv, ChildInv, PendingInv
    <3> QED
      BY <1>6, <2>2, <3>1, <3>2 DEF Survives
  <2> QED
    BY <1>1, <1>4, <1>6, <2>1, <2>2, ChildKept
<1> QED
  BY <1>7, <1>10, <1>11, <1>12, <1>13, <1>14 DEF IndInv

LEMMA BeginKeeps ==
  ASSUME IndInv, halted = "no", NEW t \in Threads, Begin(t)
  PROVE  IndInv'
<1> DEFINE a == IF multithreadedForkChild THEN "fork" ELSE "tell"
           x == [Top(t) EXCEPT !.at = a]
<1>1. stack[t] # <<>> /\ Top(t).at = "begin" /\ UNCHANGED <<flags, process, ghosts>>
  BY DEF Begin, At
<1>2. stack' = [stack EXCEPT ![t] = Replace(stack[t], x)]
  BY UpdateIs DEF Begin, Goto
<1>3. x \in Frames
  <2>1. a \in Steps /\ Top(t) \in Frames
    BY <1>1, TopIs DEF Steps
  <2> HIDE DEF a
  <2> QED
    BY <2>1, AtFacts
<1>4. metaclasses' = [metaclasses EXCEPT ![t] = @ \cup {Top(t).cls}] /\ halted' = "no"
  BY <1>1, PendingClaim DEF Begin, Claim, ThisThreadIsInitializingClass
<1>5. a \in {"fork", "tell"} /\ (a = "fork" <=> multithreadedForkChild)
  OBVIOUS
<1> HIDE DEF a
<1> QED
  BY <1>1, <1>2, <1>3, <1>4, <1>5, ClaimKeeps

LEMMA TakeOverKeeps ==
  ASSUME IndInv, halted = "no", NEW t \in Threads, TakeOver(t)
  PROVE  IndInv'
<1> DEFINE a == IF multithreadedForkChild THEN "fork" ELSE "tell"
           x == [Top(t) EXCEPT !.at = a]
<1>1. stack[t] # <<>> /\ Top(t).at = "takeOver" /\ UNCHANGED <<flags, process, ghosts>>
  BY DEF TakeOver, At
<1>2. stack' = [stack EXCEPT ![t] = Replace(stack[t], x)]
  BY <1>1, PendingClaim, UpdateIs DEF TakeOver, Goto
<1>3. x \in Frames
  <2>1. a \in Steps /\ Top(t) \in Frames
    BY <1>1, TopIs DEF Steps
  <2> HIDE DEF a
  <2> QED
    BY <2>1, AtFacts
<1>4. metaclasses' = [metaclasses EXCEPT ![t] = @ \cup {Top(t).cls}] /\ halted' = "no"
  BY <1>1, PendingClaim DEF TakeOver, Claim, ThisThreadIsInitializingClass
<1>5. a \in {"fork", "tell"} /\ (a = "fork" <=> multithreadedForkChild)
  OBVIOUS
<1> HIDE DEF a
<1> QED
  BY <1>1, <1>2, <1>3, <1>4, <1>5, ClaimKeeps

\* A step of one thread after which the functions to tell, or told, are others.
LEMMA CountsChange ==
  ASSUME IndInv, NEW t \in Threads, NEW q \in Seq(Frames),
         UNCHANGED <<flags, metaclasses, multithreadedForkChild, halted, sent>>,
         willInitializeFuncs' \in SUBSET Funcs, told' \in [Funcs -> [Classes -> Nat]],
         stack' = [stack EXCEPT ![t] = q], Calls(t, q), Begins(q) = {},
         TypeInv' /\ ~multithreadedForkChild => \A f \in Funcs, c \in Classes : Counted(f, c)',
         multithreadedForkChild => /\ Fresh(t, stack[t]) => Fresh(t, q)
                                   /\ ~Doomed(stack[t])
  PROVE  IndInv'
<1>0. UNCHANGED <<initializing, initialized, pending, metaclasses, multithreadedForkChild, sent, halted>> /\ Begun' = Begun
  BY DEF flags, Begun
<1>1. stack'[t] = q /\ (\A u \in Threads : u # t => stack'[u] = stack[u]) /\ stack' \in [Threads -> Seq(Frames)]
  BY DEF IndInv, TypeInv
<1>2. TypeInv'
  BY <1>0, <1>1 DEF IndInv, TypeInv
<1>3. Calls(t, q)'
  <2>1. \A i \in 1..Len(q) : q[i].at \in Owning => q[i].cls \notin pending'
    BY <1>0 DEF Calls, Knows
  <2> QED
    BY <1>0, <2>1, CallsKept
<1>4. StackInv'
  <2>1. \A u \in Threads : \A i \in 1..Len(stack[u]) : stack[u][i].at \in Owning => stack[u][i].cls \notin pending'
    BY <1>0, OwnersBegun
  <2> QED
    BY <1>0, <1>3, <2>1, OthersCalls
<1>5. ClaimInv' /\ FlagInv' /\ PendingInv' /\ SentInv'
  BY <1>0 DEF IndInv, ClaimInv, FlagInv, PendingInv, SentInv, SuperUsable
<1>6. ParentInv'
  <2> SUFFICES ASSUME ~multithreadedForkChild
               PROVE  /\ \A u, v \in Threads : u # v => Own(u)' \cap Own(v)' = {}
                      /\ \A u \in Threads : Own(u)' \cap initialized' = {}
                      /\ \A c \in pending' : \E u \in Threads : c \in metaclasses'[u]
                      /\ \A c \in Classes : (c \notin Begun' => sent'[c] = 0) /\ (c \in initialized' \cup pending' => sent'[c] = 1)
                      /\ \A f \in Funcs, c \in Classes : Counted(f, c)'
    BY <1>0 DEF ParentInv
  <2>0. ParentInv /\ ~multithreadedForkChild
    BY DEF IndInv
  <2>1. \A u \in Threads : Own(u)' \subseteq Own(u)
    <3>1. Begins(stack[t])' = {}
      BY <1>1 DEF Begins
    <3>2. \A u \in Threads : u # t => Begins(stack[u])' = Begins(stack[u])
      BY <1>1 DEF Begins
    <3> QED
      BY <1>0, <3>1, <3>2 DEF Own
  <2> QED
    BY <1>0, <1>2, <2>0, <2>1 DEF ParentInv
<1>7. ChildInv'
  <2>1. ASSUME multithreadedForkChild, Fresh(t, stack[t]) PROVE Fresh(t, q)'
    BY <1>0, <2>1 DEF Fresh
  <2>2. ASSUME multithreadedForkChild, Survives(t, stack[t]) PROVE Survives(t, q)'
    BY <1>0, <2>2 DEF Survives
  <2> QED
    BY <1>0, <2>1, <2>2, ChildKept
<1> QED
  BY <1>2, <1>4, <1>5, <1>6, <1>7 DEF IndInv

\* The thread that owed it tells the function.
LEMMA CountMoves ==
  ASSUME TypeInv, TypeInv', NEW f \in Funcs, NEW c \in Classes, Counted(f, c), told'[f][c] = told[f][c] + 1,
         f \in willInitializeFuncs' /\ c \in Begun' <=> f \in willInitializeFuncs /\ c \in Begun,
         NEW t \in Threads, Owes(f, c, stack[t]), ~Owes(f, c, stack'[t]),
         \A u \in Threads : u # t => (Owes(f, c, stack'[u]) <=> Owes(f, c, stack[u]))
  PROVE  Counted(f, c)'
<1>1. Owed(f, c) = {u \in Threads : Owes(f, c, stack[u])} /\ Owed(f, c)' = {u \in Threads : Owes(f, c, stack'[u])}
  BY OwedIs
<1>2. Owed(f, c) = {t}
  BY <1>1 DEF Counted
<1>3. Owed(f, c)' = {}
  BY <1>1, <1>2
<1>4. Cardinality(Owed(f, c)) = 1 /\ Cardinality(Owed(f, c)') = 0
  BY <1>2, <1>3, FS_EmptySet, FS_Singleton
<1>5. told[f][c] \in Nat
  BY DEF TypeInv
<1> QED
  BY <1>3, <1>4, <1>5 DEF Counted

LEMMA TellKeeps ==
  ASSUME IndInv, halted = "no", NEW t \in Threads, NEW g \in Funcs, Tell(t, g)
  PROVE  IndInv'
<1> PICK s : s = stack[t]
  OBVIOUS
<1> PICK c : c = Top(t).cls
  OBVIOUS
<1> PICK x : x = [Top(t) EXCEPT !.funcs = @ \ {g}]
  OBVIOUS
<1> PICK q : q = Replace(s, x)
  OBVIOUS
<1>1. /\ s # <<>> /\ Top(t).at = "tell" /\ g \in Top(t).funcs /\ stack' = [stack EXCEPT ![t] = q]
      /\ UNCHANGED <<flags, metaclasses, process, halted, sent>> /\ told' = [told EXCEPT ![g][c] = @ + 1]
  BY UpdateIs DEF Tell, At
<1>2. /\ Top(t) \in Frames /\ SuperUsable(t, c) /\ Top(t).todo = {} /\ Knows(t, "tell", c)
      /\ s \in Seq(Frames) /\ Calls(t, s) /\ Len(s) \in Nat /\ Len(s) >= 1 /\ Len(s) \in 1..Len(s)
      /\ Top(t) = s[Len(s)] /\ c \in Classes
  BY <1>1, TopIs
<1>3. x \in Frames /\ x.at = "tell" /\ x.cls = c /\ x.funcs = Top(t).funcs \ {g} /\ x.todo = {}
  BY <1>1, <1>2 DEF Frames
<1>4. q \in Seq(Frames) /\ q # <<>> /\ Len(q) = Len(s) /\ q[Len(s)] = x
  BY <1>1, <1>2, <1>3, ReplaceFacts
<1>5. ~multithreadedForkChild /\ UNCHANGED <<willInitializeFuncs, multithreadedForkChild, initializing, initialized>>
  BY <1>1, <1>2 DEF Knows, process, flags
<1>6. Calls(t, q)
  <2>1. x.at \in Owning /\ x.at \in Claiming /\ Top(t).at \in Owning /\ Knows(t, x.at, x.cls) /\ SuperUsable(t, x.cls)
    BY <1>1, <1>2, <1>3 DEF Owning, Claiming
  <2>2. Calls(t, Replace(s, x))
    BY <1>1, <1>2, <1>3, <2>1, ReplaceCalls
  <2> QED
    BY <2>2
<1>7. Begins(q) = {}
  <2>1. s \in Seq(Frames) /\ s # <<>> /\ Calls(t, s) /\ x \in Frames /\ x.cls \in Classes /\ x.at # "begin"
    BY <1>1, <1>2, <1>3
  <2> QED
    BY <2>1, ReplaceBegins, Zenon
<1>8. /\ told' \in [Funcs -> [Classes -> Nat]] /\ told'[g][c] = told[g][c] + 1
      /\ \A f \in Funcs, d \in Classes : f # g \/ d # c => told'[f][d] = told[f][d]
  BY <1>1, <1>2 DEF IndInv, TypeInv
<1>9. ASSUME TypeInv', NEW f \in Funcs, NEW d \in Classes PROVE Counted(f, d)'
  <2>0. s \in Seq(Frames) /\ s # <<>> /\ Calls(t, s) /\ x \in Frames /\ ~multithreadedForkChild
    BY <1>1, <1>2, <1>3, <1>5
  <2>1. Owes(f, d, s) <=> f \in s[Len(s)].funcs /\ (s[Len(s)].cls = d \/ d \in s[Len(s)].todo)
    BY <2>0, OwesTop
  <2>2. Owes(f, d, Replace(s, x)) <=> f \in x.funcs /\ (x.cls = d \/ d \in x.todo)
    BY <2>0, ReplaceOwes, Zenon
  <2>3. Counted(f, d) /\ TypeInv /\ Begun' = Begun
    BY <1>5 DEF IndInv, ParentInv, Begun
  <2>4. stack'[t] = q /\ stack[t] = s /\ \A u \in Threads : u # t => stack'[u] = stack[u]
    BY <1>1 DEF IndInv, TypeInv
  <2>5. CASE f = g /\ d = c
    <3>1. Owes(f, d, stack[t]) /\ ~Owes(f, d, stack'[t])
      BY <1>1, <1>2, <1>3, <2>1, <2>2, <2>4, <2>5
    <3> QED
      BY <1>5, <1>8, <1>9, <2>3, <2>4, <2>5, <3>1, CountMoves
  <2>6. CASE ~(f = g /\ d = c)
    <3>1. \A u \in Threads : Owes(f, d, stack'[u]) <=> Owes(f, d, stack[u])
      BY <1>1, <1>2, <1>3, <2>1, <2>2, <2>4, <2>6
    <3> QED
      BY <1>5, <1>8, <1>9, <2>3, <2>6, <3>1, CountedKept
  <2> QED
    BY <2>5, <2>6
<1>10. willInitializeFuncs' \in SUBSET Funcs
  BY <1>5 DEF IndInv, TypeInv
<1> QED
  BY <1>1, <1>4, <1>5, <1>6, <1>7, <1>8, <1>9, <1>10, CountsChange

\* The one call of a thread that adds a function.
LEMMA AddCalls ==
  ASSUME NEW t \in Threads, NEW q \in Seq(Frames), Len(q) = 1, NEW x \in Frames, q[1] = x, x.at = "add", x.cls = NoClass,
         metaclasses[t] \subseteq pending
  PROVE  /\ Calls(t, q) /\ Begins(q) = {}
         /\ \A f \in Funcs, c \in Classes : Owes(f, c, q) <=> f \in x.funcs /\ c \in x.todo
         /\ metaclasses[t] = {} => Fresh(t, q)
<1>1. \A i \in 1..Len(q) : q[i] = x /\ i = 1
  OBVIOUS
<1>2. Shape(q)
  BY <1>1 DEF Shape, ShapeAt
<1>3. \A i \in 1..Len(q) : Knows(t, q[i].at, q[i].cls) /\ ~SuperDone(q, i) /\ q[i].at \notin Owning
  BY <1>1 DEF Knows, SuperDone, Owning, Claiming
<1>4. Calls(t, q)
  BY <1>2, <1>3 DEF Calls
<1>5. Begins(q) = {}
  BY <1>1 DEF Begins
<1>6. ASSUME NEW f \in Funcs, NEW c \in Classes PROVE Owes(f, c, q) <=> f \in x.funcs /\ c \in x.todo
  <2>1. c # NoClass /\ 1 \in 1..Len(q)
    BY InitializeAssumption
  <2> QED
    BY <1>1, <2>1 DEF Owes
<1>7. metaclasses[t] = {} => Fresh(t, q)
  BY <1>1 DEF Fresh
<1> QED
  BY <1>4, <1>5, <1>6, <1>7

LEMMA AddWillInitializeFuncKeeps ==
  ASSUME IndInv, halted = "no", NEW t \in Threads, NEW g \in Funcs, AddWillInitializeFunc(t, g)
  PROVE  IndInv'
<1>a. PICK x : x = [cls |-> NoClass, at |-> "add", todo |-> Begun, funcs |-> {g}, throws |-> FALSE]
  OBVIOUS
<1>b. PICK q : q = <<x>>
  OBVIOUS
<1>1. /\ stack[t] = <<>> /\ g \notin willInitializeFuncs /\ willInitializeFuncs' = willInitializeFuncs \cup {g}
      /\ stack' = [stack EXCEPT ![t] = q] /\ UNCHANGED <<flags, metaclasses, multithreadedForkChild, halted, sent, told>>
  <2>1. ASSUME NEW y, y = [Call(NoClass) EXCEPT !.at = "add", !.funcs = {g}, !.todo = initializing \cup initialized]
        PROVE  y = [cls |-> NoClass, at |-> "add", todo |-> Begun, funcs |-> {g}, throws |-> FALSE]
    BY <2>1 DEF Call, Begun
  <2>2. x = [Call(NoClass) EXCEPT !.at = "add", !.funcs = {g}, !.todo = initializing \cup initialized]
    BY <1>a, <2>1
  <2> QED
    BY <1>b, <2>2 DEF AddWillInitializeFunc, ghosts
<1>2. x \in Frames /\ x.at = "add" /\ x.cls = NoClass /\ x.funcs = {g} /\ x.todo = Begun
  <2>1. Begun \in SUBSET Classes /\ {g} \in SUBSET Funcs
    BY DEF Begun, IndInv, TypeInv
  <2> QED
    BY <1>a, <2>1 DEF Frames, Steps
<1>3. q \in Seq(Frames) /\ Len(q) = 1 /\ q[1] = x
  BY <1>b, <1>2
<1>4. stack'[t] = q /\ \A u \in Threads : u # t => stack'[u] = stack[u]
  BY <1>1 DEF IndInv, TypeInv
<1>5. metaclasses[t] \subseteq pending
  <2>1. Calls(t, stack[t]) /\ Len(stack[t]) = 0
    BY <1>1 DEF IndInv, StackInv
  <2> QED
    BY <2>1 DEF Calls, Covers
<1>6. /\ Calls(t, q) /\ Begins(q) = {} /\ (metaclasses[t] = {} => Fresh(t, q))
      /\ \A f \in Funcs, c \in Classes : Owes(f, c, q) <=> f \in x.funcs /\ c \in x.todo
  BY <1>2, <1>3, <1>5, AddCalls
<1>7. ASSUME ~multithreadedForkChild, TypeInv', NEW f \in Funcs, NEW c \in Classes PROVE Counted(f, c)'
  <2>0. ~Owes(f, c, stack[t]) /\ (Owes(f, c, stack'[t]) <=> f = g /\ c \in Begun)
    <3>1. Len(stack[t]) = 0
      BY <1>1
    <3> QED
      BY <1>2, <1>4, <1>6, <3>1 DEF Owes
  <2>1. Counted(f, c) /\ TypeInv /\ Begun' = Begun /\ told' = told /\ told[f][c] \in Nat
    BY <1>1, <1>7 DEF IndInv, ParentInv, Begun, flags, TypeInv
  <2>2. CASE f = g /\ c \in Begun
    <3>1. told[f][c] + Cardinality(Owed(f, c)) = 0
      BY <1>1, <2>1, <2>2 DEF Counted
    <3>2. Owed(f, c) = {} /\ told[f][c] = 0
      BY <2>1, <3>1, NoneCounted DEF Counted
    <3>3. Owed(f, c)' = {t}
      BY <1>4, <1>7, <2>0, <2>1, <2>2, <3>2, OwedIs
    <3>4. Cardinality(Owed(f, c)') = 1
      BY <3>3, FS_Singleton
    <3> QED
      BY <1>1, <2>1, <2>2, <3>2, <3>3, <3>4 DEF Counted
  <2>3. CASE ~(f = g /\ c \in Begun)
    <3>1. \A u \in Threads : Owes(f, c, stack'[u]) <=> Owes(f, c, stack[u])
      BY <1>4, <2>0, <2>3
    <3>2. f \in willInitializeFuncs' /\ c \in Begun' <=> f \in willInitializeFuncs /\ c \in Begun
      BY <1>1, <2>1, <2>3
    <3> QED
      BY <1>7, <2>1, <3>1, <3>2, CountedKept
  <2> QED
    BY <2>2, <2>3
<1>8. ~Doomed(stack[t]) /\ (Fresh(t, stack[t]) => metaclasses[t] = {})
  BY <1>1 DEF Doomed, Fresh
<1>9. willInitializeFuncs' \in SUBSET Funcs /\ told' \in [Funcs -> [Classes -> Nat]]
  BY <1>1 DEF IndInv, TypeInv
<1> QED
  BY <1>1, <1>3, <1>6, <1>7, <1>8, <1>9, CountsChange

LEMMA TellOfKeeps ==
  ASSUME IndInv, halted = "no", NEW t \in Threads, NEW d \in Classes, TellOf(t, d)
  PROVE  IndInv'
<1> PICK s : s = stack[t]
  OBVIOUS
<1>a. PICK x : x = [Top(t) EXCEPT !.todo = @ \ {d}]
  OBVIOUS
<1>b. PICK q : q = Replace(s, x)
  OBVIOUS
<1>1. /\ s # <<>> /\ Top(t).at = "add" /\ d \in Top(t).todo /\ stack' = [stack EXCEPT ![t] = q]
      /\ UNCHANGED <<flags, metaclasses, process, halted, sent>>
      /\ told' = [f \in Funcs |-> IF f \in Top(t).funcs THEN [told[f] EXCEPT ![d] = @ + 1] ELSE told[f]]
  BY <1>a, <1>b, UpdateIs DEF TellOf, At
<1>2. /\ Top(t) \in Frames /\ s \in Seq(Frames) /\ Calls(t, s) /\ Top(t) = s[Len(s)] /\ Len(s) = 1 /\ Top(t).cls = NoClass
  <2>1. /\ Top(t) \in Frames /\ s \in Seq(Frames) /\ Calls(t, s) /\ Top(t) = s[Len(s)] /\ ShapeAt(s, Len(s))
    BY <1>1, TopIs
  <2> QED
    BY <1>1, <2>1 DEF ShapeAt
<1>3. x \in Frames /\ x.at = "add" /\ x.cls = NoClass /\ x.funcs = Top(t).funcs /\ x.todo = Top(t).todo \ {d}
  BY <1>a, <1>1, <1>2 DEF Frames
<1>4. q \in Seq(Frames) /\ Len(q) = 1 /\ q[1] = x
  <2>1. Replace(s, x) \in Seq(Frames) /\ Len(Replace(s, x)) = Len(s) /\ Replace(s, x)[Len(s)] = x
    BY <1>1, <1>2, <1>3, ReplaceFacts
  <2> QED
    BY <1>b, <1>2, <2>1
<1>5. UNCHANGED <<willInitializeFuncs, multithreadedForkChild, initializing, initialized>> /\ Begun' = Begun
  BY <1>1 DEF process, flags, Begun
<1>6. metaclasses[t] \subseteq pending
  <2>1. \A c : ~Covers(s, c)
    BY <1>1, <1>2 DEF Covers, Claiming, Owning
  <2> QED
    BY <1>2, <2>1 DEF Calls
<1>7. /\ Calls(t, q) /\ Begins(q) = {} /\ (metaclasses[t] = {} => Fresh(t, q))
      /\ \A f \in Funcs, c \in Classes : Owes(f, c, q) <=> f \in x.funcs /\ c \in x.todo
  <2>1. q \in Seq(Frames) /\ Len(q) = 1 /\ x \in Frames /\ q[1] = x /\ x.at = "add" /\ x.cls = NoClass /\ metaclasses[t] \subseteq pending
    BY <1>3, <1>4, <1>6
  <2> QED
    BY <2>1, AddCalls, SMTT(30)
<1>8. \A f \in Funcs, c \in Classes : Owes(f, c, s) <=> f \in Top(t).funcs /\ c \in Top(t).todo
  BY <1>1, <1>2, <1>6, AddCalls
<1>9. /\ told' \in [Funcs -> [Classes -> Nat]]
      /\ \A f \in Funcs, c \in Classes : told'[f][c] = IF f \in Top(t).funcs /\ c = d THEN told[f][c] + 1 ELSE told[f][c]
  BY <1>1 DEF IndInv, TypeInv
<1>10. ASSUME ~multithreadedForkChild, TypeInv', NEW f \in Funcs, NEW c \in Classes PROVE Counted(f, c)'
  <2>1. Counted(f, c) /\ TypeInv
    BY <1>10 DEF IndInv, ParentInv
  <2>2. stack'[t] = q /\ stack[t] = s /\ \A u \in Threads : u # t => stack'[u] = stack[u]
    BY <1>1 DEF IndInv, TypeInv
  <2>3. CASE f \in Top(t).funcs /\ c = d
    <3>1. Owes(f, c, stack[t]) /\ ~Owes(f, c, stack'[t])
      <4>1. c \notin x.todo /\ c \in Top(t).todo
        BY <1>1, <1>3, <2>3
      <4> QED
        BY <1>7, <1>8, <2>2, <2>3, <4>1
    <3> QED
      BY <1>5, <1>9, <1>10, <2>1, <2>2, <2>3, <3>1, CountMoves
  <2>4. CASE ~(f \in Top(t).funcs /\ c = d)
    <3>1. \A u \in Threads : Owes(f, c, stack'[u]) <=> Owes(f, c, stack[u])
      BY <1>3, <1>7, <1>8, <2>2, <2>4
    <3> QED
      BY <1>5, <1>9, <1>10, <2>1, <2>4, <3>1, CountedKept
  <2> QED
    BY <2>3, <2>4
<1>11. ~Doomed(stack[t]) /\ (Fresh(t, stack[t]) => metaclasses[t] = {})
  BY <1>1, <1>2 DEF Doomed, Fresh
<1>12. willInitializeFuncs' \in SUBSET Funcs
  BY <1>5 DEF IndInv, TypeInv
<1> QED
  BY <1>1, <1>4, <1>5, <1>7, <1>9, <1>10, <1>11, <1>12, CountsChange

LEMMA CallInitializeKeeps ==
  ASSUME IndInv, halted = "no", NEW t \in Threads, CallInitialize(t)
  PROVE  IndInv'
<1> PICK s : s = stack[t]
  OBVIOUS
<1> PICK c : c = Top(t).cls
  OBVIOUS
<1> PICK x : x = [Top(t) EXCEPT !.at = "client", !.todo = Uses[Top(t).cls]]
  OBVIOUS
<1> PICK q : q = Replace(s, x)
  OBVIOUS
<1>1. /\ s # <<>> /\ Top(t).at = "tell" /\ Top(t).funcs = {} /\ stack' = [stack EXCEPT ![t] = q]
      /\ UNCHANGED <<initializing, initialized, pending, metaclasses, willInitializeFuncs, multithreadedForkChild, halted, told>>
      /\ sent' = [sent EXCEPT ![c] = @ + 1]
  BY UpdateIs DEF CallInitialize, At, flags, process
<1>2. /\ Top(t) \in Frames /\ SuperUsable(t, c) /\ Knows(t, "tell", c)
      /\ s \in Seq(Frames) /\ Calls(t, s) /\ Len(s) \in Nat /\ Len(s) >= 1 /\ Len(s) \in 1..Len(s)
      /\ Top(t) = s[Len(s)] /\ c \in Classes
  BY <1>1, TopIs
<1>3. x \in Frames /\ x.at = "client" /\ x.cls = c /\ x.funcs = {} /\ x.todo = Uses[c]
  <2>1. Uses[c] \in SUBSET Classes
    BY <1>2, InitializeAssumption
  <2> QED
    BY <1>1, <1>2, <2>1 DEF Frames, Steps
<1>4. q \in Seq(Frames) /\ q # <<>> /\ Len(q) = Len(s) /\ q[Len(s)] = x
  BY <1>1, <1>2, <1>3, ReplaceFacts
<1>5. ~multithreadedForkChild /\ sent[c] = 0 /\ c \in metaclasses[t] /\ Begun' = Begun /\ c \in Begun /\ c \notin pending
  BY <1>1, <1>2 DEF Knows, Begun, Claiming, Owning
<1>6. /\ stack'[t] = q /\ (\A u \in Threads : u # t => stack'[u] = stack[u]) /\ stack' \in [Threads -> Seq(Frames)]
      /\ sent'[c] = 1 /\ (\A d \in Classes : d # c => sent'[d] = sent[d]) /\ sent' \in [Classes -> Nat]
  BY <1>1, <1>2, <1>4, <1>5 DEF IndInv, TypeInv
<1>7. TypeInv'
  BY <1>1, <1>6 DEF IndInv, TypeInv
<1>8. Calls(t, q)'
  <2>1. Knows(t, x.at, x.cls)'
    BY <1>1, <1>3, <1>5, <1>6 DEF Knows, Owning, Claiming
  <2>2. \A i \in 1..(Len(s) - 1) : s[i].at = "client" => Knows(t, "client", s[i].cls)'
    <3> SUFFICES ASSUME NEW i \in 1..(Len(s) - 1), s[i].at = "client" PROVE Knows(t, "client", s[i].cls)'
      OBVIOUS
    <3>1. i \in 1..Len(s) /\ i # Len(s) /\ s[i] \in Frames
      BY <1>2
    <3>2. Knows(t, "client", s[i].cls) /\ s[i].cls # c
      BY <1>1, <1>2, <3>1 DEF Calls, Owning
    <3>3. s[i].cls \in Classes
      <4>1. ShapeAt(s, i)
        BY <1>2, <3>1 DEF Calls, Shape
      <4> QED
        BY <3>1, <4>1 DEF ShapeAt, Frames
    <3> QED
      BY <1>1, <1>5, <1>6, <3>2, <3>3 DEF Knows, Owning, Claiming
  <2>3. \A d \in metaclasses'[t] : \/ d \in pending' \/ (d = x.cls /\ x.at \in Claiming)
                                   \/ \E i \in 1..(Len(s) - 1) : s[i].cls = d /\ s[i].at = "client"
    <3> SUFFICES ASSUME NEW d \in metaclasses[t], d \notin pending, d # c PROVE \E i \in 1..(Len(s) - 1) : s[i].cls = d /\ s[i].at = "client"
      BY <1>1, <1>3 DEF Claiming, Owning
    <3>1. PICK i \in 1..Len(s) : s[i].cls = d /\ s[i].at \in Claiming
      BY <1>2 DEF Calls, Covers
    <3>2. i # Len(s)
      BY <1>2, <3>1
    <3>3. i \in 1..(Len(s) - 1) /\ i < Len(s) /\ ShapeAt(s, i)
      BY <1>2, <3>2 DEF Calls, Shape
    <3>4. s[i].at = "client"
      BY <3>1, <3>3 DEF ShapeAt, Claiming, Owning
    <3> QED
      BY <3>1, <3>3, <3>4
  <2>4. s[Len(s)].at \in Owning /\ s[Len(s)].at # "add" /\ x.cls = s[Len(s)].cls
    BY <1>1, <1>2, <1>3 DEF Owning
  <2>5. SuperUsable(t, x.cls)' /\ \A d \in Classes : SuperUsable(t, d) => SuperUsable(t, d)'
    BY <1>1, <1>2, <1>3 DEF SuperUsable
  <2>6. Moves(t, s, x)
    BY <1>3, <2>1, <2>2, <2>3, <2>4, <2>5 DEF Moves
  <2> QED
    BY <1>1, <1>2, <1>3, <2>6, MovesCalls
<1>9. StackInv'
  <2>1. initialized \subseteq initialized' /\ Begun \subseteq Begun'
    BY <1>1, <1>5
  <2>2. \A u \in Threads : \A i \in 1..Len(stack[u]) : stack[u][i].at \in Owning => stack[u][i].cls \notin pending'
    BY <1>1, OwnersBegun
  <2>3. ASSUME NEW u \in Threads, u # t, NEW i \in 1..Len(stack[u]), stack[u][i].at \in Owning
        PROVE  sent'[stack[u][i].cls] = sent[stack[u][i].cls]
    <3>1. /\ stack[u] \in Seq(Frames) /\ Calls(u, stack[u]) /\ stack[u][i] \in Frames
      BY DEF IndInv, TypeInv, StackInv
    <3>2. ShapeAt(stack[u], i) /\ Knows(u, stack[u][i].at, stack[u][i].cls)
      BY <3>1 DEF Calls, Shape
    <3>3. stack[u][i].cls \in Classes
      BY <2>3, <3>1, <3>2 DEF ShapeAt, Frames, Owning
    <3>4. stack[u][i].cls \in Own(u)
      <4>1. CASE stack[u][i].at = "begin"
        BY <3>3, <4>1 DEF Own, Begins
      <4>2. CASE stack[u][i].at # "begin"
        BY <2>3, <3>2, <4>2 DEF Own, Knows, Claiming
      <4> QED
        BY <4>1, <4>2
    <3>5. stack[u][i].cls # c
      BY <1>5, <2>3, <3>4 DEF Own, IndInv, ParentInv
    <3> QED
      BY <1>6, <3>3, <3>5
  <2>4. \A u \in Threads : u # t =>
           /\ metaclasses'[u] = metaclasses[u]
           /\ metaclasses[u] \cap pending \subseteq pending'
           /\ \A i \in 1..Len(stack[u]) : stack[u][i].at \in Owning =>
                /\ stack[u][i].cls \notin pending'
                /\ ~multithreadedForkChild => sent'[stack[u][i].cls] = sent[stack[u][i].cls]
    BY <1>1, <2>2, <2>3
  <2> QED
    BY <1>1, <1>4, <1>8, <2>1, <2>4, OthersCalls
<1>10. ClaimInv' /\ FlagInv' /\ PendingInv'
  BY <1>1, <1>5 DEF IndInv, ClaimInv, FlagInv, PendingInv, SuperUsable
<1>11. SentInv'
  BY <1>6 DEF IndInv, SentInv
<1>12. ParentInv'
  <2>0. /\ \A u, v \in Threads : u # v => Own(u) \cap Own(v) = {}
        /\ \A u \in Threads : Own(u) \cap initialized = {}
        /\ \A d \in pending : \E u \in Threads : d \in metaclasses[u]
        /\ \A d \in Classes : (d \notin Begun => sent[d] = 0) /\ (d \in initialized \cup pending => sent[d] = 1)
        /\ \A f \in Funcs, d \in Classes : Counted(f, d)
    BY <1>5 DEF IndInv, ParentInv
  <2>1. \A u \in Threads : Own(u)' \subseteq Own(u)
    <3>1. Begins(q) = {}
      <4>1. s \in Seq(Frames) /\ s # <<>> /\ Calls(t, s) /\ x \in Frames /\ x.cls \in Classes /\ x.at # "begin"
        BY <1>1, <1>2, <1>3
      <4> QED
        BY <4>1, ReplaceBegins, Zenon
    <3>2. Begins(stack[t])' = {}
      BY <1>6, <3>1 DEF Begins
    <3>3. \A u \in Threads : u # t => Begins(stack[u])' = Begins(stack[u])
      BY <1>6 DEF Begins
    <3> QED
      BY <1>1, <3>2, <3>3 DEF Own
  <2>2. \A f \in Funcs, d \in Classes : Counted(f, d)'
    <3> SUFFICES ASSUME NEW f \in Funcs, NEW d \in Classes PROVE Counted(f, d)'
      OBVIOUS
    <3>0. s \in Seq(Frames) /\ s # <<>> /\ Calls(t, s) /\ x \in Frames /\ ~multithreadedForkChild
      BY <1>1, <1>2, <1>3, <1>5
    <3>1. Owes(f, d, s) <=> f \in s[Len(s)].funcs /\ (s[Len(s)].cls = d \/ d \in s[Len(s)].todo)
      BY <3>0, OwesTop
    <3>2. Owes(f, d, Replace(s, x)) <=> f \in x.funcs /\ (x.cls = d \/ d \in x.todo)
      BY <3>0, ReplaceOwes, Zenon
    <3>3. Counted(f, d) /\ TypeInv
      BY <2>0 DEF IndInv
    <3>4. \A u \in Threads : Owes(f, d, stack'[u]) <=> Owes(f, d, stack[u])
      BY <1>1, <1>2, <1>3, <1>6, <3>1, <3>2
    <3> QED
      BY <1>1, <1>5, <1>7, <3>3, <3>4, CountedKept
  <2>3. \A d \in Classes : (d \notin Begun' => sent'[d] = 0) /\ (d \in initialized' \cup pending' => sent'[d] = 1)
    BY <1>1, <1>5, <1>6, <2>0
  <2> QED
    BY <1>1, <2>0, <2>1, <2>2, <2>3 DEF ParentInv
<1>13. ChildInv'
  BY <1>1, <1>5 DEF ChildInv
<1> QED
  BY <1>7, <1>9, <1>10, <1>11, <1>12, <1>13 DEF IndInv

\* One of finitely many numbers is the greatest: the one with the fewest above it.
LEMMA GreatestExists ==
  ASSUME NEW n \in Nat, NEW I \in SUBSET (0..n), I # {}
  PROVE  Max(I) \in I /\ \A k \in I : k <= Max(I)
<1> DEFINE Beyond(k) == {j \in I : j > k}
           F == {Beyond(k) : k \in I}
<1>0. IsFiniteSet(I) /\ I \subseteq Nat
  <2>1. IsFiniteSet(0..n)
    BY FS_Interval
  <2>2. IsFiniteSet(I)
    BY <2>1, FS_Subset
  <2> QED
    BY <2>2
<1>1. IsWellFoundedOn(StrictSubsetOrdering(I), SUBSET I)
  BY <1>0, FS_StrictSubsetOrderingWellFounded, FS_FiniteSubsetsOfFinite
<1>2. F \subseteq SUBSET I /\ F # {}
  <2>1. PICK k \in I : TRUE
    OBVIOUS
  <2>2. Beyond(k) \in F
    BY <2>1
  <2> QED
    BY <2>2
<1>3. PICK S \in F : \A R \in F : ~(<<R, S>> \in StrictSubsetOrdering(I))
  <2> HIDE DEF F
  <2> QED
    BY <1>1, <1>2, WFMin
<1>4. PICK k \in I : S = Beyond(k)
  OBVIOUS
<1>5. ASSUME NEW j \in I, j > k PROVE FALSE
  <2>0. j \in Nat /\ k \in Nat /\ \A i \in I : i \in Nat
    BY <1>0
  <2>a. \A i \in I : i > j => i > k
    BY <1>5, <2>0
  <2>b. ~(j > j)
    BY <2>0
  <2>1. Beyond(j) \subseteq Beyond(k) /\ j \in Beyond(k) /\ j \notin Beyond(j)
    BY <1>5, <2>a, <2>b
  <2>2. <<Beyond(j), Beyond(k)>> \in StrictSubsetOrdering(I)
    <3>1. Beyond(j) \in SUBSET I /\ Beyond(k) \in SUBSET I
      OBVIOUS
    <3>2. Beyond(j) # Beyond(k)
      BY <2>1
    <3> HIDE DEF Beyond
    <3> QED
      BY <2>1, <3>1, <3>2 DEF StrictSubsetOrdering
  <2> QED
    BY <1>3, <1>4, <2>2
<1>6. \A j \in I : k >= j
  BY <1>0, <1>5
<1>7. Max(I) \in I /\ \A j \in I : Max(I) >= j
  BY <1>6 DEF Max
<1> QED
  BY <1>0, <1>7

\* Where a call that is at its end returns to: the calls that are left had not
\* waited for it, unless it returns to its caller.
LEMMA LeaveIs ==
  ASSUME IndInv, NEW t \in Threads, stack[t] # <<>>, NEW s, s = stack[t]
  PROVE  \E m \in 0..(Len(s) - 1) :
           /\ Leave(t) = SubSeq(s, 1, m)
           /\ m = Len(s) - 1 \/ m = 0 \/ s[m].at = "client"
           /\ \A i \in 1..(Len(s) - 1) : i > m => s[i].at # "client"
<1>1. s \in Seq(Frames) /\ s # <<>> /\ Len(s) \in Nat /\ Len(s) >= 1 /\ Front(s) = SubSeq(s, 1, Len(s) - 1)
  BY TopIs, TopFacts
<1>2. CASE ~Top(t).throws
  <2>1. Len(s) - 1 \in 0..(Len(s) - 1) /\ \A i \in 1..(Len(s) - 1) : ~(i > Len(s) - 1)
    BY <1>1
  <2>2. Leave(t) = SubSeq(s, 1, Len(s) - 1)
    BY <1>1, <1>2 DEF Leave
  <2> QED
    BY <2>1, <2>2
<1>3. CASE Top(t).throws
  <2> DEFINE I == {0} \cup {i \in 1..Len(s) - 1 : s[i].at = "client"}
  <2>1. I \in SUBSET (0..(Len(s) - 1)) /\ I # {} /\ Len(s) - 1 \in Nat
    BY <1>1
  <2>2. Leave(t) = SubSeq(s, 1, Max(I))
    BY <1>3 DEF Leave
  <2>3. \A m \in I : m = 0 \/ s[m].at = "client"
    OBVIOUS
  <2>4. \A i \in 1..(Len(s) - 1) : s[i].at = "client" => i \in I
    OBVIOUS
  <2> HIDE DEF I
  <2>5. Max(I) \in I /\ \A k \in I : k <= Max(I)
    BY <2>1, GreatestExists
  <2>6. Max(I) \in 0..(Len(s) - 1) /\ (Max(I) = 0 \/ s[Max(I)].at = "client")
    BY <2>1, <2>3, <2>5
  <2>7. \A i \in 1..(Len(s) - 1) : i > Max(I) => s[i].at # "client"
    <3> SUFFICES ASSUME NEW i \in 1..(Len(s) - 1), s[i].at = "client", i > Max(I) PROVE FALSE
      OBVIOUS
    <3>1. i <= Max(I)
      BY <2>4, <2>5
    <3> QED
      BY <1>1, <2>6, <3>1
  <2> QED
    BY <2>2, <2>6, <2>7
<1> QED
  BY <1>2, <1>3

\* Calls above number m leave, and flags or lists change.
Leaves(t, s, m) ==
  /\ \A d \in Classes : SuperUsable(t, d) => SuperUsable(t, d)'
  /\ \A i \in 1..m : s[i].at = "client" => Knows(t, "client", s[i].cls)'
  /\ \A c \in metaclasses'[t] : c \in pending' \/ \E i \in 1..m : s[i].cls = c /\ s[i].at = "client"
  /\ m > 0 /\ s[m].at = "set" => SuperUsable(t, s[m].cls)'
LEMMA LeavesCalls ==
  ASSUME NEW t \in Threads, NEW s \in Seq(Frames), s # <<>>, Calls(t, s), NEW m \in 0..(Len(s) - 1),
         multithreadedForkChild' = multithreadedForkChild, Leaves(t, s, m), NEW q, q = SubSeq(s, 1, m)
  PROVE  Calls(t, q)'
<1> DEFINE n == Len(s)
<1>1. q \in Seq(Frames) /\ Len(q) = m /\ \A k \in 1..m : q[k] = s[k]
  <2>1. n \in Nat /\ m \in 0..n
    OBVIOUS
  <2> QED
    BY <2>1, CutFacts
<1>2. n \in Nat /\ m \in Nat /\ m < n
  OBVIOUS
<1>3. \A i \in 1..m : i \in 1..n /\ ShapeAt(s, i) /\ i < n
  BY <1>2 DEF Calls, Shape
<1>4. Shape(q)'
  <2> SUFFICES ASSUME NEW i \in 1..m PROVE ShapeAt(q, i)'
    BY <1>1 DEF Shape
  <2>1. ShapeAt(s, i) /\ q[i] = s[i] /\ i < n /\ (i < m => q[i + 1] = s[i + 1])
    BY <1>1, <1>2, <1>3
  <2> QED
    BY <1>1, <1>2, <2>1 DEF ShapeAt
<1>5. ASSUME NEW i \in 1..m PROVE Knows(t, q[i].at, q[i].cls)' /\ (SuperDone(q, i)' => SuperUsable(t, q[i].cls)')
  <2>1. q[i] = s[i] /\ i \in 1..n /\ i < n /\ s[i].at \in {"set", "client"}
    BY <1>1, <1>3 DEF ShapeAt
  <2>2. SuperDone(s, i) => SuperUsable(t, s[i].cls)
    BY <2>1 DEF Calls
  <2>3. s[i].cls \in Classes
    <3>1. s[i] \in Frames /\ ShapeAt(s, i)
      BY <1>3, <2>1
    <3> QED
      BY <2>1, <3>1 DEF Frames, ShapeAt
  <2>4. CASE s[i].at = "client"
    BY <2>1, <2>2, <2>3, <2>4 DEF Leaves, SuperDone
  <2>5. CASE s[i].at = "set"
    <3>1. Knows(t, s[i].at, s[i].cls)'
      BY <2>5 DEF Knows, Owning, Claiming
    <3>2. SuperDone(q, i)' => i = m /\ m > 0
      BY <1>1, <1>2, <2>1, <2>5 DEF SuperDone
    <3> QED
      BY <2>1, <2>5, <3>1, <3>2 DEF Leaves
  <2> QED
    BY <2>1, <2>4, <2>5
<1>6. \A i, j \in 1..m : i # j /\ q[i].at \in Owning /\ q[j].at \in Owning => q[i].cls # q[j].cls
  BY <1>1, <1>3 DEF Calls
<1>7. \A c \in metaclasses'[t] : c \in pending' \/ Covers(q, c)
  <2>1. "client" \in Claiming
    BY DEF Claiming, Owning
  <2> QED
    BY <1>1, <2>1 DEF Covers, Leaves
<1> QED
  BY <1>1, <1>4, <1>5, <1>6, <1>7 DEF Calls, Covers

\* A call that is woken waits for the same.
LEMMA WakeFacts ==
  ASSUME NEW s \in Seq(Frames)
  PROVE  /\ Wake(s) \in Seq(Frames) /\ Len(Wake(s)) = Len(s) /\ (s = <<>> <=> Wake(s) = <<>>)
         /\ \A i \in 1..Len(s) :
              /\ Wake(s)[i].cls = s[i].cls /\ Wake(s)[i].todo = s[i].todo /\ Wake(s)[i].funcs = s[i].funcs
              /\ Wake(s)[i].at = IF s[i].at = "blocked" THEN "wait" ELSE s[i].at
<1> DEFINE r == Wake(s)
           n == Len(s)
<1>1. n \in Nat /\ DOMAIN s = 1..n /\ \A i \in 1..n : s[i] \in Frames
  OBVIOUS
<1>2. \A i \in 1..n : r[i] = IF s[i].at = "blocked" THEN [s[i] EXCEPT !.at = "wait"] ELSE s[i]
  BY <1>1 DEF Wake
<1>3. \A f \in Frames : [f EXCEPT !.at = "wait"] \in Frames
  BY AtFacts DEF Steps
<1>4. r = [i \in 1..n |-> IF s[i].at = "blocked" THEN [s[i] EXCEPT !.at = "wait"] ELSE s[i]]
  BY <1>1 DEF Wake
<1>5. r \in [1..n -> Frames]
  BY <1>1, <1>3, <1>4
<1>6. r \in Seq(Frames) /\ Len(r) = n
  <2> HIDE DEF r
  <2> QED
    BY <1>1, <1>5
<1>7. s = <<>> <=> r = <<>>
  <2> HIDE DEF r
  <2> QED
    BY <1>6
<1>8. ASSUME NEW i \in 1..n
      PROVE  /\ r[i].cls = s[i].cls /\ r[i].todo = s[i].todo /\ r[i].funcs = s[i].funcs
             /\ r[i].at = IF s[i].at = "blocked" THEN "wait" ELSE s[i].at
  <2> HIDE DEF r
  <2>1. s[i] \in Frames /\ r[i] = IF s[i].at = "blocked" THEN [s[i] EXCEPT !.at = "wait"] ELSE s[i]
    BY <1>1, <1>2
  <2>2. "wait" \in Steps
    BY DEF Steps
  <2> QED
    BY <2>1, <2>2, AtFacts
<1> QED
  BY <1>6, <1>7, <1>8

LEMMA WakeCalls ==
  ASSUME NEW t \in Threads, NEW s \in Seq(Frames), Calls(t, s)
  PROVE  Calls(t, Wake(s))
<1> DEFINE r == Wake(s)
           n == Len(s)
<1>1. /\ Len(r) = n /\ n \in Nat
      /\ \A i \in 1..n : /\ r[i].cls = s[i].cls /\ r[i].todo = s[i].todo /\ r[i].funcs = s[i].funcs
                         /\ r[i].at = IF s[i].at = "blocked" THEN "wait" ELSE s[i].at
  BY WakeFacts
<1> HIDE DEF r
<1>2. Shape(r)
  <2> SUFFICES ASSUME NEW i \in 1..n PROVE ShapeAt(r, i)
    BY <1>1 DEF Shape
  <2>1. ShapeAt(s, i) /\ (i < n => i + 1 \in 1..n)
    BY <1>1 DEF Calls, Shape
  <2> QED
    BY <1>1, <2>1 DEF ShapeAt
<1>3. ASSUME NEW i \in 1..n PROVE Knows(t, r[i].at, r[i].cls) /\ (SuperDone(r, i) => SuperUsable(t, r[i].cls))
  <2>1. Knows(t, s[i].at, s[i].cls) /\ (SuperDone(s, i) => SuperUsable(t, s[i].cls))
    BY DEF Calls
  <2>2. Knows(t, r[i].at, r[i].cls)
    BY <1>1, <2>1 DEF Knows, Owning, Claiming
  <2>3. SuperDone(r, i) => SuperUsable(t, r[i].cls)
    BY <1>1, <2>1 DEF SuperDone
  <2> QED
    BY <2>2, <2>3
<1>4. \A i \in 1..n : (r[i].at \in Owning => s[i].at \in Owning) /\ (s[i].at \in Claiming => r[i].at \in Claiming)
  BY <1>1 DEF Owning, Claiming
<1>5. \A i, j \in 1..n : i # j /\ r[i].at \in Owning /\ r[j].at \in Owning => r[i].cls # r[j].cls
  BY <1>1, <1>4 DEF Calls
<1>6. \A c \in metaclasses[t] : c \in pending \/ Covers(r, c)
  BY <1>1, <1>4 DEF Calls, Covers
<1> QED
  BY <1>1, <1>2, <1>3, <1>5, <1>6 DEF Calls, r

WakeFact == \A t \in Threads, s \in Seq(Frames) : Calls(t, s) => Calls(t, Wake(s))
LEMMA WakeAlways == WakeFact
BY WakeCalls DEF WakeFact
LEMMA WakeNext == WakeFact'
BY WakeAlways, PTL

LEMMA WakeSame ==
  ASSUME NEW s \in Seq(Frames)
  PROVE  /\ \A f, c : Owes(f, c, Wake(s)) <=> Owes(f, c, s)
         /\ Begins(Wake(s)) = Begins(s)
         /\ \A u \in Threads : Fresh(u, Wake(s)) <=> Fresh(u, s)
         /\ Doomed(Wake(s)) <=> Doomed(s)
<1> DEFINE r == Wake(s)
           n == Len(s)
<1>1. /\ Len(r) = n /\ n \in Nat /\ (s = <<>> <=> r = <<>>) /\ (s # <<>> => n \in 1..n)
      /\ \A i \in 1..n : /\ r[i].cls = s[i].cls /\ r[i].todo = s[i].todo /\ r[i].funcs = s[i].funcs
                         /\ r[i].at = IF s[i].at = "blocked" THEN "wait" ELSE s[i].at
  BY WakeFacts
<1> HIDE DEF r
<1>2. \A f, c : Owes(f, c, r) <=> Owes(f, c, s)
  BY <1>1 DEF Owes
<1>3. Begins(r) = Begins(s)
  BY <1>1 DEF Begins
<1>4. \A u \in Threads : Fresh(u, r) <=> Fresh(u, s)
  BY <1>1 DEF Fresh
<1>5. Doomed(r) <=> Doomed(s)
  BY <1>1 DEF Doomed
<1> QED
  BY <1>2, <1>3, <1>4, <1>5 DEF r

\* Before a fork the thread that has a class has those that wait for it.
LEMMA SubclassWithSuper ==
  ASSUME IndInv, ~multithreadedForkChild, NEW t \in Threads, NEW d \in pending, Superclass[d] \in metaclasses[t]
  PROVE  d \in metaclasses[t]
<1>1. PICK u \in Threads : d \in metaclasses[u]
  BY DEF IndInv, ParentInv
<1>2. Superclass[d] \in metaclasses[u]
  <2>1. SuperUsable(u, d) /\ Superclass[d] \in initializing /\ initializing \cap initialized = {} /\ initializing \subseteq Classes
    BY <1>1 DEF IndInv, ClaimInv, FlagInv, TypeInv
  <2> QED
    BY <2>1, InitializeAssumption DEF SuperUsable
<1>3. u = t
  BY <1>2 DEF IndInv, ParentInv, Own
<1> QED
  BY <1>1, <1>3

\* The m oldest calls s of thread t are left when the newest one ends the
\* initialization of class c.
LeftCalls(t, s, c, m, q) ==
  /\ q = SubSeq(s, 1, m) /\ q \in Seq(Frames)
  /\ \A i \in 1..m : s[i].at = "client" => Knows(t, "client", s[i].cls) /\ s[i].cls # c /\ s[i].cls \in Classes
  /\ \A d \in metaclasses[t] : d = c \/ d \in pending \/ \E i \in 1..m : s[i].cls = d /\ s[i].at = "client"
  /\ m > 0 /\ s[m].at = "set" => Superclass[s[m].cls] = c
  /\ Begins(q) = {} /\ ~Doomed(q)
  /\ ~multithreadedForkChild => \A f \in Funcs, d \in Classes : ~Owes(f, d, q)
  /\ Fresh(t, s) => \A i \in 1..Len(q) : q[i].at # "client" /\ q[i].at # "finish"

\* A call at its end, and the calls that it leaves.
LEMMA FinishFacts ==
  ASSUME IndInv, NEW t \in Threads, stack[t] # <<>>, Top(t).at = "finish", NEW s, s = stack[t], NEW c, c = Top(t).cls
  PROVE  /\ s \in Seq(Frames) /\ s # <<>> /\ Calls(t, s) /\ c \in Classes /\ c \in metaclasses[t] /\ c \in Begun /\ c \notin pending
         /\ SuperUsable(t, c) /\ (~multithreadedForkChild => sent[c] = 1)
         /\ ~Doomed(s) /\ (~multithreadedForkChild => \A f \in Funcs, d \in Classes : ~Owes(f, d, s))
         /\ Fresh(t, s) => metaclasses[t] \subseteq {c} /\ classHasTrivialInitialize(c)
         /\ \E m \in 0..(Len(s) - 1) : LeftCalls(t, s, c, m, Leave(t))
<1> DEFINE n == Len(s)
<1>1. /\ s \in Seq(Frames) /\ s # <<>> /\ Calls(t, s) /\ n \in Nat /\ n >= 1 /\ n \in 1..n /\ Top(t) = s[n] /\ c \in Classes
      /\ Knows(t, "finish", c) /\ SuperUsable(t, c) /\ (~multithreadedForkChild => Top(t).funcs = {})
  BY TopIs
<1>2. c \in metaclasses[t] /\ c \in Begun /\ c \notin pending /\ (~multithreadedForkChild => sent[c] = 1)
  BY <1>1 DEF Knows, Owning, Claiming
<1>3. ~Doomed(s)
  BY <1>1 DEF Doomed
<1>4. ~multithreadedForkChild => \A f \in Funcs, d \in Classes : ~Owes(f, d, s)
  BY <1>1, OwesTop
<1>5. Fresh(t, s) => metaclasses[t] \subseteq {c} /\ classHasTrivialInitialize(c)
  BY <1>1 DEF Fresh
<1>6. PICK m \in 0..(n - 1) :
           /\ Leave(t) = SubSeq(s, 1, m)
           /\ m = n - 1 \/ m = 0 \/ s[m].at = "client"
           /\ \A i \in 1..(n - 1) : i > m => s[i].at # "client"
  BY LeaveIs
<1>7. PICK q : q = Leave(t)
  OBVIOUS
<1>8. m \in Nat /\ q \in Seq(Frames) /\ Len(q) = m /\ \A k \in 1..m : q[k] = s[k]
  <2>1. m \in 0..n
    BY <1>1
  <2> QED
    BY <1>1, <1>6, <1>7, <2>1, CutFacts
<1>9. \A i \in 1..(n - 1) : i \in 1..n /\ i < n /\ i # n /\ ShapeAt(s, i) /\ s[i].at \in {"set", "client"}
  <2>1. \A i \in 1..(n - 1) : i \in 1..n /\ i < n /\ i # n
    BY <1>1
  <2>2. \A i \in 1..(n - 1) : ShapeAt(s, i)
    BY <1>1, <2>1 DEF Calls, Shape
  <2> QED
    BY <2>1, <2>2 DEF ShapeAt
<1>10. \A i \in 1..m : i \in 1..(n - 1)
  BY <1>1, <1>8
<1>11. ASSUME NEW i \in 1..m, s[i].at = "client" PROVE Knows(t, "client", s[i].cls) /\ s[i].cls # c /\ s[i].cls \in Classes
  <2>1. i \in 1..n /\ i # n /\ ShapeAt(s, i)
    BY <1>9, <1>10
  <2>2. Knows(t, s[i].at, s[i].cls)
    BY <1>1, <2>1 DEF Calls
  <2>3. s[i].cls # c
    BY <1>1, <1>11, <2>1 DEF Calls, Owning
  <2>4. s[i].cls \in Classes
    <3>1. s[i] \in Frames
      BY <1>1, <2>1
    <3> QED
      BY <1>11, <2>1, <3>1 DEF ShapeAt, Frames
  <2> QED
    BY <1>11, <2>2, <2>3, <2>4
<1>12. ASSUME NEW d \in metaclasses[t], d # c, d \notin pending PROVE \E i \in 1..m : s[i].cls = d /\ s[i].at = "client"
  <2>1. PICK i \in 1..n : s[i].cls = d /\ s[i].at \in Claiming
    BY <1>1, <1>12 DEF Calls, Covers
  <2>2. i \in 1..(n - 1)
    BY <1>1, <1>12, <2>1
  <2>3. s[i].at = "client"
    BY <1>9, <2>1, <2>2 DEF Claiming, Owning
  <2>4. i \in 1..m
    BY <1>6, <1>8, <2>2, <2>3
  <2> QED
    BY <2>1, <2>3, <2>4
<1>13. m > 0 /\ s[m].at = "set" => Superclass[s[m].cls] = c
  <2> SUFFICES ASSUME m > 0, s[m].at = "set" PROVE Superclass[s[m].cls] = c
    OBVIOUS
  <2>1. m = n - 1 /\ m \in 1..(n - 1) /\ m + 1 = n
    BY <1>1, <1>6, <1>8
  <2>2. ShapeAt(s, m) /\ m < Len(s)
    BY <1>9, <2>1
  <2> QED
    BY <1>1, <2>1, <2>2 DEF ShapeAt
<1>14. \A i \in 1..Len(q) : q[i] = s[i] /\ q[i].at \in {"set", "client"} /\ (~multithreadedForkChild => q[i].funcs = {})
  BY <1>8, <1>9, <1>10 DEF ShapeAt
<1>15. Begins(q) = {} /\ ~Doomed(q) /\ (~multithreadedForkChild => \A f \in Funcs, d \in Classes : ~Owes(f, d, q))
  <2>1. q # <<>> => Len(q) \in 1..Len(q)
    BY <1>8
  <2> QED
    BY <1>14, <2>1 DEF Begins, Doomed, Owes
<1>16. Fresh(t, s) => \A i \in 1..Len(q) : q[i].at # "client" /\ q[i].at # "finish"
  <2>1. \A i \in 1..Len(q) : i \in 1..n
    BY <1>8, <1>9, <1>10
  <2> QED
    BY <1>14, <2>1 DEF Fresh
<1>17. LeftCalls(t, s, c, m, q)
  BY <1>6, <1>7, <1>8, <1>11, <1>12, <1>13, <1>15, <1>16 DEF LeftCalls
<1>18. \E k \in 0..(Len(s) - 1) : LeftCalls(t, s, c, k, Leave(t))
  BY <1>7, <1>17
<1> QED
  BY <1>1, <1>2, <1>3, <1>4, <1>5, <1>18

\* The classes that are released are on the list of the thread that does it.
LEMMA DoneClaimed ==
  ASSUME IndInv, NEW t \in Threads, stack[t] # <<>>, Top(t).at = "finish", NEW c, c = Top(t).cls
  PROVE  /\ Released(c) \subseteq metaclasses[t]
         /\ \A u \in Threads : u # t => metaclasses[u] \cap pending \cap Released(c) = {}
<1>1. /\ c \in Classes /\ c \in metaclasses[t] /\ c \notin pending /\ ~Doomed(stack[t])
      /\ Fresh(t, stack[t]) => metaclasses[t] \subseteq {c} /\ classHasTrivialInitialize(c)
  BY FinishFacts
<1>2. pending \subseteq Classes
  BY DEF IndInv, TypeInv
<1>3. CASE ~multithreadedForkChild
  <2>1. \A d \in pending : Superclass[d] \in metaclasses[t] => d \in metaclasses[t]
    BY <1>3, SubclassWithSuper
  <2>2. Released(c) \subseteq metaclasses[t]
    BY <1>1, <1>2, <2>1, ReleasedWithin
  <2>3. \A u \in Threads : u # t => metaclasses[u] \cap metaclasses[t] = {}
    BY <1>3 DEF IndInv, ParentInv, Own
  <2> QED
    BY <2>2, <2>3
<1>4. CASE multithreadedForkChild
  <2>1. PICK w \in Threads : Survives(w, stack[w]) /\ \A u \in Threads \ {w} : Fresh(u, stack[u])
    BY <1>4 DEF IndInv, ChildInv
  <2>2. CASE t = w
    <3>1. \A d \in pending : Superclass[d] \in metaclasses[t] => d \in metaclasses[t]
      BY <1>1, <2>1, <2>2 DEF Survives
    <3>2. Released(c) \subseteq metaclasses[t]
      BY <1>1, <1>2, <3>1, ReleasedWithin
    <3>3. ASSUME NEW u \in Threads, u # t, NEW d \in metaclasses[u] PROVE d \notin pending
      <4>1. Fresh(u, stack[u])
        BY <2>1, <2>2, <3>3
      <4>2. stack[u] # <<>> /\ d = stack[u][Len(stack[u])].cls /\ stack[u][Len(stack[u])].at \in {"fork", "finish"}
        BY <3>3, <4>1 DEF Fresh
      <4>3. Len(stack[u]) \in 1..Len(stack[u])
        BY <4>2, TopIs
      <4> QED
        BY <4>2, <4>3, OwnersBegun DEF Owning
    <3> QED
      BY <3>2, <3>3
  <2>3. CASE t # w
    <3>1. classHasTrivialInitialize(c)
      BY <1>1, <2>1, <2>3
    <3>2. \A d \in pending : Superclass[d] \in {c} => d \in {c}
      BY <1>1, <1>4, <3>1 DEF IndInv, ChildInv, PendingInv
    <3>3. Released(c) \subseteq {c}
      BY <1>1, <1>2, <3>2, ReleasedWithin
    <3> QED
      BY <1>1, <3>3
  <2> QED
    BY <2>2, <2>3
<1> QED
  BY <1>3, <1>4

LEMMA FinishInitializingKeeps ==
  ASSUME IndInv, halted = "no", NEW t \in Threads, stack[t] # <<>>, Top(t).at = "finish",
         Superclass[Top(t).cls] = NoClass \/ Superclass[Top(t).cls] \in initialized,
         FinishInitializing(t), UNCHANGED <<process, ghosts>>
  PROVE  IndInv'
<1> PICK s : s = stack[t]
  OBVIOUS
<1> PICK c : c = Top(t).cls
  OBVIOUS
<1> PICK D : D = Released(c)
  OBVIOUS
<1>a. PICK q : q = Leave(t)
  OBVIOUS
<1>1. /\ s \in Seq(Frames) /\ s # <<>> /\ Calls(t, s) /\ c \in Classes /\ c \in metaclasses[t] /\ c \in Begun /\ c \notin pending
      /\ SuperUsable(t, c) /\ (~multithreadedForkChild => sent[c] = 1)
      /\ ~Doomed(s) /\ (~multithreadedForkChild => \A f \in Funcs, d \in Classes : ~Owes(f, d, s))
      /\ Fresh(t, s) => metaclasses[t] \subseteq {c} /\ classHasTrivialInitialize(c)
  BY FinishFacts
<1>b. PICK m \in 0..(Len(s) - 1) : LeftCalls(t, s, c, m, q)
  BY <1>a, FinishFacts
<1>2. /\ q = SubSeq(s, 1, m) /\ q \in Seq(Frames)
      /\ \A i \in 1..m : s[i].at = "client" => Knows(t, "client", s[i].cls) /\ s[i].cls # c /\ s[i].cls \in Classes
      /\ \A d \in metaclasses[t] : d = c \/ d \in pending \/ \E i \in 1..m : s[i].cls = d /\ s[i].at = "client"
      /\ m > 0 /\ s[m].at = "set" => Superclass[s[m].cls] = c
      /\ Begins(q) = {} /\ ~Doomed(q)
      /\ ~multithreadedForkChild => \A f \in Funcs, d \in Classes : ~Owes(f, d, q)
      /\ Fresh(t, s) => \A i \in 1..Len(q) : q[i].at # "client" /\ q[i].at # "finish"
  BY <1>b DEF LeftCalls
<1>3. D \subseteq metaclasses[t] /\ \A u \in Threads : u # t => metaclasses[u] \cap pending \cap D = {}
  BY DoneClaimed
<1>4. /\ UNCHANGED <<willInitializeFuncs, multithreadedForkChild, sent, told>>
      /\ initialized' = initialized \cup D /\ initializing' = initializing \ D /\ pending' = pending \ D
      /\ metaclasses' = [metaclasses EXCEPT ![t] = @ \ D] /\ halted' = "no"
      /\ stack' = [u \in Threads |-> Wake(IF u = t THEN Leave(t) ELSE stack[u])]
  <2>1. D = Released(Top(t).cls)
    OBVIOUS
  <2>2. SetInitialized(D) /\ Disclaim(t, D) /\ pending' = pending \ D
        /\ stack' = [u \in Threads |-> Wake(IF u = t THEN Leave(t) ELSE stack[u])]
    BY <2>1 DEF FinishInitializing
  <2> QED
    BY <1>3, <2>2 DEF SetInitialized, Disclaim, process, ghosts
<1>5. /\ stack'[t] = Wake(q) /\ (\A u \in Threads : u # t => stack'[u] = Wake(stack[u])) /\ DOMAIN stack' = Threads
      /\ stack' = [u \in Threads |-> stack'[u]]
  BY <1>a, <1>4
<1>6. \A u \in Threads : stack[u] \in Seq(Frames)
  BY DEF IndInv, TypeInv
<1>7. stack' \in [Threads -> Seq(Frames)]
  <2>1. \A u \in Threads : stack'[u] \in Seq(Frames)
    <3>1. q \in Seq(Frames)
      BY <1>2
    <3>2. Wake(q) \in Seq(Frames)
      BY <3>1, WakeFacts
    <3>3. ASSUME NEW u \in Threads PROVE Wake(stack[u]) \in Seq(Frames)
      BY <1>6, WakeFacts
    <3> QED
      BY <1>5, <3>2, <3>3
  <2> QED
    BY <1>5, <2>1
<1>8. /\ metaclasses'[t] = metaclasses[t] \ D /\ (\A u \in Threads : u # t => metaclasses'[u] = metaclasses[u])
      /\ metaclasses' \in [Threads -> SUBSET Classes] /\ D \subseteq Classes
  BY <1>3, <1>4 DEF IndInv, TypeInv
<1>9. TypeInv'
  BY <1>4, <1>7, <1>8 DEF IndInv, TypeInv
<1>10. /\ c \in D /\ (\A d \in D : d = c \/ (d \in pending /\ Superclass[d] \in D))
       /\ \A d \in pending : Superclass[d] \in D => d \in D
  <2>1. pending \subseteq Classes
    BY DEF IndInv, TypeInv
  <2> QED
    BY <1>1, <2>1, ReleasedUp, ReleasedDown DEF Released
<1>11. /\ D \subseteq Begun /\ Begun' = Begun /\ initialized \subseteq initialized' /\ pending' \subseteq pending
       /\ \A d \in pending : d \in initializing /\ Superclass[d] \in initializing
  <2>1. \A d \in pending : d \in initializing /\ Superclass[d] \in initializing
    BY DEF IndInv, FlagInv
  <2>2. D \subseteq Begun
    BY <1>1, <1>10, <2>1 DEF Begun
  <2> QED
    BY <1>4, <2>1, <2>2 DEF Begun
<1>12. \A u \in Threads, d \in Classes : SuperUsable(u, d) => SuperUsable(u, d)'
  BY <1>4, <1>8 DEF SuperUsable
<1>13. Calls(t, q)'
  <2>1. \A i \in 1..m : s[i].at = "client" => Knows(t, "client", s[i].cls)'
    <3> SUFFICES ASSUME NEW i \in 1..m, s[i].at = "client" PROVE Knows(t, "client", s[i].cls)'
      OBVIOUS
    <3>1. Knows(t, "client", s[i].cls) /\ s[i].cls # c
      BY <1>2
    <3>2. s[i].cls \in Begun /\ s[i].cls \notin pending /\ s[i].cls \in metaclasses[t] /\ (~multithreadedForkChild => sent[s[i].cls] = 1)
      BY <3>1 DEF Knows, Owning, Claiming
    <3>3. s[i].cls \notin D
      BY <1>10, <3>1, <3>2
    <3> QED
      BY <1>4, <1>8, <1>11, <3>2, <3>3 DEF Knows, Owning, Claiming
  <2>2. \A d \in metaclasses'[t] : d \in pending' \/ \E i \in 1..m : s[i].cls = d /\ s[i].at = "client"
    <3> SUFFICES ASSUME NEW d \in metaclasses[t], d \notin D, d \notin pending PROVE \E i \in 1..m : s[i].cls = d /\ s[i].at = "client"
      BY <1>4, <1>8
    <3> QED
      BY <1>2, <1>10
  <2>3. m > 0 /\ s[m].at = "set" => SuperUsable(t, s[m].cls)'
    BY <1>2, <1>4, <1>10 DEF SuperUsable
  <2>4. Leaves(t, s, m)
    BY <1>12, <2>1, <2>2, <2>3 DEF Leaves
  <2> QED
    BY <1>1, <1>2, <1>4, <2>4, LeavesCalls
<1>14. StackInv'
  <2>0. ASSUME NEW u \in Threads, NEW r \in Seq(Frames), Calls(u, r)' PROVE Calls(u, Wake(r))'
    <3>1. WakeFact'
      BY WakeNext
    <3> QED
      BY <2>0, <3>1 DEF WakeFact
  <2> SUFFICES ASSUME NEW u \in Threads PROVE Calls(u, stack[u])'
    BY DEF StackInv
  <2>1. CASE u = t
    <3>1. Calls(t, Wake(q))'
      BY <1>2, <1>13, <2>0
    <3> QED
      BY <1>5, <2>1, <3>1
  <2>2. CASE u # t
    <3>1. PICK r : r = stack[u]
      OBVIOUS
    <3>2. r \in Seq(Frames) /\ Calls(u, r)
      BY <1>6, <3>1 DEF IndInv, StackInv
    <3>3. \A i \in 1..Len(r) : r[i].at \in Owning => r[i].cls \notin pending'
      BY <1>11, <3>2 DEF Calls, Knows
    <3>4. metaclasses'[u] = metaclasses[u] /\ \A d \in metaclasses[u] : d \in pending => d \in pending' \/ Covers(r, d)
      BY <1>3, <1>4, <1>8, <2>2
    <3>5. Calls(u, r)'
      BY <1>4, <1>11, <3>2, <3>3, <3>4, CallsKept
    <3>6. Calls(u, Wake(r))'
      BY <2>0, <3>2, <3>5
    <3> QED
      BY <1>5, <2>2, <3>1, <3>6
  <2> QED
    BY <2>1, <2>2
<1>15. ClaimInv'
  <2> SUFFICES ASSUME NEW u \in Threads, NEW d \in metaclasses'[u] PROVE d \in Begun' /\ SuperUsable(u, d)'
    BY DEF ClaimInv
  <2>1. d \in Classes /\ d \in Begun /\ SuperUsable(u, d)
    BY <1>8 DEF IndInv, TypeInv, ClaimInv
  <2> QED
    BY <1>11, <1>12, <2>1
<1>16. FlagInv'
  <2>0. /\ initializing \cap initialized = {}
        /\ \A d \in Begun : Superclass[d] # NoClass => Superclass[d] \in Begun /\ (d \in initialized => Superclass[d] \in initialized)
    BY DEF IndInv, FlagInv
  <2>1. initializing' \cap initialized' = {}
    BY <1>4, <2>0
  <2>2. ASSUME NEW d \in Begun', Superclass[d] # NoClass PROVE Superclass[d] \in Begun' /\ (d \in initialized' => Superclass[d] \in initialized')
    <3>1. Superclass[d] \in Begun /\ (d \in initialized => Superclass[d] \in initialized)
      BY <1>11, <2>0, <2>2
    <3>2. d \in D => Superclass[d] \in initialized'
      BY <1>4, <1>10, <2>2
    <3> QED
      BY <1>4, <1>11, <3>1, <3>2
  <2>3. \A d \in pending' : d \in initializing' /\ Superclass[d] \in initializing'
    BY <1>4, <1>10, <1>11
  <2> QED
    BY <2>1, <2>2, <2>3 DEF FlagInv
<1>17. PendingInv' /\ SentInv'
  BY <1>4, <1>10 DEF IndInv, PendingInv, SentInv
<1>18. ParentInv'
  <2> SUFFICES ASSUME ~multithreadedForkChild
               PROVE  /\ \A u, v \in Threads : u # v => Own(u)' \cap Own(v)' = {}
                      /\ \A u \in Threads : Own(u)' \cap initialized' = {}
                      /\ \A d \in pending' : \E u \in Threads : d \in metaclasses'[u]
                      /\ \A d \in Classes : (d \notin Begun' => sent'[d] = 0) /\ (d \in initialized' \cup pending' => sent'[d] = 1)
                      /\ \A f \in Funcs, d \in Classes : Counted(f, d)'
    BY <1>4 DEF ParentInv
  <2>0. /\ \A u, v \in Threads : u # v => Own(u) \cap Own(v) = {}
        /\ \A u \in Threads : Own(u) \cap initialized = {}
        /\ \A d \in pending : \E u \in Threads : d \in metaclasses[u]
        /\ \A d \in Classes : (d \notin Begun => sent[d] = 0) /\ (d \in initialized \cup pending => sent[d] = 1)
        /\ \A f \in Funcs, d \in Classes : Counted(f, d)
    BY DEF IndInv, ParentInv
  <2>1. Own(t)' \subseteq Own(t) \ D /\ \A u \in Threads : u # t => Own(u)' = Own(u)
    <3>1. Begins(stack[t])' = {}
      <4>1. Begins(Wake(q)) = {}
        BY <1>2, WakeSame
      <4> QED
        BY <1>5, <4>1 DEF Begins
    <3>2. \A u \in Threads : u # t => Begins(stack[u])' = Begins(stack[u])
      <4>1. \A u \in Threads : Begins(Wake(stack[u])) = Begins(stack[u])
        BY <1>6, WakeSame
      <4> QED
        BY <1>5, <4>1 DEF Begins
    <3> QED
      BY <1>8, <3>1, <3>2 DEF Own
  <2>2. ASSUME NEW f \in Funcs, NEW d \in Classes PROVE Counted(f, d)'
    <3>1. ~Owes(f, d, stack[t]) /\ ~Owes(f, d, stack'[t])
      <4>1. ~Owes(f, d, Wake(q))
        BY <1>2, WakeSame
      <4> QED
        BY <1>1, <1>5, <4>1
    <3>2. \A u \in Threads : Owes(f, d, stack'[u]) <=> Owes(f, d, stack[u])
      <4>1. \A u \in Threads : Owes(f, d, Wake(stack[u])) <=> Owes(f, d, stack[u])
        BY <1>6, WakeSame
      <4> QED
        BY <1>5, <3>1, <4>1
    <3>3. Counted(f, d) /\ TypeInv
      BY <2>0 DEF IndInv
    <3> QED
      BY <1>4, <1>9, <1>11, <3>2, <3>3, CountedKept
  <2>3. \A u \in Threads : Own(u)' \cap initialized' = {}
    <3>1. D \subseteq Own(t)
      BY <1>3 DEF Own
    <3> QED
      BY <1>4, <2>0, <2>1, <3>1
  <2>4. \A d \in pending' : \E u \in Threads : d \in metaclasses'[u]
    BY <1>4, <1>8, <2>0
  <2>5. \A d \in Classes : (d \notin Begun' => sent'[d] = 0) /\ (d \in initialized' \cup pending' => sent'[d] = 1)
    BY <1>1, <1>4, <1>10, <1>11, <2>0
  <2>6. \A u, v \in Threads : u # v => Own(u)' \cap Own(v)' = {}
    BY <2>0, <2>1
  <2> QED
    BY <2>2, <2>3, <2>4, <2>5, <2>6
<1>19. ChildInv'
  <2> SUFFICES ASSUME multithreadedForkChild
               PROVE  Forks /\ \E w \in Threads : Survives(w, stack[w])' /\ \A u \in Threads \ {w} : Fresh(u, stack[u])'
    BY <1>4 DEF ChildInv
  <2>1. PICK w \in Threads : Survives(w, stack[w]) /\ \A u \in Threads \ {w} : Fresh(u, stack[u])
    BY DEF IndInv, ChildInv
  <2>2. Survives(w, stack[w])'
    <3>1. CASE w = t
      <4>1. \A d \in pending : Superclass[d] \in metaclasses[t] => d \in metaclasses[t]
        BY <1>1, <2>1, <3>1 DEF Survives
      <4> QED
        BY <1>4, <1>8, <3>1, <4>1 DEF Survives
    <3>2. CASE w # t
      <4>1. Doomed(Wake(stack[w])) <=> Doomed(stack[w])
        BY <1>6, WakeSame
      <4>2. Doomed(stack[w])' <=> Doomed(stack[w])
        BY <1>5, <3>2, <4>1 DEF Doomed
      <4> QED
        BY <1>8, <1>11, <2>1, <3>2, <4>2 DEF Survives
    <3> QED
      BY <3>1, <3>2
  <2>3. ASSUME NEW u \in Threads \ {w} PROVE Fresh(u, stack[u])'
    <3>0. Fresh(u, stack[u])
      BY <2>1
    <3>1. CASE u = t
      <4>1. metaclasses'[t] = {}
        BY <1>1, <1>8, <1>10, <3>0, <3>1
      <4>2. \A i \in 1..Len(q) : q[i].at # "client" /\ q[i].at # "finish"
        BY <1>2, <3>0, <3>1
      <4>3. Len(Wake(q)) = Len(q) /\ \A i \in 1..Len(q) : Wake(q)[i].at # "client" /\ Wake(q)[i].at # "finish"
        <5>1. q \in Seq(Frames)
          BY <1>2
        <5>2. Len(Wake(q)) = Len(q) /\ \A i \in 1..Len(q) : Wake(q)[i].at = IF q[i].at = "blocked" THEN "wait" ELSE q[i].at
          BY <5>1, WakeFacts
        <5> QED
          BY <4>2, <5>2
      <4> QED
        BY <1>5, <3>1, <4>1, <4>3 DEF Fresh
    <3>2. CASE u # t
      <4>1. Fresh(u, Wake(stack[u]))
        BY <1>6, <3>0, WakeSame
      <4> QED
        BY <1>5, <1>8, <3>2, <4>1 DEF Fresh
    <3> QED
      BY <3>1, <3>2
  <2> QED
    BY <2>2, <2>3 DEF IndInv, ChildInv
<1> QED
  BY <1>9, <1>14, <1>15, <1>16, <1>17, <1>18, <1>19 DEF IndInv

LEMMA FinishInitializingAfterKeeps ==
  ASSUME IndInv, halted = "no", NEW t \in Threads, stack[t] # <<>>, Top(t).at = "finish",
         Superclass[Top(t).cls] # NoClass, Superclass[Top(t).cls] \notin initialized,
         FinishInitializingAfter(t), UNCHANGED <<process, ghosts>>
  PROVE  IndInv'
<1> PICK s : s = stack[t]
  OBVIOUS
<1> PICK c : c = Top(t).cls
  OBVIOUS
<1>a. PICK q : q = Leave(t)
  OBVIOUS
<1>1. /\ s \in Seq(Frames) /\ s # <<>> /\ Calls(t, s) /\ c \in Classes /\ c \in metaclasses[t] /\ c \in Begun /\ c \notin pending
      /\ SuperUsable(t, c) /\ (~multithreadedForkChild => sent[c] = 1)
      /\ ~Doomed(s) /\ (~multithreadedForkChild => \A f \in Funcs, d \in Classes : ~Owes(f, d, s))
      /\ Fresh(t, s) => metaclasses[t] \subseteq {c} /\ classHasTrivialInitialize(c)
  BY FinishFacts
<1>b. PICK m \in 0..(Len(s) - 1) : LeftCalls(t, s, c, m, q)
  BY <1>a, FinishFacts
<1>2. /\ q = SubSeq(s, 1, m) /\ q \in Seq(Frames)
      /\ \A i \in 1..m : s[i].at = "client" => Knows(t, "client", s[i].cls) /\ s[i].cls # c /\ s[i].cls \in Classes
      /\ \A d \in metaclasses[t] : d = c \/ d \in pending \/ \E i \in 1..m : s[i].cls = d /\ s[i].at = "client"
      /\ m > 0 /\ s[m].at = "set" => Superclass[s[m].cls] = c
      /\ Begins(q) = {} /\ ~Doomed(q)
      /\ ~multithreadedForkChild => \A f \in Funcs, d \in Classes : ~Owes(f, d, q)
      /\ Fresh(t, s) => \A i \in 1..Len(q) : q[i].at # "client" /\ q[i].at # "finish"
  BY <1>b DEF LeftCalls
<1>3. /\ UNCHANGED <<willInitializeFuncs, multithreadedForkChild, sent, told, initializing, initialized, metaclasses, halted>>
      /\ pending' = pending \cup {c} /\ stack' = [stack EXCEPT ![t] = q] /\ Begun' = Begun
  BY <1>a DEF FinishInitializingAfter, process, ghosts, Begun
<1>4. stack'[t] = q /\ (\A u \in Threads : u # t => stack'[u] = stack[u]) /\ stack' \in [Threads -> Seq(Frames)]
  BY <1>2, <1>3 DEF IndInv, TypeInv
<1>5. TypeInv'
  BY <1>1, <1>3, <1>4 DEF IndInv, TypeInv
<1>6. /\ Superclass[c] \in metaclasses[t] /\ c \in initializing /\ Superclass[c] \in initializing /\ Superclass[c] # c
  <2>1. Superclass[c] \in metaclasses[t]
    BY <1>1 DEF SuperUsable
  <2>2. Superclass[c] \in initializing
    BY <2>1, OwnersBegun DEF Begun
  <2>3. c \in initializing
    BY <1>1 DEF IndInv, FlagInv, Begun
  <2>4. Superclass[c] # c
    <3>1. {c} \in (SUBSET Classes) \ {{}}
      BY <1>1
    <3> QED
      BY <3>1, InitializeAssumption
  <2> QED
    BY <2>1, <2>2, <2>3, <2>4
<1>7. ~Fresh(t, s)
  BY <1>1, <1>6
<1>8. \A u \in Threads, d \in Classes : SuperUsable(u, d) => SuperUsable(u, d)'
  BY <1>3 DEF SuperUsable
<1>9. Calls(t, q)'
  <2>1. \A i \in 1..m : s[i].at = "client" => Knows(t, "client", s[i].cls)'
    <3> SUFFICES ASSUME NEW i \in 1..m, s[i].at = "client" PROVE Knows(t, "client", s[i].cls)'
      OBVIOUS
    <3>1. Knows(t, "client", s[i].cls) /\ s[i].cls # c
      BY <1>2
    <3> QED
      BY <1>3, <3>1 DEF Knows, Owning, Claiming
  <2>2. \A d \in metaclasses'[t] : d \in pending' \/ \E i \in 1..m : s[i].cls = d /\ s[i].at = "client"
    BY <1>2, <1>3
  <2>3. m > 0 /\ s[m].at = "set" => SuperUsable(t, s[m].cls)'
    BY <1>1, <1>2, <1>3 DEF SuperUsable
  <2>4. Leaves(t, s, m)
    BY <1>8, <2>1, <2>2, <2>3 DEF Leaves
  <2> QED
    BY <1>1, <1>2, <1>3, <2>4, LeavesCalls
<1>10. StackInv'
  <2>1. ASSUME NEW u \in Threads, u # t, NEW i \in 1..Len(stack[u]), stack[u][i].at \in Owning PROVE stack[u][i].cls \notin pending'
    <3>0. PICK r : r = stack[u]
      OBVIOUS
    <3>1. r \in Seq(Frames) /\ Calls(u, r) /\ r[i] \in Frames /\ i \in 1..Len(r) /\ r[i].at \in Owning
      BY <2>1, <3>0 DEF IndInv, TypeInv, StackInv
    <3>2. ShapeAt(r, i) /\ Knows(u, r[i].at, r[i].cls) /\ r[i].cls \notin pending
          /\ (SuperDone(r, i) => SuperUsable(u, r[i].cls))
      <4>1. ShapeAt(r, i) /\ Knows(u, r[i].at, r[i].cls) /\ (SuperDone(r, i) => SuperUsable(u, r[i].cls))
        BY <3>1 DEF Calls, Shape
      <4> QED
        BY <3>1, <4>1 DEF Knows
    <3>3. r[i].cls \in Classes
      BY <3>1, <3>2 DEF ShapeAt, Frames, Owning
    <3>4. SUFFICES ASSUME r[i].cls = c PROVE FALSE
      BY <1>3, <3>0, <3>2
    <3>5. CASE ~multithreadedForkChild
      <4>1. r[i].cls \in Own(u)
        <5>1. CASE r[i].at = "begin"
          BY <3>0, <3>1, <3>3, <5>1 DEF Own, Begins
        <5>2. CASE r[i].at # "begin"
          BY <3>1, <3>2, <5>2 DEF Own, Knows, Claiming
        <5> QED
          BY <5>1, <5>2
      <4> QED
        BY <1>1, <2>1, <3>4, <3>5, <4>1 DEF Own, IndInv, ParentInv
    <3>6. CASE multithreadedForkChild
      <4>1. PICK w \in Threads : Survives(w, stack[w]) /\ \A v \in Threads \ {w} : Fresh(v, stack[v])
        BY <3>6 DEF IndInv, ChildInv
      <4>2. Fresh(u, r)
        BY <1>7, <2>1, <3>0, <4>1
      <4>3. SuperDone(r, i)
        BY <3>1 DEF SuperDone, Owning
      <4>4. Superclass[c] \in metaclasses[u]
        BY <3>2, <3>4, <4>3 DEF SuperUsable
      <4>5. Superclass[c] = r[Len(r)].cls
        BY <4>2, <4>4 DEF Fresh
      <4>6. i < Len(r) => r[i].at \in {"set", "client"}
        BY <3>2 DEF ShapeAt
      <4>7. r[i].at # "set" /\ r[i].at # "client"
        BY <3>1, <4>2 DEF Fresh, Owning
      <4>8. i = Len(r)
        <5>1. Len(r) \in Nat
          BY <3>1
        <5> QED
          BY <3>1, <4>6, <4>7, <5>1
      <4> QED
        BY <1>6, <3>4, <4>5, <4>8
    <3> QED
      BY <3>5, <3>6
  <2>2. \A u \in Threads : u # t =>
           /\ metaclasses'[u] = metaclasses[u]
           /\ metaclasses[u] \cap pending \subseteq pending'
           /\ \A i \in 1..Len(stack[u]) : stack[u][i].at \in Owning =>
                /\ stack[u][i].cls \notin pending'
                /\ ~multithreadedForkChild => sent'[stack[u][i].cls] = sent[stack[u][i].cls]
    BY <1>3, <2>1
  <2>3. initialized \subseteq initialized' /\ Begun \subseteq Begun' /\ multithreadedForkChild' = multithreadedForkChild /\ q \in Seq(Frames)
    BY <1>2, <1>3
  <2> QED
    BY <1>3, <1>9, <2>2, <2>3, OthersCalls
<1>11. ClaimInv' /\ SentInv'
  BY <1>3 DEF IndInv, ClaimInv, SuperUsable, SentInv
<1>12. FlagInv'
  BY <1>3, <1>6 DEF IndInv, FlagInv
<1>13. PendingInv'
  <2> SUFFICES ASSUME Forks, classHasTrivialInitialize(Superclass[c]) PROVE Superclass[c] \in pending
    BY <1>3 DEF IndInv, PendingInv
  <2> SUFFICES ASSUME NEW i \in 1..m, s[i].cls = Superclass[c], s[i].at = "client" PROVE FALSE
    BY <1>2, <1>6
  <2>1. i \in 1..Len(s) /\ i < Len(s)
    BY <1>1
  <2>2. Uses[Superclass[c]] # {}
    BY <1>1, <2>1 DEF Calls, Shape, ShapeAt
  <2>3. Superclass[c] \in Classes
    BY <1>1, InitializeAssumption
  <2> QED
    BY <2>2, <2>3, InitializeAssumption
<1>14. ParentInv'
  <2> SUFFICES ASSUME ~multithreadedForkChild
               PROVE  /\ \A u, v \in Threads : u # v => Own(u)' \cap Own(v)' = {}
                      /\ \A u \in Threads : Own(u)' \cap initialized' = {}
                      /\ \A d \in pending' : \E u \in Threads : d \in metaclasses'[u]
                      /\ \A d \in Classes : (d \notin Begun' => sent'[d] = 0) /\ (d \in initialized' \cup pending' => sent'[d] = 1)
                      /\ \A f \in Funcs, d \in Classes : Counted(f, d)'
    BY <1>3 DEF ParentInv
  <2>0. /\ \A u, v \in Threads : u # v => Own(u) \cap Own(v) = {}
        /\ \A u \in Threads : Own(u) \cap initialized = {}
        /\ \A d \in pending : \E u \in Threads : d \in metaclasses[u]
        /\ \A d \in Classes : (d \notin Begun => sent[d] = 0) /\ (d \in initialized \cup pending => sent[d] = 1)
        /\ \A f \in Funcs, d \in Classes : Counted(f, d)
    BY DEF IndInv, ParentInv
  <2>1. \A u \in Threads : Own(u)' \subseteq Own(u)
    <3>1. Begins(stack[t])' = {}
      BY <1>2, <1>4 DEF Begins
    <3>2. \A u \in Threads : u # t => Begins(stack[u])' = Begins(stack[u])
      BY <1>4 DEF Begins
    <3> QED
      BY <1>3, <3>1, <3>2 DEF Own
  <2>2. ASSUME NEW f \in Funcs, NEW d \in Classes PROVE Counted(f, d)'
    <3>1. \A u \in Threads : Owes(f, d, stack'[u]) <=> Owes(f, d, stack[u])
      <4>1. ~Owes(f, d, q) /\ ~Owes(f, d, s)
        BY <1>1, <1>2
      <4> QED
        BY <1>4, <4>1
    <3>2. Counted(f, d) /\ TypeInv
      BY <2>0 DEF IndInv
    <3> QED
      BY <1>3, <1>5, <3>1, <3>2, CountedKept
  <2>3. \A d \in pending' : \E u \in Threads : d \in metaclasses'[u]
    BY <1>1, <1>3, <2>0
  <2>4. \A d \in Classes : (d \notin Begun' => sent'[d] = 0) /\ (d \in initialized' \cup pending' => sent'[d] = 1)
    BY <1>1, <1>3, <2>0
  <2> QED
    BY <1>3, <2>0, <2>1, <2>2, <2>3, <2>4
<1>15. ChildInv'
  <2> SUFFICES ASSUME multithreadedForkChild
               PROVE  Forks /\ Survives(t, stack[t])' /\ \A u \in Threads \ {t} : Fresh(u, stack[u])'
    BY <1>3 DEF ChildInv
  <2>1. Forks /\ Survives(t, stack[t]) /\ \A u \in Threads \ {t} : Fresh(u, stack[u])
    BY <1>7 DEF IndInv, ChildInv
  <2>2. Survives(t, stack[t])'
    <3>1. \A d \in pending : Superclass[d] \in metaclasses[t] => d \in metaclasses[t]
      BY <1>1, <2>1 DEF Survives
    <3> QED
      BY <1>1, <1>3, <3>1 DEF Survives
  <2>3. ASSUME NEW u \in Threads \ {t} PROVE Fresh(u, stack[u])'
    BY <1>3, <1>4, <2>1 DEF Fresh
  <2> QED
    BY <2>1, <2>2, <2>3
<1> QED
  BY <1>5, <1>10, <1>11, <1>12, <1>13, <1>14, <1>15 DEF IndInv

LEMMA LockAndFinishInitializingKeeps ==
  ASSUME IndInv, halted = "no", NEW t \in Threads, LockAndFinishInitializing(t)
  PROVE  IndInv'
<1>1. stack[t] # <<>> /\ Top(t).at = "finish" /\ UNCHANGED <<process, ghosts>>
  BY DEF LockAndFinishInitializing, At
<1>2. CASE Superclass[Top(t).cls] = NoClass \/ Superclass[Top(t).cls] \in initialized
  <2>1. FinishInitializing(t)
    BY <1>2 DEF LockAndFinishInitializing
  <2> QED
    BY <1>1, <1>2, <2>1, FinishInitializingKeeps
<1>3. CASE Superclass[Top(t).cls] # NoClass /\ Superclass[Top(t).cls] \notin initialized
  <2>1. FinishInitializingAfter(t)
    BY <1>3 DEF LockAndFinishInitializing
  <2> QED
    BY <1>1, <1>3, <2>1, FinishInitializingAfterKeeps
<1> QED
  BY <1>2, <1>3

LEMMA ForkKeeps ==
  ASSUME IndInv, halted = "no", NEW t \in Threads, Fork(t)
  PROVE  IndInv'
<1>1. /\ Forks /\ ~multithreadedForkChild /\ ClientRuns(t) /\ multithreadedForkChild' = TRUE
      /\ stack' = [u \in Threads |-> IF u = t THEN stack[t] ELSE <<>>]
      /\ metaclasses' = [u \in Threads |-> IF u = t THEN metaclasses[t] ELSE {}]
      /\ UNCHANGED <<initializing, initialized, pending, willInitializeFuncs, halted, sent, told>> /\ Begun' = Begun
  BY DEF Fork, flags, ghosts, Begun
<1>2. /\ stack'[t] = stack[t] /\ metaclasses'[t] = metaclasses[t]
      /\ \A u \in Threads : u # t => stack'[u] = <<>> /\ metaclasses'[u] = {}
  BY <1>1
<1>3. TypeInv'
  <2>1. <<>> \in Seq(Frames) /\ stack[t] \in Seq(Frames) /\ metaclasses[t] \in SUBSET Classes
    BY DEF IndInv, TypeInv
  <2>2. stack' \in [Threads -> Seq(Frames)] /\ metaclasses' \in [Threads -> SUBSET Classes]
    BY <1>1, <2>1
  <2> QED
    BY <1>1, <2>2 DEF IndInv, TypeInv
<1>4. PICK s : s = stack[t]
  OBVIOUS
<1>5. s \in Seq(Frames) /\ Calls(t, s)
  BY <1>4 DEF IndInv, TypeInv, StackInv
<1>6. \A i \in 1..Len(s) : s[i].at \in {"set", "client"}
  <2> SUFFICES ASSUME NEW i \in 1..Len(s) PROVE s[i].at \in {"set", "client"}
    OBVIOUS
  <2>1. s # <<>> /\ Len(s) \in Nat
    BY <1>5
  <2>2. Top(t) = s[Len(s)] /\ Top(t).at = "client"
    BY <1>1, <1>4, <2>1, TopIs DEF ClientRuns, At
  <2>3. ShapeAt(s, i)
    BY <1>5 DEF Calls, Shape
  <2>4. i = Len(s) \/ i < Len(s)
    BY <2>1
  <2> QED
    BY <2>2, <2>3, <2>4 DEF ShapeAt
<1>7. Calls(t, s)'
  <2>1. Shape(s)'
    BY <1>1, <1>5 DEF Calls, Shape, ShapeAt
  <2>2. ASSUME NEW i \in 1..Len(s) PROVE Knows(t, s[i].at, s[i].cls)' /\ (SuperDone(s, i)' => SuperUsable(t, s[i].cls)')
    <3>1. Knows(t, s[i].at, s[i].cls) /\ (SuperDone(s, i) => SuperUsable(t, s[i].cls)) /\ s[i].at \in {"set", "client"}
      BY <1>5, <1>6 DEF Calls
    <3>2. Knows(t, s[i].at, s[i].cls)'
      BY <1>1, <1>2, <3>1 DEF Knows, Owning, Claiming
    <3>3. SuperDone(s, i)' => SuperUsable(t, s[i].cls)'
      BY <1>1, <1>2, <3>1 DEF SuperDone, SuperUsable
    <3> QED
      BY <3>2, <3>3
  <2>3. \A c \in metaclasses'[t] : c \in pending' \/ Covers(s, c)'
    BY <1>1, <1>2, <1>5 DEF Calls, Covers
  <2> QED
    BY <1>5, <2>1, <2>2, <2>3 DEF Calls
<1>8. StackInv'
  <2> SUFFICES ASSUME NEW u \in Threads PROVE Calls(u, stack[u])'
    BY DEF StackInv
  <2>1. CASE u = t
    BY <1>2, <1>4, <1>7, <2>1
  <2>2. CASE u # t
    <3>1. stack'[u] = <<>> /\ metaclasses'[u] = {} /\ Len(<<>>) = 0
      BY <1>2, <2>2
    <3> QED
      BY <3>1 DEF Calls, Shape
  <2> QED
    BY <2>1, <2>2
<1>9. ClaimInv'
  <2> SUFFICES ASSUME NEW u \in Threads, NEW c \in metaclasses'[u] PROVE c \in Begun' /\ SuperUsable(u, c)'
    BY DEF ClaimInv
  <2>1. u = t /\ c \in metaclasses[t]
    BY <1>2
  <2> QED
    BY <1>1, <1>2, <2>1 DEF IndInv, ClaimInv, SuperUsable
<1>10. FlagInv' /\ PendingInv' /\ SentInv' /\ ParentInv'
  BY <1>1 DEF IndInv, FlagInv, PendingInv, SentInv, ParentInv
<1>11. ChildInv'
  <2>1. Survives(t, stack[t])'
    <3>1. \A c \in pending : Superclass[c] \in metaclasses[t] => c \in metaclasses[t]
      BY <1>1, SubclassWithSuper
    <3> QED
      BY <1>1, <1>2, <3>1 DEF Survives
  <2>2. ASSUME NEW u \in Threads \ {t} PROVE Fresh(u, stack[u])'
    <3>1. stack'[u] = <<>> /\ metaclasses'[u] = {} /\ Len(<<>>) = 0
      BY <1>2
    <3> QED
      BY <3>1 DEF Fresh
  <2> QED
    BY <1>1, <2>1, <2>2 DEF ChildInv
<1> QED
  BY <1>3, <1>8, <1>9, <1>10, <1>11 DEF IndInv

----------------------------------------------------------------------------
(* The theorems.                                                           *)

LEMMA InitIndInv == Init => IndInv
<1> SUFFICES ASSUME Init PROVE IndInv
  OBVIOUS
<1> USE DEF Init
<1>1. TypeInv
  <2>1. <<>> \in Seq(Frames)
    OBVIOUS
  <2>2. stack \in [Threads -> Seq(Frames)] /\ metaclasses \in [Threads -> SUBSET Classes]
    BY <2>1
  <2>3. sent \in [Classes -> Nat] /\ told \in [Funcs -> [Classes -> Nat]]
    OBVIOUS
  <2> QED
    BY <2>2, <2>3 DEF TypeInv
<1>2. /\ Len(<<>>) = 0 /\ \A t \in Threads : stack[t] = <<>> /\ metaclasses[t] = {}
  OBVIOUS
<1>3. StackInv
  BY <1>2 DEF StackInv, Calls, Shape
<1>4. ClaimInv /\ FlagInv /\ PendingInv /\ SentInv
  BY <1>2 DEF ClaimInv, FlagInv, PendingInv, SentInv, Begun
<1>5. ParentInv
  <2>1. \A t \in Threads : Own(t) = {}
    BY <1>2 DEF Own, Begins
  <2>2. ASSUME NEW f \in Funcs, NEW c \in Classes PROVE Counted(f, c)
    <3>1. Owed(f, c) = {}
      <4>1. \A t \in Threads : ~Owes(f, c, stack[t])
        BY <1>2 DEF Owes
      <4> QED
        BY <1>1, <4>1, OwedIs
    <3>2. Cardinality(Owed(f, c)) = 0
      BY <3>1, FS_EmptySet
    <3> QED
      BY <3>1, <3>2 DEF Counted
  <2> QED
    BY <2>1, <2>2 DEF ParentInv
<1>6. ChildInv
  BY DEF ChildInv
<1> QED
  BY <1>1, <1>3, <1>4, <1>5, <1>6 DEF IndInv

LEMMA NextIndInv ==
  ASSUME IndInv, [Next]_vars
  PROVE  IndInv'
<1>1. CASE UNCHANGED vars
  <2>1. UNCHANGED <<flags, metaclasses, process, stack, ghosts, halted>> /\ halted \in {"no", "after fork"}
    BY <1>1 DEF vars, flags, process, ghosts, IndInv, TypeInv
  <2> QED
    BY <2>1, HaltKeeps
<1>2. CASE Next
  <2>1. halted = "no"
    BY <1>2 DEF Next
  <2>2. PICK t \in Threads : Step(t) \/ Client(t)
    BY <1>2 DEF Next
  <2>3. CASE Step(t)
    BY <2>1, <2>3, StartKeeps, SetInitializingKeeps, SetFailsKeeps, BeginKeeps, TellKeeps, CallInitializeKeeps,
       InitializeReturnsKeeps, ForkChildInitializeKeeps, LockAndFinishInitializingKeeps, IsInitializingKeeps,
       IsInitializedKeeps, TakeOverKeeps, WaitKeeps, TellOfKeeps, AddReturnsKeeps DEF Step
  <2>4. CASE Client(t)
    BY <2>1, <2>4, SendKeeps, AddWillInitializeFuncKeeps, ForkKeeps DEF Client
  <2> QED
    BY <2>2, <2>3, <2>4
<1> QED
  BY <1>1, <1>2

\* For any threads, classes and functions, in the process and in the child of a fork:
\* what the calls of a thread know of the flags and of its list when they go on, that a
\* claim comes after the claim of the superclass, and what is left of both in the child.
THEOREM InitializeInvariance == Spec => []IndInv
<1>1. Init => IndInv
  BY InitIndInv
<1>2. IndInv /\ [Next]_vars => IndInv'
  BY NextIndInv
<1> QED
  BY <1>1, <1>2, PTL DEF Spec

\* Every variable has its type; RW_INITIALIZING and RW_INITIALIZED are never both set.
THEOREM InitializeTypeCorrect == Spec => []TypeOK
<1>1. IndInv => TypeOK
  <2> SUFFICES ASSUME IndInv PROVE TypeOK
    OBVIOUS
  <2>1. ASSUME NEW t \in Threads, NEW i \in DOMAIN stack[t] PROVE stack[t][i].at \in Steps
    <3>1. stack[t] \in Seq(Frames)
      BY DEF IndInv, TypeInv
    <3>2. stack[t][i] \in Frames
      BY <2>1, <3>1
    <3> QED
      BY <3>2 DEF Frames
  <2> QED
    BY <2>1 DEF TypeOK, IndInv, TypeInv, FlagInv
<1> QED
  BY <1>1, InitializeInvariance, PTL

\* A class is sent +initialize at most once; before a fork every initialized class was
\* sent it, no two threads have a class on their lists, and every will-initialize
\* function is told, or is owed to be told, exactly once of every class that has begun.
THEOREM InitializedOnce == Spec => []InitializeOnce
<1>1. IndInv => InitializeOnce
  <2> SUFFICES ASSUME IndInv PROVE InitializeOnce
    OBVIOUS
  <2>1. \A c \in Classes : sent[c] <= 1
    BY DEF IndInv, SentInv
  <2>2. ASSUME ~multithreadedForkChild
        PROVE  /\ \A c \in initialized : sent[c] = 1
               /\ \A t, u \in Threads : t # u => metaclasses[t] \cap metaclasses[u] = {}
    BY <2>2 DEF IndInv, ParentInv, Own, TypeInv
  <2>3. ToldOnce
    BY DEF ToldOnce, IndInv, ParentInv, Counted, Begun
  <2> QED
    BY <2>1, <2>2, <2>3 DEF InitializeOnce
<1> QED
  BY <1>1, InitializeInvariance, PTL

\* The classes that are or have been initialized are a contiguous subtree from the root;
\* the superclass of an initialized class is initialized; and a thread that has a class
\* has its superclass, where that is still being initialized.
THEOREM SubtreeIsContiguous == Spec => []ContiguousSubtree
<1>1. IndInv => ContiguousSubtree
  <2> SUFFICES ASSUME IndInv PROVE ContiguousSubtree
    OBVIOUS
  <2>1. ASSUME NEW t \in Threads, NEW c \in metaclasses[t], Superclass[c] \in initializing
        PROVE  Superclass[c] \in metaclasses[t]
    <3>1. SuperUsable(t, c) /\ initializing \cap initialized = {} /\ initializing \subseteq Classes
      BY DEF IndInv, ClaimInv, FlagInv, TypeInv
    <3> QED
      BY <2>1, <3>1, InitializeAssumption DEF SuperUsable
  <2> QED
    BY <2>1 DEF ContiguousSubtree, IndInv, FlagInv, Begun
<1> QED
  BY <1>1, InitializeInvariance, PTL

\* A class waits only for a superclass that is being initialized, a thread that has
\* returned from all its calls has no class on its list, and the only fatal error that
\* is reached is the one about a +initialize that a fork interrupted.
THEOREM ClaimsStayKept == Spec => []ClaimsAreKept
<1>1. IndInv => ClaimsAreKept
  <2> SUFFICES ASSUME IndInv PROVE ClaimsAreKept
    OBVIOUS
  <2>1. ASSUME NEW t \in Threads, stack[t] = <<>>, metaclasses[t] # {} PROVE FALSE
    <3>1. metaclasses[t] \subseteq pending
      <4>1. Calls(t, stack[t]) /\ Len(stack[t]) = 0
        BY <2>1 DEF IndInv, StackInv
      <4> QED
        BY <4>1 DEF Calls, Covers
    <3>2. metaclasses[t] \in (SUBSET Classes) \ {{}}
      BY <2>1 DEF IndInv, TypeInv
    <3>3. PICK c \in metaclasses[t] : Superclass[c] \notin metaclasses[t]
      BY <3>2, InitializeAssumption
    <3>4. SuperUsable(t, c) /\ Superclass[c] \in initializing /\ initializing \cap initialized = {} /\ initializing \subseteq Classes
      BY <3>1 DEF IndInv, ClaimInv, FlagInv, TypeInv
    <3> QED
      BY <3>3, <3>4, InitializeAssumption DEF SuperUsable
  <2>2. \A c \in pending : c \in initializing /\ Superclass[c] \in initializing
    BY DEF IndInv, FlagInv
  <2>3. halted \in {"no", "after fork"}
    BY DEF IndInv, TypeInv
  <2> QED
    BY <2>1, <2>2, <2>3 DEF ClaimsAreKept
<1> QED
  BY <1>1, InitializeInvariance, PTL

\* A call returns only by a step of its thread that shortens the calls.
LEMMA NoReturn ==
  ASSUME NEW t \in Threads, NEW v \in Threads, NEW r, stack \in [Threads -> Seq(Frames)], stack[t] # <<>>,
         stack'[t] = Front(stack[t]), stack' = [stack EXCEPT ![v] = r], Len(r) >= Len(stack[v])
  PROVE  FALSE
<1>1. Len(Front(stack[t])) = Len(stack[t]) - 1 /\ Len(stack[t]) \in Nat
  BY TopFacts
<1>2. CASE v = t
  <2>1. r = Front(stack[t])
    BY <1>2
  <2> QED
    BY <1>1, <1>2, <2>1
<1>3. CASE v # t
  <2>1. stack[t] = Front(stack[t])
    BY <1>3
  <2> QED
    BY <1>1, <2>1
<1> QED
  BY <1>2, <1>3

LEMMA ReplaceLen ==
  ASSUME NEW s \in Seq(Frames), s # <<>>, NEW x
  PROVE  Len(Replace(s, x)) = Len(s)
<1>1. Front(s) \in Seq(Frames) /\ Len(Front(s)) = Len(s) - 1 /\ Len(s) \in Nat
  BY TopFacts
<1>2. Len(Append(Front(s), x)) = Len(Front(s)) + 1
  BY <1>1
<1> QED
  BY <1>1, <1>2 DEF Replace

LEMMA PushLen ==
  ASSUME NEW s \in Seq(Frames), NEW x, NEW y
  PROVE  Len(Append(s, x)) = Len(s) + 1 /\ Len(Append(Append(s, x), y)) = Len(s) + 2
OBVIOUS

LEMMA UpdateNoReturn ==
  ASSUME IndInv, NEW t \in Threads, stack[t] # <<>>, stack'[t] = Front(stack[t]), NEW v \in Threads, stack[v] # <<>>,
         NEW x, stack' = Update(v, x)
  PROVE  FALSE
<1>1. stack \in [Threads -> Seq(Frames)] /\ stack[v] \in Seq(Frames) /\ Len(stack[v]) \in Nat
  <2>1. stack \in [Threads -> Seq(Frames)]
    BY DEF IndInv, TypeInv
  <2>2. stack[v] \in Seq(Frames)
    BY <2>1
  <2> QED
    BY <2>1, <2>2
<1>2. Len(Replace(stack[v], x)) >= Len(stack[v])
  BY <1>1, ReplaceLen
<1>3. stack' = [stack EXCEPT ![v] = Replace(stack[v], x)]
  BY UpdateIs
<1> QED
  BY <1>1, <1>2, <1>3, NoReturn

LEMMA OwnReturn ==
  ASSUME IndInv, NEW t \in Threads, stack[t] # <<>>, stack'[t] = Front(stack[t]), NEW v \in Threads,
         NEW r, stack' = [stack EXCEPT ![v] = r]
  PROVE  v = t
<1>1. stack[t] \in Seq(Frames)
  BY DEF IndInv, TypeInv
<1>2. Len(Front(stack[t])) = Len(stack[t]) - 1 /\ Len(stack[t]) \in Nat
  BY <1>1, TopFacts
<1>3. Front(stack[t]) # stack[t]
  BY <1>2
<1> QED
  BY <1>3

\* A step after which the newest call of a thread has returned leaves it a class that
\* is initialized or that it initializes itself.
LEMMA StepHolds ==
  ASSUME IndInv, NEW t \in Threads, stack[t] # <<>>, stack'[t] = Front(stack[t]),
         multithreadedForkChild' = multithreadedForkChild, Top(t).cls # NoClass, NEW v \in Threads, Step(v)
  PROVE  Usable(t, Top(t).cls)
<1> DEFINE c == Top(t).cls
<1>0. stack \in [Threads -> Seq(Frames)] /\ \A u \in Threads : stack[u] \in Seq(Frames)
  BY DEF IndInv, TypeInv
<1>1. CASE Start(v)
  <2>1. PICK r : stack' = [stack EXCEPT ![v] = r] /\ Len(r) >= Len(stack[v])
    <3>1. stack[v] # <<>> /\ stack[v] \in Seq(Frames)
      BY <1>0, <1>1 DEF Start, At
    <3>2. Front(stack[v]) \in Seq(Frames) /\ Len(Front(stack[v])) = Len(stack[v]) - 1 /\ Len(stack[v]) \in Nat
      BY <3>1, TopFacts
    <3> DEFINE x == [Top(v) EXCEPT !.at = "set"]
               y == Call(Superclass[Top(v).cls])
               r1 == Append(Front(stack[v]), x)
               r2 == Append(Append(Front(stack[v]), x), y)
    <3>3. Len(r1) = Len(stack[v]) /\ Len(r2) = Len(stack[v]) + 1
      BY <3>2, PushLen
    <3>4. stack' = [stack EXCEPT ![v] = r1] \/ stack' = [stack EXCEPT ![v] = r2]
      BY <1>1 DEF Start
    <3> HIDE DEF r1, r2
    <3> QED
      BY <3>2, <3>3, <3>4
  <2> QED
    BY <1>0, <2>1, NoReturn
<1>2. CASE SetInitializing(v) \/ SetFails(v) \/ Begin(v) \/ (\E f \in Funcs : Tell(v, f)) \/ CallInitialize(v)
           \/ (\E throws \in BOOLEAN : InitializeReturns(v, throws)) \/ TakeOver(v) \/ (\E d \in Classes : TellOf(v, d))
  <2>1. stack[v] # <<>> /\ \E x : stack' = Update(v, x)
    BY <1>2 DEF SetInitializing, SetFails, Begin, Tell, CallInitialize, InitializeReturns, TakeOver, TellOf, At, Goto
  <2> QED
    BY <2>1, UpdateNoReturn
<1>3. ASSUME UNCHANGED stack PROVE FALSE
  <2>1. stack[t] \in Seq(Frames)
    BY <1>0
  <2>2. Len(Front(stack[t])) = Len(stack[t]) - 1 /\ Len(stack[t]) \in Nat
    BY <2>1, TopFacts
  <2> QED
    BY <1>3, <2>2
<1>4. CASE ForkChildInitialize(v)
  <2>1. stack[v] # <<>> /\ (UNCHANGED stack \/ \E x : stack' = Update(v, x))
    BY <1>4 DEF ForkChildInitialize, At, Goto
  <2> QED
    BY <1>3, <2>1, UpdateNoReturn
<1>5. CASE IsInitializing(v)
  <2>1. stack[v] # <<>> /\ UNCHANGED <<initialized, metaclasses>>
    BY <1>5 DEF IsInitializing, At, flags
  <2>2. CASE Top(v).cls \in initializing /\ ThisThreadIsInitializingClass(v, Top(v).cls)
    <3>1. stack' = [stack EXCEPT ![v] = Front(stack[v])]
      BY <1>5, <2>2 DEF IsInitializing, Return
    <3>2. v = t
      BY <3>1, OwnReturn
    <3> QED
      BY <2>1, <2>2, <3>2 DEF Usable, ThisThreadIsInitializingClass
  <2>3. CASE ~(Top(v).cls \in initializing /\ ThisThreadIsInitializingClass(v, Top(v).cls))
    <3>1. \E x : stack' = Update(v, x)
      BY <1>5, <2>3 DEF IsInitializing, Goto
    <3> QED
      BY <2>1, <3>1, UpdateNoReturn
  <2> QED
    BY <2>2, <2>3
<1>6. CASE IsInitialized(v)
  <2>1. stack[v] # <<>> /\ UNCHANGED <<initialized, metaclasses>>
    BY <1>6 DEF IsInitialized, At, flags
  <2>2. Top(v).cls \in initialized /\ stack' = [stack EXCEPT ![v] = Front(stack[v])]
    BY <1>3, <1>6 DEF IsInitialized, Return
  <2>3. v = t
    BY <2>2, OwnReturn
  <2> QED
    BY <2>1, <2>2, <2>3 DEF Usable
<1>7. CASE Wait(v)
  <2>1. stack[v] # <<>> /\ UNCHANGED <<initialized, metaclasses>>
    BY <1>7 DEF Wait, At, flags
  <2>2. CASE Top(v).cls \in initialized
    <3>1. stack' = [stack EXCEPT ![v] = Front(stack[v])]
      BY <1>7, <2>2 DEF Wait, Return
    <3>2. v = t
      BY <3>1, OwnReturn
    <3> QED
      BY <2>1, <2>2, <3>2 DEF Usable
  <2>3. CASE Top(v).cls \notin initialized
    <3>1. \E x : stack' = Update(v, x)
      BY <1>7, <2>3 DEF Wait, Goto
    <3> QED
      BY <2>1, <3>1, UpdateNoReturn
  <2> QED
    BY <2>2, <2>3
<1>8. CASE AddReturns(v)
  <2>1. stack[v] # <<>> /\ Top(v).at = "add" /\ stack' = [stack EXCEPT ![v] = Front(stack[v])]
    BY <1>8 DEF AddReturns, At, Return
  <2>2. v = t
    BY <2>1, OwnReturn
  <2>3. Top(t).cls = NoClass
    BY <2>1, <2>2, TopIs DEF ShapeAt
  <2> QED
    BY <2>3
<1>9. CASE LockAndFinishInitializing(v)
  <2>1. stack[v] # <<>> /\ Top(v).at = "finish"
    BY <1>9 DEF LockAndFinishInitializing, At
  <2>2. Top(v).cls \in metaclasses[v]
    BY <2>1, TopIs DEF Knows, Claiming, Owning
  <2>3. CASE FinishInitializing(v)
    <3>1. stack' = [u \in Threads |-> Wake(IF u = v THEN Leave(v) ELSE stack[u])] /\ Top(v).cls \in initialized'
      BY <2>3 DEF FinishInitializing, SetInitialized, Released
    <3>2. v = t
      <4> SUFFICES ASSUME v # t PROVE FALSE
        OBVIOUS
      <4>1. stack'[t] = Wake(stack[t]) /\ stack[t] \in Seq(Frames)
        BY <1>0, <3>1
      <4>2. Len(Front(stack[t])) = Len(stack[t]) - 1 /\ Len(stack[t]) \in Nat /\ Len(Wake(stack[t])) = Len(stack[t])
        BY <4>1, TopFacts, WakeFacts
      <4> QED
        BY <4>1, <4>2
    <3> QED
      BY <3>1, <3>2 DEF Usable
  <2>4. CASE FinishInitializingAfter(v)
    <3>1. metaclasses' = metaclasses /\ stack' = [stack EXCEPT ![v] = Leave(v)]
      BY <2>4 DEF FinishInitializingAfter
    <3>2. v = t
      BY <3>1, OwnReturn
    <3> QED
      BY <2>2, <3>1, <3>2 DEF Usable
  <2> QED
    BY <1>9, <2>3, <2>4 DEF LockAndFinishInitializing
<1> QED
  BY <1>1, <1>2, <1>4, <1>5, <1>6, <1>7, <1>8, <1>9 DEF Step

LEMMA ClientHolds ==
  ASSUME IndInv, NEW t \in Threads, stack[t] # <<>>, stack'[t] = Front(stack[t]),
         multithreadedForkChild' = multithreadedForkChild, NEW v \in Threads, Client(v)
  PROVE  FALSE
<1>0. stack \in [Threads -> Seq(Frames)] /\ \A u \in Threads : stack[u] \in Seq(Frames)
  BY DEF IndInv, TypeInv
<1>1. ASSUME NEW f \in Funcs, AddWillInitializeFunc(v, f) PROVE FALSE
  <2>1. stack[v] = <<>> /\ \E r : stack' = [stack EXCEPT ![v] = r]
    BY <1>1 DEF AddWillInitializeFunc
  <2>2. v = t
    BY <2>1, OwnReturn
  <2> QED
    BY <2>1, <2>2
<1>2. ASSUME Fork(v) PROVE FALSE
  BY <1>2 DEF Fork
<1>3. ASSUME NEW d \in Classes, Send(v, d) PROVE FALSE
  <2>1. PICK r : stack' = [stack EXCEPT ![v] = r] /\ (r = <<Call(d)>> \/ \E x : r = Append(Append(Front(stack[v]), x), Call(d)))
                 /\ (stack[v] # <<>> => \E x : r = Append(Append(Front(stack[v]), x), Call(d)))
    <3> DEFINE x == [Top(v) EXCEPT !.todo = @ \ {d}]
               r1 == Append(Append(Front(stack[v]), x), Call(d))
               r2 == <<Call(d)>>
    <3>1. (stack[v] = <<>> /\ stack' = [stack EXCEPT ![v] = r2]) \/ (stack[v] # <<>> /\ stack' = [stack EXCEPT ![v] = r1])
      BY <1>3 DEF Send
    <3>2. \E z : r1 = Append(Append(Front(stack[v]), z), Call(d))
      OBVIOUS
    <3> HIDE DEF r1
    <3> QED
      BY <3>1, <3>2
  <2>2. v = t
    BY <2>1, OwnReturn
  <2>3. PICK x : r = Append(Append(Front(stack[v]), x), Call(d))
    BY <2>1, <2>2
  <2>4. stack[v] \in Seq(Frames) /\ stack[v] # <<>>
    BY <1>0, <2>2
  <2>5. Front(stack[v]) \in Seq(Frames) /\ Len(Front(stack[v])) = Len(stack[v]) - 1 /\ Len(stack[v]) \in Nat
    BY <2>4, TopFacts
  <2>6. Len(r) = Len(stack[v]) + 1
    BY <2>3, <2>5, PushLen
  <2>7. Len(r) >= Len(stack[v])
    BY <2>5, <2>6
  <2> QED
    BY <1>0, <2>1, <2>7, NoReturn
<1> QED
  BY <1>1, <1>2, <1>3 DEF Client

\* A message to a class is delivered once its +initialize has finished, or on the
\* thread that runs it: a call of initializeNonMetaClass never returns before.
THEOREM MessagesAreHeld == Spec => MessagesWait
<1>1. ASSUME IndInv, [Next]_vars
      PROVE  [\A t \in Threads :
                (multithreadedForkChild' = multithreadedForkChild /\ stack[t] # <<>> /\ stack'[t] = Front(stack[t]) /\ Top(t).cls # NoClass)
                  => Usable(t, Top(t).cls)]_vars
  <2> SUFFICES ASSUME Next, NEW t \in Threads, multithreadedForkChild' = multithreadedForkChild, stack[t] # <<>>,
                      stack'[t] = Front(stack[t]), Top(t).cls # NoClass
               PROVE  Usable(t, Top(t).cls)
    BY <1>1
  <2>1. PICK v \in Threads : Step(v) \/ Client(v)
    BY DEF Next
  <2> QED
    BY <1>1, <2>1, StepHolds, ClientHolds
<1> QED
  BY <1>1, InitializeInvariance, PTL DEF Spec, MessagesWait
=============================================================================
