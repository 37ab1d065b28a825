-------------------------------- MODULE Sync --------------------------------
(***************************************************************************)
(* @synchronized (objc-sync.mm): the list of SyncData records of one       *)
(* stripe, the per-thread caches in front of it, and the recursive mutex   *)
(* of each record.  The records of different stripes never meet.           *)
(*                                                                         *)
(* A step is a thread-local look into the caches (with the atomic change   *)
(* of threadCount that may come with it), one critical section of the      *)
(* stripe's lock, or one operation on a mutex.  A record that a thread has *)
(* cached is read without any lock: that it keeps its object meanwhile is  *)
(* part of what is checked.                                                *)
(***************************************************************************)
EXTENDS Integers, FiniteSets

CONSTANTS
  Threads,
  Objects,        \* addresses of one stripe: numbers, for the order of nesting
  Records,        \* bound: SyncData records that can be allocated
  InitialSlots,   \* 4 in fetch_cache
  MaxDepth,       \* bound: lockCount of a cache entry
  MaxCount,       \* bound: threadCount beyond which nobody makes a stray exit
  TryEnters,      \* clients call objc_sync_try_enter
  StrayExits,     \* clients call objc_sync_exit on objects they do not hold
  NoThread, NoRecord

ASSUME SyncAssumption ==
  /\ IsFiniteSet(Threads) /\ NoThread \notin Threads
  /\ Objects \subseteq Nat /\ NoRecord \notin Records
  /\ InitialSlots \in Nat \ {0}
  /\ MaxDepth \in Nat /\ MaxCount \in Nat
  /\ TryEnters \in BOOLEAN /\ StrayExits \in BOOLEAN

VARIABLES
  list,           \* records on the stripe's list; they are never freed
  object,         \* SyncData.object
  threadCount,    \* SyncData.threadCount
  owner, depth,   \* SyncData.mutex
  lockCount,      \* lockCount[t][d] of t's cache entry for d, 0 for no entry
  fast,           \* record in the thread's single-entry cache
  allocated,      \* slots of the thread's SyncCache, 0 for none
  pc, obj, rec, trying,   \* the call in progress
  inside,         \* ghost: blocks on an object that a thread is in
  leaving         \* ghost: the exit in progress ends one of them

shared == <<list, object, threadCount>>
mutexes == <<owner, depth>>
caches == <<lockCount, fast, allocated>>
call == <<pc, obj, rec, trying>>
ghost == <<inside, leaving>>
vars == <<shared, mutexes, caches, call, ghost>>

NoObject == -1
PCs == {"idle", "walk", "lock", "exit_walk", "unlock"}

----------------------------------------------------------------------------
(* The per-thread caches.                                                  *)

Cached(t) == {d \in Records : lockCount[t][d] > 0}

\* The entry whose record is for o.
Hits(t, o) == {d \in Cached(t) : object[d] = o}

FastHit(t, o) == fast[t] # NoRecord /\ object[fast[t]] = o

Used(t) == Cardinality(Cached(t) \ {fast[t]})

\* Mutant: the list grows when it has overflowed.
MutGrown(t) == IF allocated[t] < Used(t) THEN 2 * allocated[t] ELSE allocated[t]

\* fetch_cache makes sure there is an open slot, whatever it is called for.
Grown(t) == IF allocated[t] = Used(t) THEN 2 * allocated[t] ELSE allocated[t]

\* Looking past the fast cache fetches the SyncCache.
FetchCache(t, o) ==
  allocated' = IF FastHit(t, o) THEN allocated ELSE [allocated EXCEPT ![t] = Grown(t)]

\* A new entry goes to the fast cache if that is free.
AddToCache(t, d) ==
  /\ lockCount' = [lockCount EXCEPT ![t][d] = 1]
  /\ IF fast[t] = NoRecord
     THEN fast' = [fast EXCEPT ![t] = d] /\ UNCHANGED allocated
     ELSE /\ allocated' = [allocated EXCEPT ![t] = IF @ = 0 THEN InitialSlots ELSE @]
          /\ UNCHANGED fast

----------------------------------------------------------------------------
(* id2data(ACQUIRE), then mutex.lock() or mutex.tryLock().                 *)

Idle(t) == pc[t] = "idle"

Begin(t, o, b) ==
  /\ obj' = [obj EXCEPT ![t] = o]
  /\ trying' = [trying EXCEPT ![t] = b]

Goto(t, p) == pc' = [pc EXCEPT ![t] = p]

Return(t) ==
  /\ Goto(t, "idle")
  /\ obj' = [obj EXCEPT ![t] = NoObject]
  /\ rec' = [rec EXCEPT ![t] = NoRecord]
  /\ trying' = [trying EXCEPT ![t] = FALSE]
  /\ leaving' = [leaving EXCEPT ![t] = FALSE]

\* Clients nest blocking enters in the order of the objects: no deadlock of
\* their own making.
MayEnter(t, o, b) ==
  /\ Idle(t)
  /\ IF b THEN TryEnters ELSE \A p \in Objects : inside[t][p] > 0 => p <= o

AcquireCached(t, o, b) ==
  /\ MayEnter(t, o, b)
  /\ \E d \in Hits(t, o) :
       /\ lockCount[t][d] < MaxDepth
       /\ lockCount' = [lockCount EXCEPT ![t][d] = @ + 1]
       /\ rec' = [rec EXCEPT ![t] = d]
  /\ FetchCache(t, o)
  /\ Begin(t, o, b) /\ Goto(t, "lock")
  /\ UNCHANGED <<shared, mutexes, fast, ghost>>

AcquireMiss(t, o, b) ==
  /\ MayEnter(t, o, b) /\ Hits(t, o) = {}
  /\ FetchCache(t, o)
  /\ Begin(t, o, b) /\ Goto(t, "walk")
  /\ UNCHANGED <<shared, mutexes, lockCount, fast, rec, ghost>>

Matching(o) == {d \in list : object[d] = o}
Unused == {d \in list : threadCount[d] = 0}

GotRecord(t, d) ==
  /\ AddToCache(t, d)
  /\ rec' = [rec EXCEPT ![t] = d]
  /\ Goto(t, "lock")
  /\ UNCHANGED <<mutexes, obj, trying, ghost>>

\* Mutant: a record in use by others is joined without being counted.
MutFindRecord(t) ==
  /\ pc[t] = "walk"
  /\ \E d \in Matching(obj[t]) : GotRecord(t, d)
  /\ UNCHANGED <<list, object, threadCount>>

FindRecord(t) ==
  /\ pc[t] = "walk"
  /\ \E d \in Matching(obj[t]) :
       /\ threadCount' = [threadCount EXCEPT ![d] = @ + 1]
       /\ GotRecord(t, d)
  /\ UNCHANGED <<list, object>>

\* Mutant: the walk ends at the first unused record.
MutReuseRecord(t, d) ==
  /\ pc[t] = "walk" /\ d \in Unused
  /\ object' = [object EXCEPT ![d] = obj[t]]
  /\ threadCount' = [threadCount EXCEPT ![d] = 1]
  /\ GotRecord(t, d)
  /\ UNCHANGED list

ReuseRecord(t, d) ==
  /\ pc[t] = "walk" /\ Matching(obj[t]) = {}
  /\ d \in Unused
  /\ object' = [object EXCEPT ![d] = obj[t]]
  /\ threadCount' = [threadCount EXCEPT ![d] = 1]
  /\ GotRecord(t, d)
  /\ UNCHANGED list

\* A count can fall to zero behind the walk: a new record may be made though
\* an unused one is on the list by then.
NewRecord(t, d) ==
  /\ pc[t] = "walk" /\ Matching(obj[t]) = {}
  /\ d \in Records \ list
  /\ list' = list \cup {d}
  /\ object' = [object EXCEPT ![d] = obj[t]]
  /\ threadCount' = [threadCount EXCEPT ![d] = 1]
  /\ GotRecord(t, d)

MutexIsOpen(t, d) == owner[d] \in {NoThread, t}

\* mutex.lock() of a blocking enter, mutex.tryLock() of a try.
Lock(t) ==
  /\ pc[t] = "lock" /\ MutexIsOpen(t, rec[t])
  /\ owner' = [owner EXCEPT ![rec[t]] = t]
  /\ depth' = [depth EXCEPT ![rec[t]] = @ + 1]
  /\ inside' = [inside EXCEPT ![t][obj[t]] = @ + 1]
  /\ Return(t)
  /\ UNCHANGED <<shared, caches>>

TryLockFails(t) ==
  /\ pc[t] = "lock" /\ trying[t] /\ ~MutexIsOpen(t, rec[t])
  /\ Return(t)
  /\ UNCHANGED <<shared, mutexes, caches, inside>>

----------------------------------------------------------------------------
(* objc_sync_exit: id2data(RELEASE), then mutex.tryUnlock().               *)

MayExit(t, o) == Idle(t) /\ (inside[t][o] > 0 \/ StrayExits)

\* The block is over when objc_sync_exit is called.
Leave(t, o) ==
  /\ inside' = [inside EXCEPT ![t][o] = IF @ > 0 THEN @ - 1 ELSE 0]
  /\ leaving' = [leaving EXCEPT ![t] = inside[t][o] > 0]

\* With the last lock the entry leaves the cache and the thread is uncounted,
\* before the mutex is unlocked.
ReleaseCached(t, o) ==
  /\ MayExit(t, o)
  /\ \E d \in Hits(t, o) :
       LET last == lockCount[t][d] = 1
       IN  /\ lockCount' = [lockCount EXCEPT ![t][d] = @ - 1]
           /\ fast' = [fast EXCEPT ![t] = IF last /\ @ = d THEN NoRecord ELSE @]
           /\ threadCount' = IF last THEN [threadCount EXCEPT ![d] = @ - 1] ELSE threadCount
           /\ rec' = [rec EXCEPT ![t] = d]
  /\ FetchCache(t, o)
  /\ Begin(t, o, FALSE) /\ Goto(t, "unlock") /\ Leave(t, o)
  /\ UNCHANGED <<list, object, mutexes>>

ReleaseMiss(t, o) ==
  /\ MayExit(t, o) /\ Hits(t, o) = {}
  /\ \A d \in Records : threadCount[d] < MaxCount
  /\ FetchCache(t, o)
  /\ Begin(t, o, FALSE) /\ Goto(t, "exit_walk") /\ Leave(t, o)
  /\ UNCHANGED <<shared, mutexes, lockCount, fast, rec>>

\* The walk counts whoever finds a record; a RELEASE then returns nil.
ReleaseWalk(t) ==
  /\ pc[t] = "exit_walk"
  /\ threadCount' = [d \in Records |-> IF d \in Matching(obj[t]) THEN threadCount[d] + 1 ELSE threadCount[d]]
  /\ Return(t)
  /\ UNCHANGED <<list, object, mutexes, caches, inside>>

\* Mutant: the mutex is let go of at the first exit.
MutUnlock(t) ==
  LET d == rec[t] IN
  /\ pc[t] = "unlock"
  /\ IF owner[d] = t
     THEN /\ depth' = [depth EXCEPT ![d] = 0]
          /\ owner' = [owner EXCEPT ![d] = NoThread]
     ELSE UNCHANGED mutexes
  /\ Return(t)
  /\ UNCHANGED <<shared, caches, inside>>

\* Mutant: a record that passed to another object meanwhile is not unlocked.
MutUnlockReused(t) ==
  LET d == rec[t] IN
  /\ pc[t] = "unlock"
  /\ IF owner[d] = t /\ object[d] = obj[t]
     THEN /\ depth' = [depth EXCEPT ![d] = @ - 1]
          /\ owner' = [owner EXCEPT ![d] = IF depth[d] = 1 THEN NoThread ELSE t]
     ELSE UNCHANGED mutexes
  /\ Return(t)
  /\ UNCHANGED <<shared, caches, inside>>

\* Mutant: the unlock forgets to check who owns the mutex.
MutUnlockBlind(t) ==
  LET d == rec[t] IN
  /\ pc[t] = "unlock"
  /\ depth' = [depth EXCEPT ![d] = @ - 1]
  /\ owner' = [owner EXCEPT ![d] = IF depth[d] = 1 THEN NoThread ELSE @]
  /\ Return(t)
  /\ UNCHANGED <<shared, caches, inside>>

\* tryUnlock fails for a thread that does not own the mutex.
Unlock(t) ==
  LET d == rec[t] IN
  /\ pc[t] = "unlock"
  /\ IF owner[d] = t
     THEN /\ depth' = [depth EXCEPT ![d] = @ - 1]
          /\ owner' = [owner EXCEPT ![d] = IF depth[d] = 1 THEN NoThread ELSE t]
     ELSE UNCHANGED mutexes
  /\ Return(t)
  /\ UNCHANGED <<shared, caches, inside>>

----------------------------------------------------------------------------

Init ==
  /\ list = {} /\ object = [d \in Records |-> NoObject]
  /\ threadCount = [d \in Records |-> 0]
  /\ owner = [d \in Records |-> NoThread] /\ depth = [d \in Records |-> 0]
  /\ lockCount = [t \in Threads |-> [d \in Records |-> 0]]
  /\ fast = [t \in Threads |-> NoRecord] /\ allocated = [t \in Threads |-> 0]
  /\ pc = [t \in Threads |-> "idle"] /\ obj = [t \in Threads |-> NoObject]
  /\ rec = [t \in Threads |-> NoRecord] /\ trying = [t \in Threads |-> FALSE]
  /\ inside = [t \in Threads |-> [o \in Objects |-> 0]]
  /\ leaving = [t \in Threads |-> FALSE]

Enter(t, o) == \E b \in BOOLEAN : AcquireCached(t, o, b) \/ AcquireMiss(t, o, b)
Exit(t, o) == ReleaseCached(t, o) \/ ReleaseMiss(t, o)

Step(t) ==
  \/ FindRecord(t) \/ \E d \in Records : ReuseRecord(t, d) \/ NewRecord(t, d)
  \/ Lock(t) \/ TryLockFails(t)
  \/ ReleaseWalk(t) \/ Unlock(t)

Next == \E t \in Threads : (\E o \in Objects : Enter(t, o) \/ Exit(t, o)) \/ Step(t)

Spec == Init /\ [][Next]_vars

\* A running thread makes progress and leaves the blocks it is in.  Nothing is
\* assumed of who gets a mutex that several threads wait for.
Fairness ==
  \A t \in Threads :
    WF_vars(Step(t)) /\ WF_vars(\E o \in Objects : inside[t][o] > 0 /\ Exit(t, o))

FairSpec == Spec /\ Fairness

----------------------------------------------------------------------------
(* Properties.                                                             *)

\* Every variable has its type.
TypeOK ==
  /\ list \subseteq Records /\ object \in [Records -> Objects \cup {NoObject}]
  /\ threadCount \in [Records -> Int]
  /\ owner \in [Records -> Threads \cup {NoThread}] /\ depth \in [Records -> Nat]
  /\ lockCount \in [Threads -> [Records -> Nat]]
  /\ fast \in [Threads -> Records \cup {NoRecord}] /\ allocated \in [Threads -> Nat]
  /\ pc \in [Threads -> PCs] /\ obj \in [Threads -> Objects \cup {NoObject}]
  /\ rec \in [Threads -> Records \cup {NoRecord}] /\ trying \in [Threads -> BOOLEAN]
  /\ inside \in [Threads -> [Objects -> Nat]] /\ leaving \in [Threads -> BOOLEAN]

\* The caches, the list and the mutexes of reused records implement one
\* recursive lock per object: two threads are never in blocks on one object.
Monitor == INSTANCE Monitors
ImplementsMonitors == Monitor!Spec

\* objc_sync_exit by a thread that is in a block on the object returns
\* OBJC_SYNC_SUCCESS, even if the record went to another object meanwhile.
ExitSucceeds ==
  \A t \in Threads :
    leaving[t] => pc[t] # "exit_walk" /\ (pc[t] = "unlock" => owner[rec[t]] = t)

\* One record per object on the list, used or not.
OneRecordPerObject == \A d, e \in list : object[d] = object[e] => d = e

\* The checks in id2data that call _objc_fatal never fire: a record somebody
\* has cached is counted.
NeverFatal ==
  \A t \in Threads, d \in Records :
    /\ lockCount[t][d] > 0 \/ fast[t] = d => threadCount[d] > 0
    /\ fast[t] = d => lockCount[t][d] > 0

CacheFits == \A t \in Threads : Used(t) <= allocated[t]
CountIsThreads ==
  \A d \in list : threadCount[d] = Cardinality({t \in Threads : lockCount[t][d] > 0})
CountIsLocks ==
  \A t \in Threads, d \in list :
    Idle(t) => lockCount[t][d] = inside[t][object[d]]

\* For clients that only leave what they entered and never try: the thread cache never
\* writes past the slots it has allocated, threadCount is the "number of THREADS using
\* this block", so that a record nobody uses can be used for another object, and
\* lockCount is the "number of times THIS THREAD locked this block".
BooksAreExact == CacheFits /\ CountIsThreads /\ CountIsLocks

\* A mutex that threads wait for does not stay closed: somebody gets inside.
EnterProgress ==
  \A o \in Objects :
    (\E t \in Threads : pc[t] = "lock" /\ obj[t] = o /\ ~trying[t])
      ~> (\E t \in Threads : inside[t][o] > 0)
----------------------------------------------------------------------------
(* The inductive invariant behind the properties.                          *)

Users(d) == {t \in Threads : lockCount[t][d] > 0}

ListInv ==
  /\ \A d \in list : object[d] \in Objects
  /\ OneRecordPerObject
  /\ \A d \in Records \ list : owner[d] = NoThread

\* Whoever has cached a record is counted, so it keeps its object.
CountInv ==
  /\ \A d \in Records : threadCount[d] \in Nat /\ Cardinality(Users(d)) <= threadCount[d]
  /\ \A t \in Threads, d \in Records : lockCount[t][d] > 0 => d \in list
  /\ \A t \in Threads, d \in Records : fast[t] = d => lockCount[t][d] > 0

CallInv ==
  \A t \in Threads :
    /\ pc[t] # "idle" => obj[t] \in Objects
    /\ pc[t] = "walk" => Hits(t, obj[t]) = {}
    /\ pc[t] = "lock" => rec[t] \in list /\ lockCount[t][rec[t]] > 0 /\ object[rec[t]] = obj[t]
    /\ pc[t] = "unlock" => rec[t] \in list /\ (leaving[t] <=> owner[rec[t]] = t)
    /\ leaving[t] => pc[t] = "unlock"

\* The exit in progress still has to unlock the mutex once.
Unlocking(t, d) == IF leaving[t] /\ rec[t] = d THEN 1 ELSE 0
Locking(t, d) == IF pc[t] = "lock" /\ rec[t] = d THEN 1 ELSE 0

\* How deep a mutex is locked: as many blocks as its owner is in, and one more
\* while the owner's exit has not unlocked it.  The record may have passed to
\* another object by then.
MutexInv ==
  /\ \A d \in Records : owner[d] = NoThread => depth[d] = 0
  /\ \A t \in Threads, d \in Records : owner[d] = t =>
       depth[d] > 0 /\ depth[d] = inside[t][object[d]] + Unlocking(t, d)
  /\ \A t \in Threads, o \in Objects : inside[t][o] > 0 =>
       \E d \in list : object[d] = o /\ owner[d] = t /\ lockCount[t][d] > 0
  /\ \A t \in Threads, d \in list :
       lockCount[t][d] > 0 => lockCount[t][d] >= inside[t][object[d]] + Locking(t, d)

\* A cached record keeps its object, and its mutex is locked as often as its
\* owner has blocks and an unfinished exit on it, whatever tries failed and
\* whatever strays called exit.
IndInv == TypeOK /\ ListInv /\ CountInv /\ CallInv /\ MutexInv
=============================================================================
