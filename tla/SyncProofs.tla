----------------------------- MODULE SyncProofs -----------------------------
(***************************************************************************)
(* Proofs about Sync for any number of threads, objects and records, with  *)
(* failed tries and stray exits: the caches, the list and the mutexes      *)
(* implement one recursive lock per object.                                *)
(***************************************************************************)
EXTENDS Sync, FiniteSetTheorems, TLAPS

----------------------------------------------------------------------------
(* Counting the threads that have cached a record.                         *)

\* The users of a record are finitely many.
LEMMA UsersFinite ==
  ASSUME NEW d
  PROVE  IsFiniteSet(Users(d)) /\ Cardinality(Users(d)) \in Nat
<1>1. IsFiniteSet(Threads) /\ Users(d) \subseteq Threads
  BY SyncAssumption DEF Users
<1> QED
  BY <1>1, FS_Subset, FS_CardinalityType

\* A record that is counted zero times is cached by nobody.
LEMMA UnusedIsUncached ==
  ASSUME IndInv, NEW d \in Records, threadCount[d] = 0
  PROVE  \A t \in Threads : lockCount[t][d] = 0
<1>1. Cardinality(Users(d)) = 0
  BY UsersFinite DEF IndInv, CountInv
<1>2. Users(d) = {}
  BY <1>1, UsersFinite, FS_EmptySet
<1> QED
  BY <1>2 DEF Users, IndInv, TypeOK

\* A thread that caches a record is counted.
LEMMA CachedIsCounted ==
  ASSUME IndInv, NEW d \in Records, NEW t \in Threads, lockCount[t][d] > 0
  PROVE  threadCount[d] > 0
  BY UnusedIsUncached DEF IndInv, CountInv

\* How the number of users changes when one thread's entry does.
LEMMA UsersChange ==
  ASSUME NEW d, NEW t \in Threads,
         \A u \in Threads \ {t} : lockCount'[u][d] = lockCount[u][d]
  PROVE  /\ t \in Users(d)' /\ t \notin Users(d) => Cardinality(Users(d))' = Cardinality(Users(d)) + 1
         /\ t \notin Users(d)' /\ t \in Users(d) => Cardinality(Users(d))' = Cardinality(Users(d)) - 1
         /\ (t \in Users(d)' <=> t \in Users(d)) => Cardinality(Users(d))' = Cardinality(Users(d))
<1> DEFINE S == Users(d)
           T == Users(d)'
<1>1. IsFiniteSet(S) /\ Cardinality(S) \in Nat
  BY UsersFinite
<1>2. S \ {t} = T \ {t}
  BY DEF Users
<1>3. CASE t \in T /\ t \notin S
  <2>1. T = S \cup {t}
    BY <1>2, <1>3
  <2> QED
    BY <1>1, <1>3, <2>1, FS_AddElement
<1>4. CASE t \notin T /\ t \in S
  <2>1. T = S \ {t}
    BY <1>2, <1>4
  <2> QED
    BY <1>1, <1>4, <2>1, FS_RemoveElement
<1>5. CASE t \in T <=> t \in S
  <2>1. T = S
    BY <1>2, <1>5
  <2> QED
    BY <2>1
<1> QED
  BY <1>3, <1>4, <1>5

\* Who is in a block on an object owns the mutex of the object's record.
LEMMA InsideOwns ==
  ASSUME IndInv, NEW t \in Threads, NEW o \in Objects, inside[t][o] > 0, NEW d \in list, object[d] = o
  PROVE  owner[d] = t /\ lockCount[t][d] > 0
  BY DEF IndInv, MutexInv, ListInv, OneRecordPerObject

----------------------------------------------------------------------------
(* Every step preserves the invariant.                                     *)

\* An enter that finds the record in the thread's cache.
LEMMA AcquireCachedKeeps ==
  ASSUME IndInv, NEW t \in Threads, NEW o \in Objects, NEW b \in BOOLEAN, AcquireCached(t, o, b)
  PROVE  IndInv'
<1>0. TypeOK /\ ListInv /\ CountInv /\ CallInv /\ MutexInv
  BY DEF IndInv
<1>1. PICK d \in Hits(t, o) :
        /\ lockCount' = [lockCount EXCEPT ![t][d] = lockCount[t][d] + 1]
        /\ rec' = [rec EXCEPT ![t] = d]
  BY DEF AcquireCached
<1>2. /\ pc[t] = "idle" /\ pc' = [pc EXCEPT ![t] = "lock"]
      /\ obj' = [obj EXCEPT ![t] = o] /\ trying' = [trying EXCEPT ![t] = b]
      /\ UNCHANGED <<list, object, threadCount, owner, depth, fast, inside, leaving>>
  BY DEF AcquireCached, MayEnter, Idle, Goto, Begin, shared, mutexes, ghost
<1>3. d \in Records /\ lockCount[t][d] > 0 /\ object[d] = o /\ d \in list /\ ~leaving[t]
  BY <1>0, <1>1, <1>2 DEF Hits, Cached, CountInv, CallInv
<1>4. \A u \in Threads, e \in Records :
        lockCount'[u][e] = IF u = t /\ e = d THEN lockCount[t][d] + 1 ELSE lockCount[u][e]
  BY <1>0, <1>1, <1>3 DEF TypeOK
<1>5. /\ allocated' \in [Threads -> Nat] /\ lockCount[t][d] \in Nat
      /\ \A u \in Threads, e \in Records : lockCount'[u][e] > 0 <=> lockCount[u][e] > 0
  BY <1>0, <1>3, <1>4 DEF AcquireCached, FetchCache, Grown, TypeOK
<1>a. lockCount' \in [Threads -> [Records -> Nat]]
  BY <1>0, <1>1, <1>3, <1>5 DEF TypeOK
<1>6. TypeOK'
  BY <1>0, <1>1, <1>2, <1>3, <1>5, <1>a DEF TypeOK, PCs
<1>7. ListInv'
  BY <1>0, <1>2 DEF ListInv, OneRecordPerObject
<1>8. CountInv'
  <2>1. \A e \in Records : Users(e)' = Users(e)
    BY <1>5 DEF Users
  <2> QED
    BY <1>0, <1>2, <1>5, <2>1 DEF CountInv
<1>9. CallInv'
  BY <1>0, <1>1, <1>2, <1>3, <1>4 DEF CallInv, TypeOK, Hits, Cached
<1>10. MutexInv'
  BY <1>0, <1>1, <1>2, <1>3, <1>4 DEF MutexInv, TypeOK, Unlocking, Locking
<1> QED
  BY <1>6, <1>7, <1>8, <1>9, <1>10 DEF IndInv

\* An enter that has to walk the list.
LEMMA AcquireMissKeeps ==
  ASSUME IndInv, NEW t \in Threads, NEW o \in Objects, NEW b \in BOOLEAN, AcquireMiss(t, o, b)
  PROVE  IndInv'
<1>0. TypeOK /\ ListInv /\ CountInv /\ CallInv /\ MutexInv
  BY DEF IndInv
<1>2. /\ pc[t] = "idle" /\ pc' = [pc EXCEPT ![t] = "walk"] /\ Hits(t, o) = {}
      /\ obj' = [obj EXCEPT ![t] = o] /\ trying' = [trying EXCEPT ![t] = b]
      /\ UNCHANGED <<list, object, threadCount, owner, depth, lockCount, fast, rec, inside, leaving>>
  BY DEF AcquireMiss, MayEnter, Idle, Goto, Begin, shared, mutexes, ghost
<1>5. allocated' \in [Threads -> Nat]
  BY <1>0 DEF AcquireMiss, FetchCache, Grown, TypeOK
<1>6. TypeOK'
  BY <1>0, <1>2, <1>5 DEF TypeOK, PCs
<1>7. ListInv' /\ CountInv'
  BY <1>0, <1>2 DEF ListInv, OneRecordPerObject, CountInv, Users
<1>9. CallInv'
  BY <1>0, <1>2 DEF CallInv, TypeOK, Hits, Cached
<1>10. MutexInv'
  BY <1>0, <1>2 DEF MutexInv, TypeOK, Unlocking, Locking
<1> QED
  BY <1>6, <1>7, <1>9, <1>10 DEF IndInv

\* What the three ways to come by a record have in common.
LEMMA GotRecordFacts ==
  ASSUME TypeOK, NEW t \in Threads, NEW d \in Records, GotRecord(t, d), pc[t] = "walk"
  PROVE  /\ \A u \in Threads, e \in Records :
              lockCount'[u][e] = IF u = t /\ e = d THEN 1 ELSE lockCount[u][e]
         /\ \A u \in Threads, e \in Records : fast'[u] = e => fast[u] = e \/ (u = t /\ e = d)
         /\ lockCount' \in [Threads -> [Records -> Nat]] /\ allocated' \in [Threads -> Nat]
         /\ fast' \in [Threads -> Records \cup {NoRecord}]
         /\ rec' = [rec EXCEPT ![t] = d] /\ pc' = [pc EXCEPT ![t] = "lock"]
         /\ UNCHANGED <<owner, depth, obj, trying, inside, leaving>>
<1>1. /\ lockCount' = [lockCount EXCEPT ![t][d] = 1]
      /\ fast' = [fast EXCEPT ![t] = d] \/ fast' = fast
      /\ rec' = [rec EXCEPT ![t] = d] /\ pc' = [pc EXCEPT ![t] = "lock"]
      /\ UNCHANGED <<owner, depth, obj, trying, inside, leaving>>
  BY DEF GotRecord, AddToCache, Goto, mutexes, ghost
<1>2. allocated' \in [Threads -> Nat]
  BY SyncAssumption, ZenonT(60) DEF GotRecord, AddToCache, TypeOK
<1>3. lockCount' \in [Threads -> [Records -> Nat]]
  BY <1>1 DEF TypeOK
<1>4. fast' \in [Threads -> Records \cup {NoRecord}]
  BY <1>1 DEF TypeOK
<1> QED
  BY <1>1, <1>2, <1>3, <1>4 DEF TypeOK

\* An enter that joins the record other threads use for the object.
LEMMA FindRecordKeeps ==
  ASSUME IndInv, NEW t \in Threads, FindRecord(t)
  PROVE  IndInv'
<1>0. TypeOK /\ ListInv /\ CountInv /\ CallInv /\ MutexInv
  BY DEF IndInv
<1>1. PICK d \in Matching(obj[t]) :
        /\ threadCount' = [threadCount EXCEPT ![d] = threadCount[d] + 1]
        /\ GotRecord(t, d)
  BY DEF FindRecord
<1>2. pc[t] = "walk" /\ UNCHANGED <<list, object>>
  BY DEF FindRecord
<1>3. d \in list /\ d \in Records /\ object[d] = obj[t] /\ obj[t] \in Objects /\ ~leaving[t]
  BY <1>0, <1>1, <1>2 DEF Matching, TypeOK, CallInv
<1>4. /\ \A u \in Threads, e \in Records :
           lockCount'[u][e] = IF u = t /\ e = d THEN 1 ELSE lockCount[u][e]
      /\ \A u \in Threads, e \in Records : fast'[u] = e => fast[u] = e \/ (u = t /\ e = d)
      /\ lockCount' \in [Threads -> [Records -> Nat]] /\ allocated' \in [Threads -> Nat]
      /\ fast' \in [Threads -> Records \cup {NoRecord}]
      /\ rec' = [rec EXCEPT ![t] = d] /\ pc' = [pc EXCEPT ![t] = "lock"]
      /\ UNCHANGED <<owner, depth, obj, trying, inside, leaving>>
  BY <1>0, <1>1, <1>2, <1>3, GotRecordFacts
<1>5. lockCount[t][d] = 0
  BY <1>0, <1>2, <1>3 DEF CallInv, Hits, Cached, TypeOK
<1>a. inside[t][obj[t]] = 0
  <2>1. ~(inside[t][obj[t]] > 0)
    BY <1>3, <1>5, InsideOwns
  <2> QED
    BY <1>0, <1>3, <2>1 DEF TypeOK
<1>6. TypeOK'
  BY <1>0, <1>1, <1>2, <1>3, <1>4 DEF TypeOK, PCs
<1>7. ListInv'
  BY <1>0, <1>2, <1>4 DEF ListInv, OneRecordPerObject
<1>8. CountInv'
  <2>a. t \in Users(d)' /\ t \notin Users(d)
    BY <1>3, <1>4, <1>5 DEF Users
  <2>b. \A u \in Threads \ {t} : lockCount'[u][d] = lockCount[u][d]
    BY <1>3, <1>4
  <2>1. Cardinality(Users(d))' = Cardinality(Users(d)) + 1 /\ Cardinality(Users(d)) \in Nat
    BY <2>a, <2>b, UsersChange, UsersFinite
  <2>2. \A e \in Records : e # d => Users(e)' = Users(e)
    BY <1>4 DEF Users
  <2>3. threadCount'[d] = threadCount[d] + 1 /\ \A e \in Records : e # d => threadCount'[e] = threadCount[e]
    BY <1>0, <1>1, <1>3 DEF TypeOK
  <2>4. \A e \in Records : threadCount'[e] \in Nat /\ Cardinality(Users(e))' <= threadCount'[e]
    BY <1>0, <2>1, <2>2, <2>3 DEF CountInv
  <2>5. \A u \in Threads, e \in Records : lockCount'[u][e] > 0 => e \in list'
    BY <1>0, <1>2, <1>3, <1>4 DEF CountInv
  <2>6. \A u \in Threads, e \in Records : fast'[u] = e => lockCount'[u][e] > 0
    BY <1>0, <1>4 DEF CountInv
  <2> QED
    BY <2>4, <2>5, <2>6 DEF CountInv
<1>9. CallInv'
  BY <1>0, <1>2, <1>3, <1>4 DEF CallInv, TypeOK, Hits, Cached
<1>10. MutexInv'
  BY <1>0, <1>2, <1>3, <1>4, <1>5, <1>a DEF MutexInv, TypeOK, Unlocking, Locking
<1> QED
  BY <1>6, <1>7, <1>8, <1>9, <1>10 DEF IndInv

\* An unused record passes to another object; its mutex may still be held by a
\* thread that has left its block and not yet unlocked.
LEMMA ReuseRecordKeeps ==
  ASSUME IndInv, NEW t \in Threads, NEW d \in Records, ReuseRecord(t, d)
  PROVE  IndInv'
<1>0. TypeOK /\ ListInv /\ CountInv /\ CallInv /\ MutexInv
  BY DEF IndInv
<1>1. /\ object' = [object EXCEPT ![d] = obj[t]] /\ threadCount' = [threadCount EXCEPT ![d] = 1]
      /\ GotRecord(t, d) /\ list' = list
  BY DEF ReuseRecord
<1>2. pc[t] = "walk" /\ Matching(obj[t]) = {} /\ threadCount[d] = 0 /\ d \in list
  BY DEF ReuseRecord, Unused
<1>3. obj[t] \in Objects /\ ~leaving[t] /\ object[d] \in Objects /\ \A e \in list : object[e] # obj[t]
  BY <1>0, <1>2 DEF Matching, CallInv, ListInv
<1>4. /\ \A u \in Threads, e \in Records :
           lockCount'[u][e] = IF u = t /\ e = d THEN 1 ELSE lockCount[u][e]
      /\ \A u \in Threads, e \in Records : fast'[u] = e => fast[u] = e \/ (u = t /\ e = d)
      /\ lockCount' \in [Threads -> [Records -> Nat]] /\ allocated' \in [Threads -> Nat]
      /\ fast' \in [Threads -> Records \cup {NoRecord}]
      /\ rec' = [rec EXCEPT ![t] = d] /\ pc' = [pc EXCEPT ![t] = "lock"]
      /\ UNCHANGED <<owner, depth, obj, trying, inside, leaving>>
  BY <1>0, <1>1, <1>2, GotRecordFacts
<1>5. \A u \in Threads : lockCount[u][d] = 0
  BY <1>2, UnusedIsUncached
<1>a. \A u \in Threads : inside[u][obj[t]] = 0 /\ inside[u][object[d]] = 0
  <2> SUFFICES ASSUME NEW u \in Threads
               PROVE  inside[u][obj[t]] = 0 /\ inside[u][object[d]] = 0
    OBVIOUS
  <2>1. inside[u][obj[t]] \in Nat /\ inside[u][object[d]] \in Nat
    BY <1>0, <1>3 DEF TypeOK
  <2>2. ~(inside[u][obj[t]] > 0)
    BY <1>0, <1>3 DEF MutexInv
  <2>3. ~(inside[u][object[d]] > 0)
    BY <1>2, <1>3, <1>5, InsideOwns
  <2> QED
    BY <2>1, <2>2, <2>3
<1>b. object'[d] = obj[t] /\ \A e \in Records : e # d => object'[e] = object[e]
  BY <1>0, <1>1 DEF TypeOK
<1>6. TypeOK'
  BY <1>0, <1>1, <1>2, <1>3, <1>4 DEF TypeOK, PCs
<1>7. ListInv'
  BY <1>0, <1>1, <1>3, <1>4, <1>b DEF ListInv, OneRecordPerObject, TypeOK
<1>8. CountInv'
  <2>a. t \in Users(d)' /\ t \notin Users(d)
    BY <1>4, <1>5 DEF Users
  <2>b. \A u \in Threads \ {t} : lockCount'[u][d] = lockCount[u][d]
    BY <1>4
  <2>1. Cardinality(Users(d))' = Cardinality(Users(d)) + 1 /\ Cardinality(Users(d)) \in Nat
    BY <2>a, <2>b, UsersChange, UsersFinite
  <2>2. \A e \in Records : e # d => Users(e)' = Users(e)
    BY <1>4 DEF Users
  <2>3. threadCount'[d] = 1 /\ \A e \in Records : e # d => threadCount'[e] = threadCount[e]
    BY <1>0, <1>1 DEF TypeOK
  <2>4. Cardinality(Users(d)) <= 0
    BY <1>0, <1>2 DEF CountInv
  <2>5. \A e \in Records : threadCount'[e] \in Nat /\ Cardinality(Users(e))' <= threadCount'[e]
    BY <1>0, <2>1, <2>2, <2>3, <2>4 DEF CountInv
  <2>6. \A u \in Threads, e \in Records : lockCount'[u][e] > 0 => e \in list'
    BY <1>0, <1>1, <1>2, <1>4 DEF CountInv
  <2>7. \A u \in Threads, e \in Records : fast'[u] = e => lockCount'[u][e] > 0
    BY <1>0, <1>4 DEF CountInv
  <2> QED
    BY <2>5, <2>6, <2>7 DEF CountInv
<1>9. CallInv'
  BY <1>0, <1>1, <1>2, <1>3, <1>4, <1>5, <1>b DEF CallInv, TypeOK, Hits, Cached
<1>10. MutexInv'
  <2>1. \A e \in Records : owner'[e] = NoThread => depth'[e] = 0
    BY <1>0, <1>4 DEF MutexInv
  <2>2. \A u \in Threads, e \in Records : owner'[e] = u =>
          depth'[e] > 0 /\ depth'[e] = inside'[u][object'[e]] + Unlocking(u, e)'
    <3> SUFFICES ASSUME NEW u \in Threads, NEW e \in Records, owner[e] = u
                 PROVE  depth[e] > 0 /\ depth[e] = inside[u][object'[e]] + Unlocking(u, e)'
      BY <1>4
    <3>1. depth[e] > 0 /\ depth[e] = inside[u][object[e]] + Unlocking(u, e)
      BY <1>0 DEF MutexInv
    <3>2. Unlocking(u, e)' = Unlocking(u, e)
      BY <1>0, <1>3, <1>4 DEF Unlocking, TypeOK
    <3>3. inside[u][object'[e]] = inside[u][object[e]]
      BY <1>3, <1>a, <1>b
    <3> QED
      BY <3>1, <3>2, <3>3
  <2>3. \A u \in Threads, p \in Objects : inside'[u][p] > 0 =>
          \E e \in list' : object'[e] = p /\ owner'[e] = u /\ lockCount'[u][e] > 0
    <3> SUFFICES ASSUME NEW u \in Threads, NEW p \in Objects, inside[u][p] > 0
                 PROVE  \E e \in list' : object'[e] = p /\ owner[e] = u /\ lockCount'[u][e] > 0
      BY <1>4
    <3>1. PICK e \in list : object[e] = p /\ owner[e] = u /\ lockCount[u][e] > 0
      BY <1>0 DEF MutexInv
    <3>2. e # d /\ e \in Records /\ e \in list'
      BY <1>0, <1>1, <1>5, <3>1 DEF TypeOK
    <3> QED
      BY <1>4, <1>b, <3>1, <3>2
  <2>4. \A u \in Threads, e \in list' :
          lockCount'[u][e] > 0 => lockCount'[u][e] >= inside'[u][object'[e]] + Locking(u, e)'
    <3> SUFFICES ASSUME NEW u \in Threads, NEW e \in list', lockCount'[u][e] > 0
                 PROVE  lockCount'[u][e] >= inside[u][object'[e]] + Locking(u, e)'
      BY <1>4
    <3>1. CASE u = t /\ e = d
      BY <1>0, <1>2, <1>3, <1>4, <1>a, <1>b, <3>1 DEF Locking, TypeOK
    <3>2. CASE ~(u = t /\ e = d)
      <4>1. e \in Records /\ lockCount'[u][e] = lockCount[u][e]
        BY <1>0, <1>1, <1>4, <3>2 DEF TypeOK
      <4>2. e # d /\ e \in list
        BY <1>0, <1>1, <1>5, <4>1
      <4>3. Locking(u, e)' = Locking(u, e)
        BY <1>0, <1>2, <1>4, <4>1, <4>2 DEF Locking, TypeOK
      <4>4. lockCount[u][e] >= inside[u][object[e]] + Locking(u, e)
        BY <1>0, <4>1, <4>2 DEF MutexInv
      <4> QED
        BY <1>b, <4>1, <4>2, <4>3, <4>4
    <3> QED
      BY <3>1, <3>2
  <2> QED
    BY <2>1, <2>2, <2>3, <2>4 DEF MutexInv
<1> QED
  BY <1>6, <1>7, <1>8, <1>9, <1>10 DEF IndInv

\* A new record at the head of the list.
LEMMA NewRecordKeeps ==
  ASSUME IndInv, NEW t \in Threads, NEW d \in Records, NewRecord(t, d)
  PROVE  IndInv'
<1>0. TypeOK /\ ListInv /\ CountInv /\ CallInv /\ MutexInv
  BY DEF IndInv
<1>1. /\ object' = [object EXCEPT ![d] = obj[t]] /\ threadCount' = [threadCount EXCEPT ![d] = 1]
      /\ GotRecord(t, d) /\ list' = list \cup {d}
  BY DEF NewRecord
<1>2. pc[t] = "walk" /\ Matching(obj[t]) = {} /\ d \notin list
  BY DEF NewRecord
<1>3. obj[t] \in Objects /\ ~leaving[t] /\ (\A e \in list : object[e] # obj[t]) /\ owner[d] = NoThread
  BY <1>0, <1>2 DEF Matching, CallInv, ListInv
<1>4. /\ \A u \in Threads, e \in Records :
           lockCount'[u][e] = IF u = t /\ e = d THEN 1 ELSE lockCount[u][e]
      /\ \A u \in Threads, e \in Records : fast'[u] = e => fast[u] = e \/ (u = t /\ e = d)
      /\ lockCount' \in [Threads -> [Records -> Nat]] /\ allocated' \in [Threads -> Nat]
      /\ fast' \in [Threads -> Records \cup {NoRecord}]
      /\ rec' = [rec EXCEPT ![t] = d] /\ pc' = [pc EXCEPT ![t] = "lock"]
      /\ UNCHANGED <<owner, depth, obj, trying, inside, leaving>>
  BY <1>0, <1>1, <1>2, GotRecordFacts
<1>5. \A u \in Threads : lockCount[u][d] = 0
  BY <1>0, <1>2 DEF CountInv, TypeOK
<1>a. \A u \in Threads : inside[u][obj[t]] = 0
  <2> SUFFICES ASSUME NEW u \in Threads
               PROVE  inside[u][obj[t]] = 0
    OBVIOUS
  <2>1. inside[u][obj[t]] \in Nat
    BY <1>0, <1>3 DEF TypeOK
  <2>2. ~(inside[u][obj[t]] > 0)
    BY <1>0, <1>3 DEF MutexInv
  <2> QED
    BY <2>1, <2>2
<1>b. object'[d] = obj[t] /\ \A e \in Records : e # d => object'[e] = object[e]
  BY <1>0, <1>1 DEF TypeOK
<1>6. TypeOK'
  BY <1>0, <1>1, <1>2, <1>3, <1>4 DEF TypeOK, PCs
<1>7. ListInv'
  BY <1>0, <1>1, <1>3, <1>4, <1>b DEF ListInv, OneRecordPerObject, TypeOK
<1>8. CountInv'
  <2>1. Users(d)' = {t}
    BY <1>4, <1>5 DEF Users
  <2>2. Cardinality(Users(d))' = 1
    BY <2>1, FS_Singleton
  <2>3. \A e \in Records : e # d => Users(e)' = Users(e)
    BY <1>4 DEF Users
  <2>4. threadCount'[d] = 1 /\ \A e \in Records : e # d => threadCount'[e] = threadCount[e]
    BY <1>0, <1>1 DEF TypeOK
  <2>5. \A e \in Records : threadCount'[e] \in Nat /\ Cardinality(Users(e))' <= threadCount'[e]
    BY <1>0, <2>2, <2>3, <2>4 DEF CountInv
  <2>6. \A u \in Threads, e \in Records : lockCount'[u][e] > 0 => e \in list'
    BY <1>0, <1>1, <1>2, <1>4 DEF CountInv
  <2>7. \A u \in Threads, e \in Records : fast'[u] = e => lockCount'[u][e] > 0
    BY <1>0, <1>4 DEF CountInv
  <2> QED
    BY <2>5, <2>6, <2>7 DEF CountInv
<1>9. CallInv'
  BY <1>0, <1>1, <1>2, <1>3, <1>4, <1>5, <1>b DEF CallInv, TypeOK, Hits, Cached
<1>10. MutexInv'
  <2>1. \A e \in Records : owner'[e] = NoThread => depth'[e] = 0
    BY <1>0, <1>4 DEF MutexInv
  <2>2. \A u \in Threads, e \in Records : owner'[e] = u =>
          depth'[e] > 0 /\ depth'[e] = inside'[u][object'[e]] + Unlocking(u, e)'
    <3> SUFFICES ASSUME NEW u \in Threads, NEW e \in Records, owner[e] = u
                 PROVE  depth[e] > 0 /\ depth[e] = inside[u][object'[e]] + Unlocking(u, e)'
      BY <1>4
    <3>1. depth[e] > 0 /\ depth[e] = inside[u][object[e]] + Unlocking(u, e)
      BY <1>0 DEF MutexInv
    <3>2. Unlocking(u, e)' = Unlocking(u, e)
      BY <1>0, <1>3, <1>4 DEF Unlocking, TypeOK
    <3>3. inside[u][object'[e]] = inside[u][object[e]]
      BY <1>3, <1>a, <1>b, SyncAssumption
    <3> QED
      BY <3>1, <3>2, <3>3
  <2>3. \A u \in Threads, p \in Objects : inside'[u][p] > 0 =>
          \E e \in list' : object'[e] = p /\ owner'[e] = u /\ lockCount'[u][e] > 0
    <3> SUFFICES ASSUME NEW u \in Threads, NEW p \in Objects, inside[u][p] > 0
                 PROVE  \E e \in list' : object'[e] = p /\ owner[e] = u /\ lockCount'[u][e] > 0
      BY <1>4
    <3>1. PICK e \in list : object[e] = p /\ owner[e] = u /\ lockCount[u][e] > 0
      BY <1>0 DEF MutexInv
    <3>2. e # d /\ e \in Records /\ e \in list'
      BY <1>0, <1>1, <1>5, <3>1 DEF TypeOK
    <3> QED
      BY <1>4, <1>b, <3>1, <3>2
  <2>4. \A u \in Threads, e \in list' :
          lockCount'[u][e] > 0 => lockCount'[u][e] >= inside'[u][object'[e]] + Locking(u, e)'
    <3> SUFFICES ASSUME NEW u \in Threads, NEW e \in list', lockCount'[u][e] > 0
                 PROVE  lockCount'[u][e] >= inside[u][object'[e]] + Locking(u, e)'
      BY <1>4
    <3>1. CASE u = t /\ e = d
      BY <1>0, <1>2, <1>3, <1>4, <1>a, <1>b, <3>1 DEF Locking, TypeOK
    <3>2. CASE ~(u = t /\ e = d)
      <4>1. e \in Records /\ lockCount'[u][e] = lockCount[u][e]
        BY <1>0, <1>1, <1>4, <3>2 DEF TypeOK
      <4>2. e # d /\ e \in list
        BY <1>0, <1>1, <1>5, <4>1
      <4>3. Locking(u, e)' = Locking(u, e)
        BY <1>0, <1>2, <1>4, <4>1, <4>2 DEF Locking, TypeOK
      <4>4. lockCount[u][e] >= inside[u][object[e]] + Locking(u, e)
        BY <1>0, <4>1, <4>2 DEF MutexInv
      <4> QED
        BY <1>b, <4>1, <4>2, <4>3, <4>4
    <3> QED
      BY <3>1, <3>2
  <2> QED
    BY <2>1, <2>2, <2>3, <2>4 DEF MutexInv
<1> QED
  BY <1>6, <1>7, <1>8, <1>9, <1>10 DEF IndInv

\* What returning from a call leaves of it.
LEMMA ReturnFacts ==
  ASSUME TypeOK, NEW t \in Threads, Return(t)
  PROVE  /\ pc' \in [Threads -> PCs] /\ obj' \in [Threads -> Objects \cup {NoObject}]
         /\ rec' \in [Threads -> Records \cup {NoRecord}] /\ trying' \in [Threads -> BOOLEAN]
         /\ leaving' \in [Threads -> BOOLEAN]
         /\ pc'[t] = "idle" /\ ~leaving'[t]
         /\ \A u \in Threads \ {t} :
              pc'[u] = pc[u] /\ obj'[u] = obj[u] /\ rec'[u] = rec[u] /\ leaving'[u] = leaving[u]
  BY DEF Return, Goto, TypeOK, PCs

\* The thread locks the mutex and is in a block on the object.
LEMMA LockKeeps ==
  ASSUME IndInv, NEW t \in Threads, Lock(t)
  PROVE  IndInv'
<1>0. TypeOK /\ ListInv /\ CountInv /\ CallInv /\ MutexInv
  BY DEF IndInv
<1> DEFINE d == rec[t]
           o == obj[t]
<1>1. /\ owner' = [owner EXCEPT ![d] = t] /\ depth' = [depth EXCEPT ![d] = depth[d] + 1]
      /\ inside' = [inside EXCEPT ![t][o] = inside[t][o] + 1]
      /\ UNCHANGED <<list, object, threadCount, lockCount, fast, allocated>>
  BY DEF Lock, shared, caches
<1>2. pc[t] = "lock" /\ owner[d] \in {NoThread, t} /\ Return(t)
  BY DEF Lock, MutexIsOpen
<1>3. d \in list /\ d \in Records /\ o \in Objects /\ lockCount[t][d] > 0 /\ object[d] = o /\ ~leaving[t]
  BY <1>0, <1>2 DEF CallInv, TypeOK
<1>4. /\ pc' \in [Threads -> PCs] /\ obj' \in [Threads -> Objects \cup {NoObject}]
      /\ rec' \in [Threads -> Records \cup {NoRecord}] /\ trying' \in [Threads -> BOOLEAN]
      /\ leaving' \in [Threads -> BOOLEAN]
      /\ pc'[t] = "idle" /\ ~leaving'[t]
      /\ \A u \in Threads \ {t} :
           pc'[u] = pc[u] /\ obj'[u] = obj[u] /\ rec'[u] = rec[u] /\ leaving'[u] = leaving[u]
  BY <1>0, <1>2, ReturnFacts
<1>5. /\ \A e \in Records : owner'[e] = IF e = d THEN t ELSE owner[e]
      /\ \A e \in Records : depth'[e] = IF e = d THEN depth[d] + 1 ELSE depth[e]
      /\ \A u \in Threads, p \in Objects :
           inside'[u][p] = IF u = t /\ p = o THEN inside[t][o] + 1 ELSE inside[u][p]
  BY <1>0, <1>1, <1>3 DEF TypeOK
<1>6. /\ owner' \in [Records -> Threads \cup {NoThread}] /\ depth' \in [Records -> Nat]
      /\ inside' \in [Threads -> [Objects -> Nat]]
  BY <1>0, <1>1, <1>3 DEF TypeOK
<1>7. TypeOK'
  BY <1>0, <1>1, <1>4, <1>6 DEF TypeOK
<1>8. ListInv'
  BY <1>0, <1>1, <1>3, <1>5 DEF ListInv, OneRecordPerObject
<1>9. CountInv'
  BY <1>0, <1>1 DEF CountInv, Users
<1>10. CallInv'
  <2> SUFFICES ASSUME NEW u \in Threads
               PROVE  /\ pc'[u] # "idle" => obj'[u] \in Objects
                      /\ pc'[u] = "walk" => Hits(u, obj[u])' = {}
                      /\ pc'[u] = "lock" => /\ rec'[u] \in list' /\ lockCount'[u][rec'[u]] > 0
                                            /\ object'[rec'[u]] = obj'[u]
                      /\ pc'[u] = "unlock" => rec'[u] \in list' /\ (leaving'[u] <=> owner'[rec'[u]] = u)
                      /\ leaving'[u] => pc'[u] = "unlock"
    BY DEF CallInv
  <2>1. CASE u = t
    BY <1>4, <2>1
  <2>2. CASE u # t
    <3>1. pc[u] = "unlock" => rec[u] \in Records /\ (owner'[rec[u]] = u <=> owner[rec[u]] = u)
      BY <1>0, <1>2, <1>5, <2>2, SyncAssumption DEF CallInv, TypeOK
    <3> QED
      BY <1>0, <1>1, <1>4, <2>2, <3>1 DEF CallInv, Hits, Cached
  <2> QED
    BY <2>1, <2>2
<1>11. inside[t][o] \in Nat /\ depth[d] \in Nat /\ depth[d] = inside[t][o]
  <2>1. inside[t][o] \in Nat /\ depth[d] \in Nat
    BY <1>0, <1>3 DEF TypeOK
  <2>2. CASE owner[d] = t
    BY <1>0, <1>3, <2>1, <2>2 DEF MutexInv, Unlocking
  <2>3. CASE owner[d] = NoThread
    <3>1. ~(inside[t][o] > 0)
      <4> SUFFICES ASSUME inside[t][o] > 0 PROVE FALSE
        OBVIOUS
      <4>1. PICK e \in list : object[e] = o /\ owner[e] = t
        BY <1>0, <1>3 DEF MutexInv
      <4>2. e = d
        BY <1>0, <1>3, <4>1 DEF ListInv, OneRecordPerObject
      <4> QED
        BY <2>3, <4>1, <4>2, SyncAssumption
    <3> QED
      BY <1>0, <1>3, <2>1, <2>3, <3>1 DEF MutexInv
  <2> QED
    BY <1>2, <2>2, <2>3
<1>12. MutexInv'
  <2>1. \A e \in Records : owner'[e] = NoThread => depth'[e] = 0
    BY <1>0, <1>5, SyncAssumption DEF MutexInv
  <2>2. \A u \in Threads, e \in Records : owner'[e] = u =>
          depth'[e] > 0 /\ depth'[e] = inside'[u][object'[e]] + Unlocking(u, e)'
    <3> SUFFICES ASSUME NEW u \in Threads, NEW e \in Records, owner'[e] = u
                 PROVE  depth'[e] > 0 /\ depth'[e] = inside'[u][object[e]] + Unlocking(u, e)'
      BY <1>1
    <3>1. CASE e = d
      BY <1>3, <1>4, <1>5, <1>11, <3>1 DEF Unlocking
    <3>2. CASE e # d
      <4>1. owner[e] = u /\ depth'[e] = depth[e]
        BY <1>5, <3>2
      <4>2. depth[e] > 0 /\ depth[e] = inside[u][object[e]] + Unlocking(u, e)
        BY <1>0, <4>1 DEF MutexInv
      <4>3. Unlocking(u, e)' = Unlocking(u, e)
        BY <1>3, <1>4 DEF Unlocking
      <4>4. e \in list /\ object[e] \in Objects /\ object[e] # o
        BY <1>0, <1>3, <3>2, <4>1, SyncAssumption DEF ListInv, OneRecordPerObject
      <4>5. inside'[u][object[e]] = inside[u][object[e]]
        BY <1>5, <4>4
      <4> QED
        BY <4>1, <4>2, <4>3, <4>5
    <3> QED
      BY <3>1, <3>2
  <2>3. \A u \in Threads, p \in Objects : inside'[u][p] > 0 =>
          \E e \in list' : object'[e] = p /\ owner'[e] = u /\ lockCount'[u][e] > 0
    <3> SUFFICES ASSUME NEW u \in Threads, NEW p \in Objects, inside'[u][p] > 0
                 PROVE  \E e \in list : object[e] = p /\ owner'[e] = u /\ lockCount[u][e] > 0
      BY <1>1
    <3>1. CASE u = t /\ p = o
      BY <1>3, <1>5, <3>1
    <3>2. CASE ~(u = t /\ p = o)
      <4>1. PICK e \in list : object[e] = p /\ owner[e] = u /\ lockCount[u][e] > 0
        BY <1>0, <1>5, <3>2 DEF MutexInv
      <4>2. e \in Records /\ (e = d => u = t)
        BY <1>0, <1>2, <4>1, SyncAssumption DEF TypeOK
      <4> QED
        BY <1>5, <4>1, <4>2
    <3> QED
      BY <3>1, <3>2
  <2>4. \A u \in Threads, e \in list' :
          lockCount'[u][e] > 0 => lockCount'[u][e] >= inside'[u][object'[e]] + Locking(u, e)'
    <3> SUFFICES ASSUME NEW u \in Threads, NEW e \in list, lockCount[u][e] > 0
                 PROVE  lockCount[u][e] >= inside'[u][object[e]] + Locking(u, e)'
      BY <1>1
    <3>1. lockCount[u][e] >= inside[u][object[e]] + Locking(u, e)
      BY <1>0 DEF MutexInv
    <3>2. object[e] \in Objects /\ e \in Records /\ lockCount[u][e] \in Nat /\ inside[u][object[e]] \in Nat
      BY <1>0 DEF ListInv, TypeOK
    <3>3. CASE u = t /\ e = d
      <4>1. Locking(u, e) = 1 /\ Locking(u, e)' = 0 /\ inside'[u][object[e]] = inside[u][object[e]] + 1
        BY <1>2, <1>3, <1>4, <1>5, <3>3 DEF Locking
      <4> QED
        BY <3>1, <3>2, <4>1
    <3>4. CASE u # t
      <4>1. Locking(u, e)' = Locking(u, e) /\ inside'[u][object[e]] = inside[u][object[e]]
        BY <1>4, <1>5, <3>2, <3>4 DEF Locking
      <4> QED
        BY <3>1, <4>1
    <3>5. CASE u = t /\ e # d
      <4>1. object[e] # o
        BY <1>0, <1>3, <3>5 DEF ListInv, OneRecordPerObject
      <4>2. Locking(u, e) = 0 /\ Locking(u, e)' = 0 /\ inside'[u][object[e]] = inside[u][object[e]]
        BY <1>4, <1>5, <3>2, <3>5, <4>1 DEF Locking
      <4> QED
        BY <3>1, <4>2
    <3> QED
      BY <3>3, <3>4, <3>5
  <2> QED
    BY <2>1, <2>2, <2>3, <2>4 DEF MutexInv
<1> QED
  BY <1>7, <1>8, <1>9, <1>10, <1>12 DEF IndInv

\* A try that finds the mutex closed returns and keeps its cache entry.
LEMMA TryLockFailsKeeps ==
  ASSUME IndInv, NEW t \in Threads, TryLockFails(t)
  PROVE  IndInv'
<1>0. TypeOK /\ ListInv /\ CountInv /\ CallInv /\ MutexInv
  BY DEF IndInv
<1>1. UNCHANGED <<list, object, threadCount, owner, depth, lockCount, fast, allocated, inside>>
  BY DEF TryLockFails, shared, mutexes, caches
<1>2. pc[t] = "lock" /\ Return(t)
  BY DEF TryLockFails
<1>3. ~leaving[t]
  BY <1>0, <1>2 DEF CallInv
<1>4. /\ pc' \in [Threads -> PCs] /\ obj' \in [Threads -> Objects \cup {NoObject}]
      /\ rec' \in [Threads -> Records \cup {NoRecord}] /\ trying' \in [Threads -> BOOLEAN]
      /\ leaving' \in [Threads -> BOOLEAN]
      /\ pc'[t] = "idle" /\ ~leaving'[t]
      /\ \A u \in Threads \ {t} :
           pc'[u] = pc[u] /\ obj'[u] = obj[u] /\ rec'[u] = rec[u] /\ leaving'[u] = leaving[u]
  BY <1>0, <1>2, ReturnFacts
<1>7. TypeOK'
  BY <1>0, <1>1, <1>4 DEF TypeOK
<1>8. ListInv' /\ CountInv'
  BY <1>0, <1>1 DEF ListInv, OneRecordPerObject, CountInv, Users
<1>10. CallInv'
  BY <1>0, <1>1, <1>4 DEF CallInv, Hits, Cached
<1>11. /\ \A u \in Threads, e \in Records : Unlocking(u, e)' = Unlocking(u, e)
       /\ \A u \in Threads, e \in Records : Locking(u, e)' \in {0, Locking(u, e)} /\ Locking(u, e) \in {0, 1}
  BY <1>3, <1>4 DEF Unlocking, Locking
<1>12. MutexInv'
  <2>1. /\ \A e \in Records : owner'[e] = NoThread => depth'[e] = 0
        /\ \A u \in Threads, e \in Records : owner'[e] = u =>
             depth'[e] > 0 /\ depth'[e] = inside'[u][object'[e]] + Unlocking(u, e)'
    BY <1>0, <1>1, <1>11 DEF MutexInv
  <2>2. \A u \in Threads, p \in Objects : inside'[u][p] > 0 =>
          \E e \in list' : object'[e] = p /\ owner'[e] = u /\ lockCount'[u][e] > 0
    BY <1>0, <1>1 DEF MutexInv
  <2>3. \A u \in Threads, e \in list' :
          lockCount'[u][e] > 0 => lockCount'[u][e] >= inside'[u][object'[e]] + Locking(u, e)'
    <3> SUFFICES ASSUME NEW u \in Threads, NEW e \in list, lockCount[u][e] > 0
                 PROVE  lockCount[u][e] >= inside[u][object[e]] + Locking(u, e)'
      BY <1>1
    <3>1. lockCount[u][e] >= inside[u][object[e]] + Locking(u, e)
      BY <1>0 DEF MutexInv
    <3>2. e \in Records /\ lockCount[u][e] \in Nat /\ inside[u][object[e]] \in Nat
      BY <1>0 DEF ListInv, TypeOK
    <3> QED
      BY <1>11, <3>1, <3>2
  <2> QED
    BY <2>1, <2>2, <2>3 DEF MutexInv
<1> QED
  BY <1>7, <1>8, <1>10, <1>12 DEF IndInv

\* An exit that finds the record in the thread's cache; the thread is uncounted
\* with its last lock, while it still owns the mutex.
LEMMA ReleaseCachedKeeps ==
  ASSUME IndInv, NEW t \in Threads, NEW o \in Objects, ReleaseCached(t, o)
  PROVE  IndInv'
<1>0. TypeOK /\ ListInv /\ CountInv /\ CallInv /\ MutexInv
  BY DEF IndInv
<1>1. PICK d \in Hits(t, o) :
        /\ lockCount' = [lockCount EXCEPT ![t][d] = lockCount[t][d] - 1]
        /\ fast' = [fast EXCEPT ![t] = IF lockCount[t][d] = 1 /\ fast[t] = d THEN NoRecord ELSE fast[t]]
        /\ threadCount' = IF lockCount[t][d] = 1
                          THEN [threadCount EXCEPT ![d] = threadCount[d] - 1] ELSE threadCount
        /\ rec' = [rec EXCEPT ![t] = d]
  BY DEF ReleaseCached
<1>2. /\ pc[t] = "idle" /\ pc' = [pc EXCEPT ![t] = "unlock"]
      /\ obj' = [obj EXCEPT ![t] = o] /\ trying' = [trying EXCEPT ![t] = FALSE]
      /\ inside' = [inside EXCEPT ![t][o] = IF inside[t][o] > 0 THEN inside[t][o] - 1 ELSE 0]
      /\ leaving' = [leaving EXCEPT ![t] = inside[t][o] > 0]
      /\ UNCHANGED <<list, object, owner, depth>>
  BY DEF ReleaseCached, MayExit, Idle, Goto, Begin, Leave, mutexes
<1>3. d \in Records /\ lockCount[t][d] > 0 /\ object[d] = o /\ d \in list /\ ~leaving[t]
  BY <1>0, <1>1, <1>2 DEF Hits, Cached, CountInv, CallInv
<1>a. lockCount[t][d] \in Nat \ {0} /\ inside[t][o] \in Nat /\ threadCount[d] \in Nat
  BY <1>0, <1>3 DEF TypeOK, CountInv
<1>b. threadCount[d] > 0
  BY <1>3, CachedIsCounted
<1>4. /\ \A u \in Threads, e \in Records :
           lockCount'[u][e] = IF u = t /\ e = d THEN lockCount[t][d] - 1 ELSE lockCount[u][e]
      /\ \A u \in Threads, p \in Objects :
           inside'[u][p] = IF u = t /\ p = o /\ inside[t][o] > 0 THEN inside[t][o] - 1 ELSE inside[u][p]
  BY <1>0, <1>1, <1>2, <1>3, <1>a DEF TypeOK
<1>5. /\ \A u \in Threads : pc'[u] = IF u = t THEN "unlock" ELSE pc[u]
      /\ \A u \in Threads : obj'[u] = IF u = t THEN o ELSE obj[u]
      /\ \A u \in Threads : rec'[u] = IF u = t THEN d ELSE rec[u]
  BY <1>0, <1>1, <1>2 DEF TypeOK
<1>c. (leaving'[t] <=> inside[t][o] > 0) /\ \A u \in Threads \ {t} : leaving'[u] = leaving[u]
  BY <1>0, <1>2 DEF TypeOK
<1>6. inside[t][o] > 0 <=> owner[d] = t
  <2>1. inside[t][o] > 0 => owner[d] = t
    BY <1>0, <1>3 DEF MutexInv, ListInv, OneRecordPerObject
  <2>2. owner[d] = t => inside[t][o] > 0
    BY <1>0, <1>3, <1>a DEF MutexInv, Unlocking
  <2> QED
    BY <2>1, <2>2
<1>7. TypeOK'
  <2>1. lockCount' \in [Threads -> [Records -> Nat]]
    BY <1>0, <1>1, <1>3, <1>a DEF TypeOK
  <2>2. inside' \in [Threads -> [Objects -> Nat]]
    BY <1>0, <1>2, <1>a DEF TypeOK
  <2>3. leaving' \in [Threads -> BOOLEAN] /\ trying' \in [Threads -> BOOLEAN]
    BY <1>0, <1>2 DEF TypeOK
  <2>4. threadCount' \in [Records -> Int] /\ fast' \in [Threads -> Records \cup {NoRecord}]
    BY <1>0, <1>1, <1>3, <1>a DEF TypeOK
  <2>5. allocated' \in [Threads -> Nat]
    BY <1>0 DEF ReleaseCached, FetchCache, Grown, TypeOK
  <2>6. /\ pc' \in [Threads -> PCs] /\ obj' \in [Threads -> Objects \cup {NoObject}]
        /\ rec' \in [Threads -> Records \cup {NoRecord}]
    BY <1>0, <1>1, <1>2, <1>3 DEF TypeOK, PCs
  <2> QED
    BY <1>0, <1>2, <2>1, <2>2, <2>3, <2>4, <2>5, <2>6 DEF TypeOK
<1>8. ListInv'
  BY <1>0, <1>2 DEF ListInv, OneRecordPerObject
<1>9. CountInv'
  <2>1. \A e \in Records : e # d => Users(e)' = Users(e) /\ threadCount'[e] = threadCount[e]
    BY <1>0, <1>1, <1>3, <1>4 DEF Users, TypeOK
  <2>2. \A u \in Threads \ {t} : lockCount'[u][d] = lockCount[u][d]
    BY <1>3, <1>4
  <2>3. threadCount'[d] \in Nat /\ Cardinality(Users(d))' <= threadCount'[d]
    <3>1. Cardinality(Users(d)) \in Nat /\ Cardinality(Users(d)) <= threadCount[d]
      BY <1>0, <1>3, UsersFinite DEF CountInv
    <3>2. t \in Users(d)
      BY <1>3 DEF Users
    <3>3. CASE lockCount[t][d] = 1
      <4>1. t \notin Users(d)'
        BY <1>3, <1>4, <3>3 DEF Users
      <4>2. Cardinality(Users(d))' = Cardinality(Users(d)) - 1
        BY <2>2, <3>2, <4>1, UsersChange
      <4>3. threadCount'[d] = threadCount[d] - 1
        BY <1>0, <1>1, <1>3, <3>3 DEF TypeOK
      <4> QED
        BY <1>a, <1>b, <3>1, <4>2, <4>3
    <3>4. CASE lockCount[t][d] # 1
      <4>1. lockCount'[t][d] > 0
        BY <1>3, <1>4, <1>a, <3>4
      <4>2. t \in Users(d)'
        BY <4>1 DEF Users
      <4>3. Cardinality(Users(d))' = Cardinality(Users(d))
        BY <2>2, <3>2, <4>2, UsersChange
      <4> QED
        BY <1>1, <1>a, <3>1, <3>4, <4>3
    <3> QED
      BY <3>3, <3>4
  <2>4. \A e \in Records : threadCount'[e] \in Nat /\ Cardinality(Users(e))' <= threadCount'[e]
    BY <1>0, <2>1, <2>3 DEF CountInv
  <2>5. \A u \in Threads, e \in Records : lockCount'[u][e] > 0 => e \in list'
    BY <1>0, <1>2, <1>3, <1>4 DEF CountInv
  <2>6. \A u \in Threads, e \in Records : fast'[u] = e => lockCount'[u][e] > 0
    <3> SUFFICES ASSUME NEW u \in Threads, NEW e \in Records, fast'[u] = e
                 PROVE  lockCount'[u][e] > 0
      OBVIOUS
    <3>1. fast[u] = e /\ ~(u = t /\ e = d /\ lockCount[t][d] = 1)
      BY <1>0, <1>1, SyncAssumption DEF TypeOK
    <3>2. lockCount[u][e] > 0
      BY <1>0, <3>1 DEF CountInv
    <3> QED
      BY <1>4, <1>a, <3>1, <3>2
  <2> QED
    BY <2>4, <2>5, <2>6 DEF CountInv
<1>10. CallInv'
  <2> SUFFICES ASSUME NEW u \in Threads
               PROVE  /\ pc'[u] # "idle" => obj'[u] \in Objects
                      /\ pc'[u] = "walk" => Hits(u, obj[u])' = {}
                      /\ pc'[u] = "lock" => /\ rec'[u] \in list' /\ lockCount'[u][rec'[u]] > 0
                                            /\ object'[rec'[u]] = obj'[u]
                      /\ pc'[u] = "unlock" => rec'[u] \in list' /\ (leaving'[u] <=> owner'[rec'[u]] = u)
                      /\ leaving'[u] => pc'[u] = "unlock"
    BY DEF CallInv
  <2>1. CASE u = t
    BY <1>2, <1>3, <1>5, <1>6, <1>c, <2>1
  <2>2. CASE u # t
    <3>1. \A e \in Records : lockCount'[u][e] = lockCount[u][e]
      BY <1>4, <2>2
    <3>2. Hits(u, obj[u])' = Hits(u, obj[u])
      BY <1>2, <1>5, <2>2, <3>1 DEF Hits, Cached
    <3> QED
      BY <1>0, <1>2, <1>5, <1>c, <2>2, <3>1, <3>2 DEF CallInv, TypeOK
  <2> QED
    BY <2>1, <2>2
<1>11. MutexInv'
  <2>1. \A e \in Records : owner'[e] = NoThread => depth'[e] = 0
    BY <1>0, <1>2 DEF MutexInv
  <2>2. \A u \in Threads, e \in Records : owner'[e] = u =>
          depth'[e] > 0 /\ depth'[e] = inside'[u][object'[e]] + Unlocking(u, e)'
    <3> SUFFICES ASSUME NEW u \in Threads, NEW e \in Records, owner[e] = u
                 PROVE  depth[e] > 0 /\ depth[e] = inside'[u][object[e]] + Unlocking(u, e)'
      BY <1>2
    <3>1. depth[e] > 0 /\ depth[e] = inside[u][object[e]] + Unlocking(u, e)
      BY <1>0 DEF MutexInv
    <3>2. CASE u # t
      <4>1. Unlocking(u, e)' = Unlocking(u, e)
        BY <1>5, <1>c, <3>2 DEF Unlocking
      <4>2. e \in list /\ object[e] \in Objects
        BY <1>0, SyncAssumption DEF ListInv
      <4> QED
        BY <1>4, <3>1, <3>2, <4>1, <4>2
    <3>3. CASE u = t /\ e = d
      <4>1. Unlocking(u, e) = 0 /\ Unlocking(u, e)' = 1
        BY <1>3, <1>5, <1>6, <1>c, <3>3 DEF Unlocking
      <4>2. inside'[u][object[e]] = inside[u][object[e]] - 1
        BY <1>3, <1>4, <1>6, <3>3
      <4> QED
        BY <1>3, <1>a, <3>1, <3>3, <4>1, <4>2
    <3>4. CASE u = t /\ e # d
      <4>1. e \in list /\ object[e] \in Objects /\ object[e] # o
        BY <1>0, <1>3, <3>4, SyncAssumption DEF ListInv, OneRecordPerObject
      <4>2. Unlocking(u, e) = 0 /\ Unlocking(u, e)' = 0
        BY <1>3, <1>5, <3>4 DEF Unlocking
      <4> QED
        BY <1>4, <3>1, <4>1, <4>2
    <3> QED
      BY <3>2, <3>3, <3>4
  <2>3. \A u \in Threads, p \in Objects : inside'[u][p] > 0 =>
          \E e \in list' : object'[e] = p /\ owner'[e] = u /\ lockCount'[u][e] > 0
    <3> SUFFICES ASSUME NEW u \in Threads, NEW p \in Objects, inside'[u][p] > 0
                 PROVE  \E e \in list : object[e] = p /\ owner[e] = u /\ lockCount'[u][e] > 0
      BY <1>2
    <3>1. CASE u = t /\ p = o
      <4>1. inside[t][o] > 1
        BY <1>4, <1>a, <3>1
      <4>2. lockCount[t][d] >= inside[t][o] + Locking(t, d) /\ Locking(t, d) = 0
        BY <1>0, <1>2, <1>3 DEF MutexInv, Locking
      <4>3. lockCount'[t][d] > 0
        BY <1>3, <1>4, <1>a, <4>1, <4>2
      <4> QED
        BY <1>3, <1>6, <1>a, <3>1, <4>1, <4>3
    <3>2. CASE ~(u = t /\ p = o)
      <4>1. inside[u][p] > 0
        BY <1>4, <3>2
      <4>2. PICK e \in list : object[e] = p /\ owner[e] = u /\ lockCount[u][e] > 0
        BY <1>0, <4>1 DEF MutexInv
      <4>3. lockCount'[u][e] = lockCount[u][e]
        BY <1>0, <1>3, <1>4, <3>2, <4>2 DEF TypeOK
      <4> QED
        BY <4>2, <4>3
    <3> QED
      BY <3>1, <3>2
  <2>4. \A u \in Threads, e \in list' :
          lockCount'[u][e] > 0 => lockCount'[u][e] >= inside'[u][object'[e]] + Locking(u, e)'
    <3> SUFFICES ASSUME NEW u \in Threads, NEW e \in list, lockCount'[u][e] > 0
                 PROVE  lockCount'[u][e] >= inside'[u][object[e]] + Locking(u, e)'
      BY <1>2
    <3>1. object[e] \in Objects /\ e \in Records
      BY <1>0 DEF ListInv, TypeOK
    <3>2. Locking(u, e)' = Locking(u, e)
      BY <1>2, <1>5 DEF Locking
    <3>3. lockCount[u][e] > 0 => lockCount[u][e] >= inside[u][object[e]] + Locking(u, e)
      BY <1>0 DEF MutexInv
    <3>4. CASE u = t /\ e = d
      <4>1. Locking(u, e) = 0
        BY <1>2, <3>4 DEF Locking
      <4>2. lockCount'[u][e] = lockCount[u][e] - 1
        BY <1>3, <1>4, <3>4
      <4>3. CASE inside[t][o] > 0
        BY <1>3, <1>4, <1>a, <3>2, <3>3, <3>4, <4>1, <4>2, <4>3
      <4>4. CASE ~(inside[t][o] > 0)
        BY <1>3, <1>4, <1>a, <3>2, <3>3, <3>4, <4>1, <4>2, <4>4
      <4> QED
        BY <4>3, <4>4
    <3>5. CASE ~(u = t /\ e = d)
      <4>1. ~(u = t /\ object[e] = o)
        BY <1>0, <1>3, <3>5 DEF ListInv, OneRecordPerObject
      <4> QED
        BY <1>4, <3>1, <3>2, <3>3, <3>5, <4>1
    <3> QED
      BY <3>4, <3>5
  <2> QED
    BY <2>1, <2>2, <2>3, <2>4 DEF MutexInv
<1> QED
  BY <1>7, <1>8, <1>9, <1>10, <1>11 DEF IndInv

\* An exit without a cache entry is a stray: the thread is in no block on the
\* object.
LEMMA ReleaseMissKeeps ==
  ASSUME IndInv, NEW t \in Threads, NEW o \in Objects, ReleaseMiss(t, o)
  PROVE  IndInv' /\ inside' = inside
<1>0. TypeOK /\ ListInv /\ CountInv /\ CallInv /\ MutexInv
  BY DEF IndInv
<1>1. inside[t][o] = 0
  <2>1. ~(inside[t][o] > 0)
    BY <1>0 DEF ReleaseMiss, MutexInv, Hits, Cached, TypeOK
  <2> QED
    BY <1>0, <2>1 DEF TypeOK
<1>2. /\ pc[t] = "idle" /\ pc' = [pc EXCEPT ![t] = "exit_walk"]
      /\ obj' = [obj EXCEPT ![t] = o] /\ trying' = [trying EXCEPT ![t] = FALSE]
      /\ leaving' = [leaving EXCEPT ![t] = inside[t][o] > 0]
      /\ UNCHANGED <<list, object, threadCount, owner, depth, lockCount, fast, rec>>
  BY DEF ReleaseMiss, MayExit, Idle, Goto, Begin, Leave, shared, mutexes
<1>3. inside' = inside
  BY <1>0, <1>1 DEF ReleaseMiss, Leave, TypeOK
<1>4. leaving' = leaving
  <2>1. leaving[t] = FALSE
    BY <1>0, <1>2 DEF CallInv, TypeOK
  <2>2. (inside[t][o] > 0) = FALSE
    BY <1>1
  <2> QED
    BY <1>0, <1>2, <2>1, <2>2 DEF TypeOK
<1>5. allocated' \in [Threads -> Nat]
  BY <1>0 DEF ReleaseMiss, FetchCache, Grown, TypeOK
<1>6. TypeOK'
  BY <1>0, <1>2, <1>3, <1>4, <1>5 DEF TypeOK, PCs
<1>7. ListInv' /\ CountInv'
  BY <1>0, <1>2 DEF ListInv, OneRecordPerObject, CountInv, Users
<1>9. CallInv'
  BY <1>0, <1>2, <1>4 DEF CallInv, TypeOK, Hits, Cached
<1>10. MutexInv'
  BY <1>0, <1>2, <1>3, <1>4 DEF MutexInv, TypeOK, Unlocking, Locking
<1> QED
  BY <1>3, <1>6, <1>7, <1>9, <1>10 DEF IndInv

\* The walk of a stray exit leaves a count too high, which is harmless here.
LEMMA ReleaseWalkKeeps ==
  ASSUME IndInv, NEW t \in Threads, ReleaseWalk(t)
  PROVE  IndInv'
<1>0. TypeOK /\ ListInv /\ CountInv /\ CallInv /\ MutexInv
  BY DEF IndInv
<1>1. UNCHANGED <<list, object, owner, depth, lockCount, fast, allocated, inside>>
  BY DEF ReleaseWalk, mutexes, caches
<1>2. pc[t] = "exit_walk" /\ Return(t)
  BY DEF ReleaseWalk
<1>3. ~leaving[t]
  BY <1>0, <1>2 DEF CallInv
<1>4. /\ pc' \in [Threads -> PCs] /\ obj' \in [Threads -> Objects \cup {NoObject}]
      /\ rec' \in [Threads -> Records \cup {NoRecord}] /\ trying' \in [Threads -> BOOLEAN]
      /\ leaving' \in [Threads -> BOOLEAN]
      /\ pc'[t] = "idle" /\ ~leaving'[t]
      /\ \A u \in Threads \ {t} :
           pc'[u] = pc[u] /\ obj'[u] = obj[u] /\ rec'[u] = rec[u] /\ leaving'[u] = leaving[u]
  BY <1>0, <1>2, ReturnFacts
<1>5. /\ threadCount' \in [Records -> Int]
      /\ \A d \in Records : threadCount'[d] \in {threadCount[d], threadCount[d] + 1}
  BY <1>0 DEF ReleaseWalk, TypeOK
<1>7. TypeOK'
  BY <1>0, <1>1, <1>4, <1>5 DEF TypeOK
<1>8. ListInv'
  BY <1>0, <1>1 DEF ListInv, OneRecordPerObject
<1>9. CountInv'
  <2>1. \A d \in Records : Users(d)' = Users(d) /\ Cardinality(Users(d)) \in Nat
    BY <1>1, UsersFinite DEF Users
  <2>2. \A d \in Records : threadCount'[d] \in Nat /\ Cardinality(Users(d))' <= threadCount'[d]
    BY <1>0, <1>5, <2>1 DEF CountInv
  <2> QED
    BY <1>0, <1>1, <2>2 DEF CountInv
<1>10. CallInv'
  BY <1>0, <1>1, <1>4 DEF CallInv, Hits, Cached
<1>11. \A u \in Threads, e \in Records :
         Unlocking(u, e)' = Unlocking(u, e) /\ Locking(u, e)' = Locking(u, e)
  BY <1>2, <1>3, <1>4 DEF Unlocking, Locking
<1>12. MutexInv'
  BY <1>0, <1>1, <1>11 DEF MutexInv, TypeOK
<1> QED
  BY <1>7, <1>8, <1>9, <1>10, <1>12 DEF IndInv

\* The mutex is unlocked once, by the thread that owns it or not at all.
LEMMA UnlockKeeps ==
  ASSUME IndInv, NEW t \in Threads, Unlock(t)
  PROVE  IndInv'
<1>0. TypeOK /\ ListInv /\ CountInv /\ CallInv /\ MutexInv
  BY DEF IndInv
<1> DEFINE d == rec[t]
<1>1. UNCHANGED <<list, object, threadCount, lockCount, fast, allocated, inside>>
  BY DEF Unlock, shared, caches
<1>2. pc[t] = "unlock" /\ Return(t)
  BY DEF Unlock
<1>3. d \in list /\ d \in Records /\ (leaving[t] <=> owner[d] = t)
  BY <1>0, <1>2 DEF CallInv, TypeOK
<1>4. /\ pc' \in [Threads -> PCs] /\ obj' \in [Threads -> Objects \cup {NoObject}]
      /\ rec' \in [Threads -> Records \cup {NoRecord}] /\ trying' \in [Threads -> BOOLEAN]
      /\ leaving' \in [Threads -> BOOLEAN]
      /\ pc'[t] = "idle" /\ ~leaving'[t]
      /\ \A u \in Threads \ {t} :
           pc'[u] = pc[u] /\ obj'[u] = obj[u] /\ rec'[u] = rec[u] /\ leaving'[u] = leaving[u]
  BY <1>0, <1>2, ReturnFacts
<1>5. \A u \in Threads, e \in Records : Locking(u, e)' = Locking(u, e)
  BY <1>2, <1>4 DEF Locking
<1>6. \A u \in Threads, e \in Records : u # t => Unlocking(u, e)' = Unlocking(u, e)
  BY <1>4 DEF Unlocking
<1>7. \A e \in Records : Unlocking(t, e)' = 0
  BY <1>4 DEF Unlocking
<1>8. CountInv'
  BY <1>0, <1>1 DEF CountInv, Users
<1>9. CASE owner[d] = t
  <2>1. /\ depth' = [depth EXCEPT ![d] = depth[d] - 1]
        /\ owner' = [owner EXCEPT ![d] = IF depth[d] = 1 THEN NoThread ELSE t]
    BY <1>9 DEF Unlock
  <2>2. object[d] \in Objects /\ inside[t][object[d]] \in Nat /\ depth[d] \in Nat
    BY <1>0, <1>3 DEF ListInv, TypeOK
  <2>3. depth[d] > 0 /\ depth[d] = inside[t][object[d]] + 1
    BY <1>0, <1>3, <1>9, <2>2 DEF MutexInv, Unlocking
  <2>4. /\ \A e \in Records : depth'[e] = IF e = d THEN inside[t][object[d]] ELSE depth[e]
        /\ \A e \in Records : e # d => owner'[e] = owner[e]
        /\ inside[t][object[d]] = 0 => owner'[d] = NoThread
        /\ inside[t][object[d]] # 0 => owner'[d] = t
    BY <1>0, <1>3, <2>1, <2>2, <2>3 DEF TypeOK
  <2>5. TypeOK'
    <3>1. depth[d] - 1 \in Nat /\ (IF depth[d] = 1 THEN NoThread ELSE t) \in Threads \cup {NoThread}
      BY <2>2, <2>3
    <3>2. depth' \in [Records -> Nat] /\ owner' \in [Records -> Threads \cup {NoThread}]
      BY <1>0, <2>1, <3>1 DEF TypeOK
    <3> QED
      BY <1>0, <1>1, <1>4, <3>2 DEF TypeOK
  <2>6. ListInv'
    BY <1>0, <1>1, <1>3, <2>4 DEF ListInv, OneRecordPerObject
  <2>7. CallInv'
    <3> SUFFICES ASSUME NEW u \in Threads
                 PROVE  /\ pc'[u] # "idle" => obj'[u] \in Objects
                        /\ pc'[u] = "walk" => Hits(u, obj[u])' = {}
                        /\ pc'[u] = "lock" => /\ rec'[u] \in list' /\ lockCount'[u][rec'[u]] > 0
                                              /\ object'[rec'[u]] = obj'[u]
                        /\ pc'[u] = "unlock" => rec'[u] \in list' /\ (leaving'[u] <=> owner'[rec'[u]] = u)
                        /\ leaving'[u] => pc'[u] = "unlock"
      BY DEF CallInv
    <3>1. CASE u = t
      BY <1>4, <3>1
    <3>2. CASE u # t
      <4>1. pc[u] = "unlock" => (owner'[rec[u]] = u <=> owner[rec[u]] = u)
        BY <1>0, <1>3, <1>9, <2>2, <2>4, <3>2, SyncAssumption DEF CallInv, TypeOK
      <4> QED
        BY <1>0, <1>1, <1>4, <3>2, <4>1 DEF CallInv, Hits, Cached
    <3> QED
      BY <3>1, <3>2
  <2>8. MutexInv'
    <3>1. \A e \in Records : owner'[e] = NoThread => depth'[e] = 0
      BY <1>0, <2>2, <2>4, SyncAssumption DEF MutexInv
    <3>2. \A u \in Threads, e \in Records : owner'[e] = u =>
            depth'[e] > 0 /\ depth'[e] = inside'[u][object'[e]] + Unlocking(u, e)'
      <4> SUFFICES ASSUME NEW u \in Threads, NEW e \in Records, owner'[e] = u
                   PROVE  depth'[e] > 0 /\ depth'[e] = inside[u][object[e]] + Unlocking(u, e)'
        BY <1>1
      <4>1. CASE e = d
        <5>1. u = t /\ inside[t][object[d]] # 0
          BY <2>2, <2>4, <4>1, SyncAssumption
        <5> QED
          BY <1>7, <2>2, <2>4, <4>1, <5>1
      <4>2. CASE e # d
        <5>1. owner[e] = u /\ depth'[e] = depth[e]
          BY <2>4, <4>2
        <5>2. Unlocking(u, e)' = Unlocking(u, e)
          BY <1>6, <1>7, <4>2 DEF Unlocking
        <5> QED
          BY <1>0, <5>1, <5>2 DEF MutexInv
      <4> QED
        BY <4>1, <4>2
    <3>3. \A u \in Threads, p \in Objects : inside'[u][p] > 0 =>
            \E e \in list' : object'[e] = p /\ owner'[e] = u /\ lockCount'[u][e] > 0
      <4> SUFFICES ASSUME NEW u \in Threads, NEW p \in Objects, inside[u][p] > 0
                   PROVE  \E e \in list : object[e] = p /\ owner'[e] = u /\ lockCount[u][e] > 0
        BY <1>1
      <4>1. PICK e \in list : object[e] = p /\ owner[e] = u /\ lockCount[u][e] > 0
        BY <1>0 DEF MutexInv
      <4>2. owner'[e] = u
        BY <1>0, <1>9, <2>2, <2>4, <4>1 DEF TypeOK
      <4> QED
        BY <4>1, <4>2
    <3>4. \A u \in Threads, e \in list' :
            lockCount'[u][e] > 0 => lockCount'[u][e] >= inside'[u][object'[e]] + Locking(u, e)'
      BY <1>0, <1>1, <1>5 DEF MutexInv, TypeOK
    <3> QED
      BY <3>1, <3>2, <3>3, <3>4 DEF MutexInv
  <2> QED
    BY <1>8, <2>5, <2>6, <2>7, <2>8 DEF IndInv
<1>10. CASE owner[d] # t
  <2>1. UNCHANGED <<owner, depth>>
    BY <1>10 DEF Unlock, mutexes
  <2>2. ~leaving[t]
    BY <1>3, <1>10
  <2>3. TypeOK' /\ ListInv'
    BY <1>0, <1>1, <1>4, <2>1 DEF TypeOK, ListInv, OneRecordPerObject
  <2>4. CallInv'
    BY <1>0, <1>1, <1>4, <2>1 DEF CallInv, Hits, Cached
  <2>5. \A u \in Threads, e \in Records : Unlocking(u, e)' = Unlocking(u, e)
    BY <1>6, <1>7, <2>2 DEF Unlocking
  <2>6. MutexInv'
    BY <1>0, <1>1, <1>5, <2>1, <2>5 DEF MutexInv, TypeOK
  <2> QED
    BY <1>8, <2>3, <2>4, <2>6 DEF IndInv
<1> QED
  BY <1>9, <1>10

----------------------------------------------------------------------------
(* The theorems.                                                           *)

\* The invariant holds at the start.
LEMMA InitEstablishes == Init => IndInv
<1> SUFFICES ASSUME Init PROVE IndInv
  OBVIOUS
<1>1. TypeOK
  BY DEF Init, TypeOK, PCs
<1>2. \A d \in Records : Users(d) = {}
  BY DEF Init, Users
<1>3. \A d \in Records : Cardinality(Users(d)) = 0
  BY <1>2, FS_EmptySet
<1>4. ListInv /\ CallInv
  BY DEF Init, ListInv, OneRecordPerObject, CallInv
<1>5. CountInv
  BY <1>3, SyncAssumption DEF Init, CountInv
<1>6. MutexInv
  BY SyncAssumption DEF Init, MutexInv
<1> QED
  BY <1>1, <1>4, <1>5, <1>6 DEF IndInv

\* Every step of every thread preserves the invariant.
LEMMA NextKeeps == IndInv /\ [Next]_vars => IndInv'
<1> SUFFICES ASSUME IndInv, [Next]_vars PROVE IndInv'
  OBVIOUS
<1>1. CASE UNCHANGED vars
  <2>0. UNCHANGED <<list, object, threadCount, owner, depth, lockCount, fast, allocated, pc, obj, rec,
                    trying, inside, leaving>>
    BY <1>1 DEF vars, shared, mutexes, caches, call, ghost
  <2>1. TypeOK' /\ ListInv'
    BY <2>0 DEF IndInv, TypeOK, ListInv, OneRecordPerObject
  <2>2. CountInv' /\ CallInv'
    BY <2>0 DEF IndInv, CountInv, Users, CallInv, Hits, Cached
  <2>3. MutexInv'
    BY <2>0 DEF IndInv, MutexInv, Unlocking, Locking
  <2> QED
    BY <2>1, <2>2, <2>3 DEF IndInv
<1>2. ASSUME NEW t \in Threads, NEW o \in Objects, Enter(t, o) PROVE IndInv'
  BY <1>2, AcquireCachedKeeps, AcquireMissKeeps DEF Enter
<1>3. ASSUME NEW t \in Threads, NEW o \in Objects, Exit(t, o) PROVE IndInv'
  BY <1>3, ReleaseCachedKeeps, ReleaseMissKeeps DEF Exit
<1>4. ASSUME NEW t \in Threads, Step(t) PROVE IndInv'
  BY <1>4, FindRecordKeeps, ReuseRecordKeeps, NewRecordKeeps, LockKeeps, TryLockFailsKeeps,
     ReleaseWalkKeeps, UnlockKeeps DEF Step
<1> QED
  BY <1>1, <1>2, <1>3, <1>4 DEF Next

\* The inductive invariant of id2data's bookkeeping holds in every state.
THEOREM SyncInvariance == Spec => []IndInv
<1> QED
  BY InitEstablishes, NextKeeps, PTL DEF Spec

\* The exit of a thread that is in a block finds its entry and owns the mutex:
\* objc_sync_exit returns OBJC_SYNC_SUCCESS.
THEOREM ExitsSucceed == Spec => []ExitSucceeds
<1>1. IndInv => ExitSucceeds
  BY DEF IndInv, CallInv, ExitSucceeds
<1> QED
  BY <1>1, SyncInvariance, PTL

\* The list has at most one record per object.
THEOREM RecordsAreUnique == Spec => []OneRecordPerObject
<1>1. IndInv => OneRecordPerObject
  BY DEF IndInv, ListInv
<1> QED
  BY <1>1, SyncInvariance, PTL

\* The fatal errors of id2data ("id2data fastcache is buggy") are unreachable.
THEOREM FatalUnreachable == Spec => []NeverFatal
<1>1. IndInv => NeverFatal
  <2> SUFFICES ASSUME IndInv, NEW t \in Threads, NEW d \in Records
               PROVE  /\ lockCount[t][d] > 0 \/ fast[t] = d => threadCount[d] > 0
                      /\ fast[t] = d => lockCount[t][d] > 0
    BY DEF NeverFatal
  <2>1. fast[t] = d => lockCount[t][d] > 0
    BY DEF IndInv, CountInv
  <2> QED
    BY <2>1, CachedIsCounted
<1> QED
  BY <1>1, SyncInvariance, PTL

\* Locking the mutex of the object's record enters the abstract lock: nobody
\* else is inside.
LEMMA LockEnters ==
  ASSUME IndInv, NEW t \in Threads, Lock(t)
  PROVE  Monitor!Next
<1>0. TypeOK /\ ListInv /\ CallInv /\ MutexInv
  BY DEF IndInv
<1>1. pc[t] = "lock" /\ owner[rec[t]] \in {NoThread, t}
  BY DEF Lock, MutexIsOpen
<1>2. PICK d \in list : d = rec[t] /\ object[d] = obj[t] /\ obj[t] \in Objects
  BY <1>0, <1>1 DEF CallInv
<1>3. \A u \in Threads \ {t} : inside[u][obj[t]] = 0
  <2> SUFFICES ASSUME NEW u \in Threads \ {t}, inside[u][obj[t]] # 0 PROVE FALSE
    OBVIOUS
  <2>1. inside[u][obj[t]] > 0
    BY <1>0, <1>2 DEF TypeOK
  <2>2. PICK e \in list : object[e] = obj[t] /\ owner[e] = u
    BY <1>0, <1>2, <2>1 DEF MutexInv
  <2>3. e = d
    BY <1>0, <1>2, <2>2 DEF ListInv, OneRecordPerObject
  <2> QED
    BY <1>1, <1>2, <2>2, <2>3, SyncAssumption
<1>4. inside' = [inside EXCEPT ![t][obj[t]] = @ + 1]
  BY DEF Lock
<1>5. Monitor!Enter(t, obj[t])
  BY <1>3, <1>4 DEF Monitor!Enter
<1> QED
  BY <1>2, <1>5 DEF Monitor!Next

\* Every step is one of the abstract locks or a stutter.
LEMMA StepImplements == IndInv /\ [Next]_vars => [Monitor!Next]_inside
<1> SUFFICES ASSUME IndInv, [Next]_vars PROVE [Monitor!Next]_inside
  OBVIOUS
<1>1. CASE UNCHANGED vars
  BY <1>1 DEF vars, ghost
<1>2. ASSUME NEW t \in Threads, NEW o \in Objects, Enter(t, o) PROVE inside' = inside
  BY <1>2 DEF Enter, AcquireCached, AcquireMiss, ghost
<1>3. ASSUME NEW t \in Threads, NEW o \in Objects, ReleaseCached(t, o) PROVE [Monitor!Next]_inside
  <2>1. inside' = [inside EXCEPT ![t][o] = IF inside[t][o] > 0 THEN inside[t][o] - 1 ELSE 0]
    BY <1>3 DEF ReleaseCached, Leave
  <2>2. inside \in [Threads -> [Objects -> Nat]]
    BY DEF IndInv, TypeOK
  <2>3. CASE inside[t][o] > 0
    <3>1. Monitor!Exit(t, o)
      BY <2>1, <2>3 DEF Monitor!Exit
    <3> QED
      BY <3>1 DEF Monitor!Next
  <2>4. CASE ~(inside[t][o] > 0)
    <3>1. inside[t][o] = 0
      BY <2>2, <2>4
    <3> QED
      BY <2>1, <2>2, <3>1
  <2> QED
    BY <2>3, <2>4
<1>4. ASSUME NEW t \in Threads, NEW o \in Objects, ReleaseMiss(t, o) PROVE inside' = inside
  BY <1>4, ReleaseMissKeeps
<1>5. ASSUME NEW t \in Threads, Step(t) PROVE [Monitor!Next]_inside
  <2>1. CASE Lock(t)
    BY <2>1, LockEnters
  <2>2. CASE ~Lock(t)
    BY <1>5, <2>2 DEF Step, FindRecord, ReuseRecord, NewRecord, GotRecord, TryLockFails, ReleaseWalk,
         Unlock, ghost
  <2> QED
    BY <2>1, <2>2
<1> QED
  BY <1>1, <1>2, <1>3, <1>4, <1>5 DEF Next, Exit

\* @synchronized implements one recursive lock per object, for any number of
\* threads, objects and records.
THEOREM SyncRefinement == Spec => ImplementsMonitors
<1>1. Init => Monitor!Init
  BY DEF Init, Monitor!Init
<1> QED
  BY <1>1, InitEstablishes, NextKeeps, StepImplements, PTL DEF Spec, ImplementsMonitors, Monitor!Spec

----------------------------------------------------------------------------
(* The books, for clients that only leave what they entered and never try. *)

\* A thread has counted in every record it caches, once for every block it is in or about
\* to enter; and before it walks the list there is a slot for the record it will find.
Slots(t) ==
  /\ IsFiniteSet(Cached(t)) /\ Used(t) <= allocated[t]
  /\ pc[t] = "walk" => allocated[t] = 0 \/ Used(t) < allocated[t]
BookInv ==
  /\ \A d \in Records : threadCount[d] = Cardinality(Users(d))
  /\ \A t \in Threads, d \in list : lockCount[t][d] = inside[t][object[d]] + Locking(t, d)
  /\ \A t \in Threads : pc[t] # "exit_walk" /\ ~trying[t]
  /\ \A t \in Threads : Slots(t)

LEMMA UsedType == ASSUME NEW t, IsFiniteSet(Cached(t)) PROVE Used(t) \in Nat
<1>1. IsFiniteSet(Cached(t) \ {fast[t]})
  BY FS_RemoveElement
<1> QED
  BY <1>1, FS_CardinalityType DEF Used

\* What a thread does leaves the slots of the others alone.
LEMMA SlotsStay ==
  ASSUME NEW u, Slots(u), \A d \in Records : lockCount'[u][d] > 0 <=> lockCount[u][d] > 0,
         fast'[u] = fast[u], allocated[u] \in Nat, allocated'[u] \in Nat, allocated[u] <= allocated'[u],
         pc'[u] = "walk" => allocated'[u] = 0 \/ Used(u) < allocated'[u]
  PROVE  Slots(u)'
<1>1. Cached(u)' = Cached(u)
  BY DEF Cached
<1>2. Used(u)' = Used(u)
  BY <1>1 DEF Used
<1>3. Used(u) \in Nat
  BY UsedType DEF Slots
<1> QED
  BY <1>1, <1>2, <1>3 DEF Slots

\* Looking past the fast cache makes sure that there is a slot.
LEMMA FetchCacheGrows ==
  ASSUME IndInv, BookInv, NEW t \in Threads, NEW o, FetchCache(t, o)
  PROVE  /\ \A u \in Threads : u # t => allocated'[u] = allocated[u]
         /\ \A u \in Threads : allocated[u] \in Nat /\ allocated'[u] \in Nat /\ allocated[u] <= allocated'[u]
         /\ ~FastHit(t, o) => allocated'[t] = 0 \/ Used(t) < allocated'[t]
<1>0. allocated \in [Threads -> Nat] /\ Used(t) \in Nat /\ Used(t) <= allocated[t] /\ allocated[t] \in Nat
  BY UsedType DEF IndInv, TypeOK, BookInv, Slots
<1>1. Grown(t) \in Nat /\ allocated[t] <= Grown(t) /\ (Grown(t) = 0 \/ Used(t) < Grown(t))
  BY <1>0 DEF Grown
<1>2. allocated' = allocated \/ allocated' = [allocated EXCEPT ![t] = Grown(t)]
  BY DEF FetchCache
<1>3. ~FastHit(t, o) => allocated' = [allocated EXCEPT ![t] = Grown(t)]
  BY DEF FetchCache
<1> QED
  BY <1>0, <1>1, <1>2, <1>3

LEMMA AcquireCachedBooks ==
  ASSUME IndInv, BookInv, ~TryEnters, NEW t \in Threads, NEW o \in Objects, NEW b \in BOOLEAN, AcquireCached(t, o, b)
  PROVE  BookInv'
<1>0. TypeOK /\ ListInv /\ CountInv /\ CallInv
  BY DEF IndInv
<1>1. PICK d \in Hits(t, o) :
        /\ lockCount' = [lockCount EXCEPT ![t][d] = lockCount[t][d] + 1]
        /\ rec' = [rec EXCEPT ![t] = d]
  BY DEF AcquireCached
<1>2. /\ pc[t] = "idle" /\ pc' = [pc EXCEPT ![t] = "lock"] /\ trying' = [trying EXCEPT ![t] = b] /\ ~b
      /\ FetchCache(t, o) /\ UNCHANGED <<list, object, threadCount, fast, inside>>
  BY DEF AcquireCached, MayEnter, Idle, Goto, Begin, shared, mutexes, ghost
<1>3. d \in Records /\ lockCount[t][d] > 0 /\ d \in list /\ lockCount[t][d] \in Nat
  BY <1>0, <1>1 DEF Hits, Cached, CountInv, TypeOK
<1>4. \A u \in Threads, e \in Records :
        lockCount'[u][e] = IF u = t /\ e = d THEN lockCount[t][d] + 1 ELSE lockCount[u][e]
  BY <1>0, <1>1, <1>3 DEF TypeOK
<1>5. \A u \in Threads, e \in Records : lockCount'[u][e] > 0 <=> lockCount[u][e] > 0
  BY <1>3, <1>4
<1>6. ASSUME NEW e \in Records
      PROVE  threadCount'[e] = Cardinality(Users(e))'
  <2>1. Users(e)' = Users(e)
    BY <1>5 DEF Users
  <2> QED
    BY <1>2, <2>1 DEF BookInv
<1>7. ASSUME NEW u \in Threads, NEW e \in list'
      PROVE  (lockCount[u][e] = inside[u][object[e]] + Locking(u, e))'
  <2>1. e \in Records /\ e \in list /\ lockCount[u][e] = inside[u][object[e]] + Locking(u, e)
    BY <1>0, <1>2 DEF BookInv, TypeOK
  <2>2. Locking(u, e)' = IF u = t THEN (IF e = d THEN 1 ELSE 0) ELSE Locking(u, e)
    BY <1>0, <1>1, <1>2 DEF Locking, TypeOK
  <2>3. u = t => Locking(u, e) = 0
    BY <1>2 DEF Locking
  <2>4. inside[u][object[e]] \in Nat
    BY <1>0, <2>1 DEF TypeOK, ListInv
  <2>5. lockCount'[u][e] = inside[u][object[e]] + Locking(u, e)'
    BY <1>4, <2>1, <2>2, <2>3, <2>4
  <2> QED
    BY <1>2, <2>5
<1>8. ASSUME NEW u \in Threads
      PROVE  pc'[u] # "exit_walk" /\ ~trying'[u]
  BY <1>0, <1>2 DEF BookInv, TypeOK
<1>9. ASSUME NEW u \in Threads
      PROVE  Slots(u)'
  <2>1. Slots(u)
    BY DEF BookInv
  <2>2. allocated[u] \in Nat /\ allocated'[u] \in Nat /\ allocated[u] <= allocated'[u] /\ (u # t => allocated'[u] = allocated[u])
    BY <1>2, FetchCacheGrows
  <2>3. pc'[u] = "walk" => u # t /\ pc[u] = "walk"
    BY <1>0, <1>2 DEF TypeOK
  <2>4. pc'[u] = "walk" => allocated'[u] = 0 \/ Used(u) < allocated'[u]
    BY <2>1, <2>2, <2>3 DEF Slots
  <2> QED
    BY <1>2, <1>5, <2>1, <2>2, <2>4, SlotsStay
<1> QED
  BY <1>6, <1>7, <1>8, <1>9 DEF BookInv

LEMMA AcquireMissBooks ==
  ASSUME IndInv, BookInv, ~TryEnters, NEW t \in Threads, NEW o \in Objects, NEW b \in BOOLEAN, AcquireMiss(t, o, b)
  PROVE  BookInv'
<1>0. TypeOK /\ ListInv /\ CountInv /\ CallInv
  BY DEF IndInv
<1>2. /\ pc[t] = "idle" /\ pc' = [pc EXCEPT ![t] = "walk"] /\ trying' = [trying EXCEPT ![t] = b] /\ ~b
      /\ FetchCache(t, o) /\ Hits(t, o) = {} /\ UNCHANGED <<list, object, threadCount, lockCount, fast, inside, rec>>
  BY DEF AcquireMiss, MayEnter, Idle, Goto, Begin, shared, mutexes, ghost
<1>3. ~FastHit(t, o)
  BY <1>0, <1>2 DEF FastHit, Hits, Cached, CountInv, TypeOK
<1>6. ASSUME NEW e \in Records
      PROVE  threadCount'[e] = Cardinality(Users(e))'
  <2>1. Users(e)' = Users(e)
    BY <1>2 DEF Users
  <2> QED
    BY <1>2, <2>1 DEF BookInv
<1>7. ASSUME NEW u \in Threads, NEW e \in list'
      PROVE  (lockCount[u][e] = inside[u][object[e]] + Locking(u, e))'
  <2>1. e \in list /\ lockCount[u][e] = inside[u][object[e]] + Locking(u, e)
    BY <1>0, <1>2 DEF BookInv, TypeOK
  <2>2. Locking(u, e)' = Locking(u, e)
    BY <1>0, <1>2 DEF Locking, TypeOK
  <2> QED
    BY <1>2, <2>1, <2>2
<1>8. ASSUME NEW u \in Threads
      PROVE  pc'[u] # "exit_walk" /\ ~trying'[u]
  BY <1>0, <1>2 DEF BookInv, TypeOK
<1>9. ASSUME NEW u \in Threads
      PROVE  Slots(u)'
  <2>1. Slots(u)
    BY DEF BookInv
  <2>2. /\ allocated[u] \in Nat /\ allocated'[u] \in Nat /\ allocated[u] <= allocated'[u]
        /\ (u # t => allocated'[u] = allocated[u]) /\ (u = t => allocated'[u] = 0 \/ Used(u) < allocated'[u])
    BY <1>2, <1>3, FetchCacheGrows
  <2>3. u # t => pc'[u] = pc[u]
    BY <1>0, <1>2 DEF TypeOK
  <2>4. pc'[u] = "walk" => allocated'[u] = 0 \/ Used(u) < allocated'[u]
    BY <2>1, <2>2, <2>3 DEF Slots
  <2> QED
    BY <1>2, <2>1, <2>2, <2>4, SlotsStay
<1> QED
  BY <1>6, <1>7, <1>8, <1>9 DEF BookInv

\* A new entry has a slot.
LEMMA GotRecordSlots ==
  ASSUME IndInv, BookInv, NEW t \in Threads, NEW d \in Records, GotRecord(t, d), pc[t] = "walk", lockCount[t][d] = 0,
         NEW u \in Threads
  PROVE  Slots(u)'
<1>0. TypeOK /\ CountInv /\ Slots(u)
  BY DEF IndInv, BookInv
<1>1. /\ lockCount' = [lockCount EXCEPT ![t][d] = 1] /\ pc' = [pc EXCEPT ![t] = "lock"]
      /\ (fast[t] = NoRecord => fast' = [fast EXCEPT ![t] = d] /\ allocated' = allocated)
      /\ (fast[t] # NoRecord => /\ allocated' = [allocated EXCEPT ![t] = IF allocated[t] = 0 THEN InitialSlots ELSE allocated[t]]
                                /\ fast' = fast)
  BY DEF GotRecord, AddToCache, Goto
<1>2. \A e \in Records : lockCount'[u][e] = IF u = t /\ e = d THEN 1 ELSE lockCount[u][e]
  BY <1>0, <1>1 DEF TypeOK
<1>3. CASE u # t
  <2>1. /\ fast'[u] = fast[u] /\ allocated'[u] = allocated[u] /\ allocated[u] \in Nat /\ pc'[u] = pc[u]
        /\ allocated[u] <= allocated[u] /\ \A e \in Records : lockCount'[u][e] > 0 <=> lockCount[u][e] > 0
    BY <1>0, <1>1, <1>2, <1>3 DEF TypeOK
  <2> QED
    BY <1>0, <2>1, SlotsStay DEF Slots
<1>4. CASE u = t
  <2>1. Cached(t)' = Cached(t) \cup {d} /\ d \notin Cached(t) /\ pc'[t] = "lock"
    BY <1>0, <1>1, <1>2, <1>4 DEF Cached, TypeOK
  <2>2. IsFiniteSet(Cached(t)) /\ IsFiniteSet(Cached(t)')
    BY <1>0, <1>4, <2>1, FS_AddElement DEF Slots
  <2>3. Used(t) \in Nat /\ Used(t) <= allocated[t] /\ (allocated[t] = 0 \/ Used(t) < allocated[t]) /\ allocated[t] \in Nat
    BY <1>0, <1>4, <2>2, UsedType DEF Slots, TypeOK
  <2>4. CASE fast[t] = NoRecord
    <3>1. fast'[t] = d /\ allocated' = allocated
      BY <1>0, <1>1, <2>4 DEF TypeOK
    <3>2. Cached(t)' \ {fast'[t]} = Cached(t) \ {fast[t]}
      BY <2>1, <2>4, <3>1, SyncAssumption DEF Cached
    <3>3. Used(t)' = Used(t)
      BY <3>2 DEF Used
    <3> QED
      BY <1>4, <2>1, <2>2, <2>3, <3>1, <3>3 DEF Slots
  <2>5. CASE fast[t] # NoRecord
    <3>1. fast'[t] = fast[t] /\ allocated'[t] = IF allocated[t] = 0 THEN InitialSlots ELSE allocated[t]
      BY <1>0, <1>1, <2>5 DEF TypeOK
    <3>2. d # fast[t]
      BY <1>0, <2>5 DEF CountInv, TypeOK
    <3>3. Cached(t)' \ {fast'[t]} = (Cached(t) \ {fast[t]}) \cup {d} /\ d \notin Cached(t) \ {fast[t]}
      BY <2>1, <3>1, <3>2
    <3>4. IsFiniteSet(Cached(t) \ {fast[t]})
      BY <2>2, FS_RemoveElement
    <3>5. Cardinality((Cached(t) \ {fast[t]}) \cup {d}) = Cardinality(Cached(t) \ {fast[t]}) + 1
      BY <3>3, <3>4, FS_AddElement
    <3>6. Used(t)' = Used(t) + 1
      BY <3>3, <3>5 DEF Used
    <3>7. InitialSlots \in Nat /\ InitialSlots > 0
      BY SyncAssumption
    <3>8. Used(t)' <= allocated'[t]
      BY <2>3, <3>1, <3>6, <3>7
    <3> QED
      BY <1>4, <2>1, <2>2, <3>8 DEF Slots
  <2> QED
    BY <2>4, <2>5
<1> QED
  BY <1>3, <1>4

\* The entry of a thread that has got a record counts the block it is about to enter.
LEMMA GotRecordBooks ==
  ASSUME IndInv, BookInv, NEW t \in Threads, NEW d \in Records, GotRecord(t, d), pc[t] = "walk", lockCount[t][d] = 0,
         inside[t][obj[t]] = 0, obj[t] \in Objects, d \in list', object'[d] = obj[t], list' \subseteq list \cup {d},
         \A e \in list : e # d => object'[e] = object[e],
         \A u \in Threads \ {t} : lockCount[u][d] = inside[u][obj[t]] + Locking(u, d),
         threadCount'[d] = Cardinality(Users(d)) + 1, \A e \in Records : e # d => threadCount'[e] = threadCount[e]
  PROVE  BookInv'
<1>0. TypeOK /\ ListInv /\ CountInv /\ CallInv
  BY DEF IndInv
<1>1. /\ \A u \in Threads, e \in Records :
           lockCount'[u][e] = IF u = t /\ e = d THEN 1 ELSE lockCount[u][e]
      /\ rec' = [rec EXCEPT ![t] = d] /\ pc' = [pc EXCEPT ![t] = "lock"]
      /\ UNCHANGED <<trying, inside>>
  BY <1>0, GotRecordFacts
<1>6. ASSUME NEW e \in Records
      PROVE  threadCount'[e] = Cardinality(Users(e))'
  <2>1. CASE e # d
    <3>1. Users(e)' = Users(e)
      BY <1>1, <2>1 DEF Users
    <3> QED
      BY <2>1, <3>1 DEF BookInv
  <2>2. CASE e = d
    <3>1. t \in Users(d)' /\ t \notin Users(d)
      BY <1>1 DEF Users
    <3>2. \A u \in Threads \ {t} : lockCount'[u][d] = lockCount[u][d]
      BY <1>1
    <3>3. Cardinality(Users(d))' = Cardinality(Users(d)) + 1
      BY <3>1, <3>2, UsersChange
    <3> QED
      BY <2>2, <3>3
  <2> QED
    BY <2>1, <2>2
<1>7. ASSUME NEW u \in Threads, NEW e \in list'
      PROVE  (lockCount[u][e] = inside[u][object[e]] + Locking(u, e))'
  <2>1. Locking(u, e)' = IF u = t THEN (IF e = d THEN 1 ELSE 0) ELSE Locking(u, e)
    BY <1>0, <1>1 DEF Locking, TypeOK
  <2>2. u = t => Locking(u, e) = 0
    BY DEF Locking
  <2>3. CASE e = d
    <3>1. u # t => lockCount[u][d] = inside[u][obj[t]] + Locking(u, d)
      OBVIOUS
    <3>2. lockCount'[u][d] = inside[u][obj[t]] + Locking(u, e)'
      BY <1>1, <2>1, <2>3, <3>1
    <3> QED
      BY <1>1, <2>3, <3>2
  <2>4. CASE e # d
    <3>1. e \in list /\ e \in Records /\ lockCount[u][e] = inside[u][object[e]] + Locking(u, e) /\ object'[e] = object[e]
      BY <1>0, <2>4 DEF BookInv, TypeOK
    <3>2. lockCount'[u][e] = inside[u][object[e]] + Locking(u, e)'
      BY <1>1, <2>1, <2>2, <2>4, <3>1
    <3> QED
      BY <1>1, <3>1, <3>2
  <2> QED
    BY <2>3, <2>4
<1>8. ASSUME NEW u \in Threads
      PROVE  pc'[u] # "exit_walk" /\ ~trying'[u]
  BY <1>0, <1>1 DEF BookInv, TypeOK
<1>9. ASSUME NEW u \in Threads
      PROVE  Slots(u)'
  BY GotRecordSlots
<1> QED
  BY <1>6, <1>7, <1>8, <1>9 DEF BookInv

LEMMA FindRecordBooks ==
  ASSUME IndInv, BookInv, NEW t \in Threads, FindRecord(t)
  PROVE  BookInv'
<1>0. TypeOK /\ ListInv /\ CountInv /\ CallInv
  BY DEF IndInv
<1>1. PICK d \in Matching(obj[t]) :
        /\ threadCount' = [threadCount EXCEPT ![d] = threadCount[d] + 1]
        /\ GotRecord(t, d)
  BY DEF FindRecord
<1>2. pc[t] = "walk" /\ UNCHANGED <<list, object>>
  BY DEF FindRecord
<1>3. d \in list /\ d \in Records /\ object[d] = obj[t] /\ obj[t] \in Objects
  BY <1>0, <1>1, <1>2 DEF Matching, TypeOK, CallInv
<1>4. lockCount[t][d] = 0
  BY <1>0, <1>2, <1>3 DEF CallInv, Hits, Cached, TypeOK
<1>5. inside[t][obj[t]] = 0
  <2>1. ~(inside[t][obj[t]] > 0)
    BY <1>3, <1>4, InsideOwns
  <2> QED
    BY <1>0, <1>3, <2>1 DEF TypeOK
<1>6. threadCount'[d] = Cardinality(Users(d)) + 1 /\ \A e \in Records : e # d => threadCount'[e] = threadCount[e]
  BY <1>0, <1>1, <1>3 DEF TypeOK, BookInv
<1>7. \A u \in Threads \ {t} : lockCount[u][d] = inside[u][obj[t]] + Locking(u, d)
  BY <1>3 DEF BookInv
<1> QED
  BY <1>1, <1>2, <1>3, <1>4, <1>5, <1>6, <1>7, GotRecordBooks

\* A record that was unused or not on the list goes to an object that has none.
LEMMA FreshRecordBooks ==
  ASSUME IndInv, BookInv, NEW t \in Threads, NEW d \in Records, pc[t] = "walk", Matching(obj[t]) = {},
         d \in Unused \/ d \notin list, list' = list \cup {d}, object' = [object EXCEPT ![d] = obj[t]],
         threadCount' = [threadCount EXCEPT ![d] = 1], GotRecord(t, d)
  PROVE  BookInv'
<1>0. TypeOK /\ ListInv /\ CountInv /\ CallInv /\ MutexInv /\ obj[t] \in Objects
  BY DEF IndInv, CallInv
<1>1. \A u \in Threads : inside[u][obj[t]] = 0
  <2> SUFFICES ASSUME NEW u \in Threads, inside[u][obj[t]] # 0 PROVE FALSE
    OBVIOUS
  <2>1. inside[u][obj[t]] \in Nat
    BY <1>0 DEF TypeOK
  <2>2. inside[u][obj[t]] > 0
    BY <2>1
  <2>3. \E e \in list : object[e] = obj[t]
    BY <1>0, <2>2 DEF MutexInv
  <2> QED
    BY <2>3 DEF Matching
<1>2. \A u \in Threads : lockCount[u][d] = 0
  <2>1. CASE d \in Unused
    BY <2>1, UnusedIsUncached DEF Unused
  <2>2. CASE d \notin list
    BY <1>0, <2>2 DEF CountInv, TypeOK
  <2> QED
    BY <2>1, <2>2
<1>3. Cardinality(Users(d)) = 0
  <2>1. Users(d) = {}
    BY <1>2 DEF Users
  <2> QED
    BY <2>1, FS_EmptySet
<1>4. \A u \in Threads : Locking(u, d) = 0
  BY <1>0, <1>2 DEF Locking, CallInv
<1>5. threadCount'[d] = Cardinality(Users(d)) + 1 /\ \A e \in Records : e # d => threadCount'[e] = threadCount[e]
  BY <1>0, <1>3 DEF TypeOK
<1>6. object'[d] = obj[t] /\ \A e \in list : e # d => object'[e] = object[e]
  BY <1>0 DEF TypeOK
<1>7. \A u \in Threads \ {t} : lockCount[u][d] = inside[u][obj[t]] + Locking(u, d)
  BY <1>1, <1>2, <1>4
<1> QED
  BY <1>0, <1>1, <1>2, <1>5, <1>6, <1>7, GotRecordBooks

\* The thread has got the mutex: the block it was about to enter is one it is in.
LEMMA LockBooks ==
  ASSUME IndInv, BookInv, NEW t \in Threads, Lock(t)
  PROVE  BookInv'
<1>0. TypeOK /\ ListInv /\ CountInv /\ CallInv
  BY DEF IndInv
<1> DEFINE d == rec[t]
           o == obj[t]
<1>1. /\ pc[t] = "lock" /\ inside' = [inside EXCEPT ![t][o] = inside[t][o] + 1]
      /\ trying' = [trying EXCEPT ![t] = FALSE]
      /\ Return(t) /\ UNCHANGED <<list, object, threadCount, lockCount, fast, allocated>>
  BY DEF Lock, Return, shared, caches
<1>2. d \in list /\ object[d] = o /\ o \in Objects
  BY <1>0, <1>1 DEF CallInv
<1>3. /\ pc'[t] = "idle" /\ \A u \in Threads \ {t} : pc'[u] = pc[u] /\ rec'[u] = rec[u]
  BY <1>0, <1>1, ReturnFacts
<1>4. \A u \in Threads, p \in Objects :
        inside'[u][p] = IF u = t /\ p = o THEN inside[t][o] + 1 ELSE inside[u][p]
  BY <1>0, <1>1, <1>2 DEF TypeOK
<1>6. ASSUME NEW e \in Records
      PROVE  threadCount'[e] = Cardinality(Users(e))'
  <2>1. Users(e)' = Users(e)
    BY <1>1 DEF Users
  <2> QED
    BY <1>1, <2>1 DEF BookInv
<1>7. ASSUME NEW u \in Threads, NEW e \in list'
      PROVE  (lockCount[u][e] = inside[u][object[e]] + Locking(u, e))'
  <2>1. e \in list /\ lockCount[u][e] = inside[u][object[e]] + Locking(u, e) /\ object[e] \in Objects
    BY <1>0, <1>1 DEF BookInv, ListInv
  <2>2. inside[u][object[e]] \in Nat
    BY <1>0, <2>1 DEF TypeOK
  <2>3. CASE u # t
    <3>1. Locking(u, e)' = Locking(u, e)
      BY <1>3, <2>3 DEF Locking
    <3> QED
      BY <1>1, <1>4, <2>1, <2>3, <3>1
  <2>4. CASE u = t
    <3>1. Locking(u, e)' = 0 /\ Locking(u, e) = IF e = d THEN 1 ELSE 0
      BY <1>1, <1>3, <2>4 DEF Locking
    <3>2. object[e] = o <=> e = d
      BY <1>0, <1>2, <2>1 DEF ListInv, OneRecordPerObject
    <3>3. lockCount[u][e] = inside'[u][object[e]]
      BY <1>4, <2>1, <2>2, <2>4, <3>1, <3>2
    <3>4. inside'[u][object[e]] \in Nat
      BY <1>4, <2>1, <2>2, <2>4
    <3> QED
      BY <1>1, <3>1, <3>3, <3>4
  <2> QED
    BY <2>3, <2>4
<1>8. ASSUME NEW u \in Threads
      PROVE  pc'[u] # "exit_walk" /\ ~trying'[u]
  BY <1>0, <1>1, <1>3 DEF BookInv, TypeOK
<1>9. ASSUME NEW u \in Threads
      PROVE  Slots(u)'
  <2>1. Slots(u) /\ allocated[u] \in Nat
    BY <1>0 DEF BookInv, TypeOK
  <2>2. pc'[u] = "walk" => pc[u] = "walk"
    BY <1>3
  <2> QED
    BY <1>1, <2>1, <2>2, SlotsStay DEF Slots
<1> QED
  BY <1>6, <1>7, <1>8, <1>9 DEF BookInv

LEMMA UnlockBooks ==
  ASSUME IndInv, BookInv, NEW t \in Threads, Unlock(t)
  PROVE  BookInv'
<1>0. TypeOK /\ ListInv /\ CountInv /\ CallInv
  BY DEF IndInv
<1>1. /\ pc[t] = "unlock" /\ trying' = [trying EXCEPT ![t] = FALSE]
      /\ Return(t) /\ UNCHANGED <<list, object, threadCount, lockCount, fast, allocated, inside>>
  BY DEF Unlock, Return, shared, caches
<1>3. /\ pc'[t] = "idle" /\ \A u \in Threads \ {t} : pc'[u] = pc[u] /\ rec'[u] = rec[u]
  BY <1>0, <1>1, ReturnFacts
<1>6. ASSUME NEW e \in Records
      PROVE  threadCount'[e] = Cardinality(Users(e))'
  <2>1. Users(e)' = Users(e)
    BY <1>1 DEF Users
  <2> QED
    BY <1>1, <2>1 DEF BookInv
<1>7. ASSUME NEW u \in Threads, NEW e \in list'
      PROVE  (lockCount[u][e] = inside[u][object[e]] + Locking(u, e))'
  <2>1. lockCount[u][e] = inside[u][object[e]] + Locking(u, e)
    BY <1>1 DEF BookInv
  <2>2. Locking(u, e)' = Locking(u, e)
    BY <1>1, <1>3 DEF Locking
  <2> QED
    BY <1>1, <2>1, <2>2
<1>8. ASSUME NEW u \in Threads
      PROVE  pc'[u] # "exit_walk" /\ ~trying'[u]
  BY <1>0, <1>1, <1>3 DEF BookInv, TypeOK
<1>9. ASSUME NEW u \in Threads
      PROVE  Slots(u)'
  <2>1. Slots(u) /\ allocated[u] \in Nat
    BY <1>0 DEF BookInv, TypeOK
  <2>2. pc'[u] = "walk" => pc[u] = "walk"
    BY <1>3
  <2> QED
    BY <1>1, <2>1, <2>2, SlotsStay DEF Slots
<1> QED
  BY <1>6, <1>7, <1>8, <1>9 DEF BookInv

\* An exit takes one block and one lock off, and with the last one the entry and the count.
LEMMA ReleaseCachedBooks ==
  ASSUME IndInv, BookInv, ~StrayExits, NEW t \in Threads, NEW o \in Objects, ReleaseCached(t, o)
  PROVE  BookInv'
<1>0. TypeOK /\ ListInv /\ CountInv /\ CallInv
  BY DEF IndInv
<1>1. PICK d \in Hits(t, o) :
        /\ lockCount' = [lockCount EXCEPT ![t][d] = lockCount[t][d] - 1]
        /\ fast' = [fast EXCEPT ![t] = IF lockCount[t][d] = 1 /\ fast[t] = d THEN NoRecord ELSE fast[t]]
        /\ threadCount' = IF lockCount[t][d] = 1
                          THEN [threadCount EXCEPT ![d] = threadCount[d] - 1] ELSE threadCount
        /\ rec' = [rec EXCEPT ![t] = d]
  BY DEF ReleaseCached
<1>2. /\ pc[t] = "idle" /\ pc' = [pc EXCEPT ![t] = "unlock"] /\ trying' = [trying EXCEPT ![t] = FALSE]
      /\ inside[t][o] > 0 /\ inside' = [inside EXCEPT ![t][o] = inside[t][o] - 1]
      /\ FetchCache(t, o) /\ UNCHANGED <<list, object>>
  BY DEF ReleaseCached, MayExit, Idle, Goto, Begin, Leave, mutexes
<1>3. d \in Records /\ lockCount[t][d] > 0 /\ object[d] = o /\ d \in list /\ lockCount[t][d] \in Nat /\ inside[t][o] \in Nat
  BY <1>0, <1>1, <1>2 DEF Hits, Cached, CountInv, TypeOK
<1>4. /\ \A u \in Threads, e \in Records :
           lockCount'[u][e] = IF u = t /\ e = d THEN lockCount[t][d] - 1 ELSE lockCount[u][e]
      /\ \A u \in Threads, p \in Objects :
           inside'[u][p] = IF u = t /\ p = o THEN inside[t][o] - 1 ELSE inside[u][p]
  BY <1>0, <1>1, <1>2, <1>3 DEF TypeOK
<1>6. ASSUME NEW e \in Records
      PROVE  threadCount'[e] = Cardinality(Users(e))'
  <2>1. threadCount[e] = Cardinality(Users(e)) /\ threadCount \in [Records -> Int]
    BY <1>0 DEF BookInv, TypeOK
  <2>2. CASE e = d /\ lockCount[t][d] = 1
    <3>1. t \notin Users(d)' /\ t \in Users(d)
      BY <1>3, <1>4, <2>2 DEF Users
    <3>2. \A u \in Threads \ {t} : lockCount'[u][d] = lockCount[u][d]
      BY <1>3, <1>4
    <3>3. Cardinality(Users(d))' = Cardinality(Users(d)) - 1
      BY <3>1, <3>2, UsersChange
    <3>4. threadCount'[d] = threadCount[d] - 1
      BY <1>1, <2>1, <2>2
    <3> QED
      BY <2>1, <2>2, <3>3, <3>4
  <2>3. CASE ~(e = d /\ lockCount[t][d] = 1)
    <3>1. Users(e)' = Users(e)
      BY <1>3, <1>4, <2>3 DEF Users
    <3>2. threadCount'[e] = threadCount[e]
      BY <1>1, <1>3, <2>1, <2>3
    <3> QED
      BY <2>1, <3>1, <3>2
  <2> QED
    BY <2>2, <2>3
<1>7. ASSUME NEW u \in Threads, NEW e \in list'
      PROVE  (lockCount[u][e] = inside[u][object[e]] + Locking(u, e))'
  <2>1. e \in list /\ e \in Records /\ lockCount[u][e] = inside[u][object[e]] + Locking(u, e) /\ object[e] \in Objects
    BY <1>0, <1>2 DEF BookInv, ListInv, TypeOK
  <2>2. Locking(u, e)' = Locking(u, e) /\ Locking(u, e) \in {0, 1} /\ (u = t => Locking(u, e) = 0)
    BY <1>0, <1>1, <1>2 DEF Locking, TypeOK
  <2>3. object[e] = o <=> e = d
    BY <1>0, <1>3, <2>1 DEF ListInv, OneRecordPerObject
  <2>4. inside[u][object[e]] \in Nat
    BY <1>0, <2>1 DEF TypeOK
  <2>5. lockCount'[u][e] = inside'[u][object[e]] + Locking(u, e)'
    BY <1>3, <1>4, <2>1, <2>2, <2>3, <2>4
  <2> QED
    BY <1>2, <2>5
<1>8. ASSUME NEW u \in Threads
      PROVE  pc'[u] # "exit_walk" /\ ~trying'[u]
  BY <1>0, <1>2 DEF BookInv, TypeOK
<1>9. ASSUME NEW u \in Threads
      PROVE  Slots(u)'
  <2>1. Slots(u) /\ fast \in [Threads -> Records \cup {NoRecord}]
    BY <1>0 DEF BookInv, TypeOK
  <2>2. allocated[u] \in Nat /\ allocated'[u] \in Nat /\ allocated[u] <= allocated'[u] /\ (u # t => allocated'[u] = allocated[u])
    BY <1>2, FetchCacheGrows
  <2>3. pc'[u] = IF u = t THEN "unlock" ELSE pc[u]
    BY <1>0, <1>2 DEF TypeOK
  <2>4. CASE u # t
    <3>1. fast'[u] = fast[u] /\ \A e \in Records : lockCount'[u][e] > 0 <=> lockCount[u][e] > 0
      BY <1>1, <1>4, <2>1, <2>4
    <3> QED
      BY <2>1, <2>2, <2>3, <2>4, <3>1, SlotsStay DEF Slots
  <2>5. CASE u = t
    <3>1. Cached(t)' \subseteq Cached(t) /\ (fast'[t] = fast[t] \/ (fast[t] = d /\ d \notin Cached(t)'))
      BY <1>1, <1>3, <1>4, <2>1 DEF Cached
    <3>2. IsFiniteSet(Cached(t)) /\ IsFiniteSet(Cached(t) \ {fast[t]}) /\ IsFiniteSet(Cached(t)')
      BY <2>1, <2>5, <3>1, FS_Subset DEF Slots
    <3>3. Cached(t)' \ {fast'[t]} \in SUBSET (Cached(t) \ {fast[t]})
      BY <3>1
    <3>4. Cardinality(Cached(t)' \ {fast'[t]}) <= Cardinality(Cached(t) \ {fast[t]})
      BY <3>2, <3>3, FS_Subset
    <3>5. Used(t)' <= Used(t)
      BY <3>4 DEF Used
    <3>6. Used(t) \in Nat
      BY <3>2, UsedType
    <3>7. Used(t)' \in Nat
      <4>1. IsFiniteSet(Cached(t)' \ {fast'[t]})
        BY <3>2, FS_RemoveElement
      <4> QED
        BY <4>1, FS_CardinalityType DEF Used
    <3>8. Used(t) <= allocated[t]
      BY <2>1, <2>5 DEF Slots
    <3>9. Used(t)' <= allocated'[t]
      BY <2>2, <2>5, <3>5, <3>6, <3>7, <3>8
    <3> QED
      BY <2>3, <2>5, <3>2, <3>9 DEF Slots
  <2> QED
    BY <2>4, <2>5
<1> QED
  BY <1>6, <1>7, <1>8, <1>9 DEF BookInv

LEMMA InitBooks == Init => BookInv
<1> SUFFICES ASSUME Init PROVE BookInv
  OBVIOUS
<1>1. (\A d \in Records : Users(d) = {}) /\ \A t \in Threads : Cached(t) = {} /\ Cached(t) \ {fast[t]} = {}
  BY DEF Init, Users, Cached
<1>2. IsFiniteSet({}) /\ Cardinality({}) = 0
  BY FS_EmptySet
<1>3. \A t \in Threads : Slots(t)
  <2> TAKE t \in Threads
  <2>1. allocated[t] = 0 /\ pc[t] = "idle"
    BY DEF Init
  <2>2. IsFiniteSet(Cached(t))
    BY <1>1, <1>2
  <2>3. Used(t) = 0
    BY <1>1, <1>2 DEF Used
  <2> QED
    BY <2>1, <2>2, <2>3 DEF Slots
<1>4. \A t \in Threads : pc[t] # "exit_walk" /\ ~trying[t]
  BY DEF Init
<1> QED
  BY <1>1, <1>2, <1>3, <1>4 DEF Init, BookInv

LEMMA NextBooks ==
  ASSUME TryEnters = FALSE, StrayExits = FALSE
  PROVE  IndInv /\ BookInv /\ [Next]_vars => BookInv'
<1> SUFFICES ASSUME IndInv, BookInv, [Next]_vars PROVE BookInv'
  OBVIOUS
<1>1. CASE UNCHANGED vars
  <2>1. UNCHANGED <<list, object, threadCount, lockCount, fast, allocated, pc, rec, trying, inside>>
    BY <1>1 DEF vars, shared, mutexes, caches, call, ghost
  <2> QED
    BY <2>1 DEF BookInv, Users, Slots, Used, Cached, Locking
<1>2. ASSUME NEW t \in Threads, NEW o \in Objects, Enter(t, o) PROVE BookInv'
  BY <1>2, AcquireCachedBooks, AcquireMissBooks DEF Enter
<1>3. ASSUME NEW t \in Threads, NEW o \in Objects, Exit(t, o) PROVE BookInv'
  <2>1. ~ReleaseMiss(t, o)
    <3> SUFFICES ASSUME ReleaseMiss(t, o) PROVE FALSE
      OBVIOUS
    <3>1. inside[t][o] > 0 /\ Hits(t, o) = {}
      BY DEF ReleaseMiss, MayExit
    <3> QED
      BY <3>1 DEF IndInv, MutexInv, TypeOK, Hits, Cached
  <2> QED
    BY <1>3, <2>1, ReleaseCachedBooks DEF Exit
<1>4. ASSUME NEW t \in Threads, Step(t) PROVE BookInv'
  <2>1. ASSUME NEW d \in Records, ReuseRecord(t, d) \/ NewRecord(t, d) PROVE BookInv'
    <3>1. CASE ReuseRecord(t, d)
      <4>1. list' = list \cup {d}
        BY <3>1 DEF ReuseRecord, Unused
      <4> QED
        BY <3>1, <4>1, FreshRecordBooks DEF ReuseRecord
    <3>2. CASE NewRecord(t, d)
      BY <3>2, FreshRecordBooks DEF NewRecord
    <3> QED
      BY <2>1, <3>1, <3>2
  <2>2. ~TryLockFails(t) /\ ~ReleaseWalk(t)
    BY DEF BookInv, TryLockFails, ReleaseWalk
  <2> QED
    BY <1>4, <2>1, <2>2, FindRecordBooks, LockBooks, UnlockBooks DEF Step
<1> QED
  BY <1>1, <1>2, <1>3, <1>4 DEF Next

\* threadCount is the number of threads that use a record, lockCount the number of blocks
\* a thread is in, and the thread cache never overflows, as long as clients only leave
\* what they entered and nobody tries.
THEOREM BooksStayExact ==
  ASSUME TryEnters = FALSE, StrayExits = FALSE
  PROVE  Spec => []BooksAreExact
<1>1. IndInv /\ BookInv => BooksAreExact
  <2> SUFFICES ASSUME IndInv, BookInv PROVE BooksAreExact
    OBVIOUS
  <2>1. CacheFits
    BY DEF BookInv, Slots, CacheFits
  <2>2. CountIsThreads
    BY DEF IndInv, TypeOK, BookInv, CountIsThreads, Users
  <2>3. CountIsLocks
    <3> SUFFICES ASSUME NEW t \in Threads, NEW d \in list, Idle(t)
                 PROVE  lockCount[t][d] = inside[t][object[d]]
      BY DEF CountIsLocks
    <3>1. Locking(t, d) = 0
      BY DEF Idle, Locking
    <3>2. inside[t][object[d]] \in Nat
      BY DEF IndInv, TypeOK, ListInv
    <3> QED
      BY <3>1, <3>2 DEF BookInv
  <2> QED
    BY <2>1, <2>2, <2>3 DEF BooksAreExact
<1>2. IndInv /\ BookInv /\ [Next]_vars => BookInv'
  BY NextBooks
<1> QED
  BY <1>1, <1>2, InitBooks, SyncInvariance, PTL DEF Spec
=============================================================================
