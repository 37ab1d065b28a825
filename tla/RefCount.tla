------------------------------ MODULE RefCount ------------------------------
(***************************************************************************)
(* Retain counting of one object: the packed isa word (isa.h, objc-private *)
(* .h, objc-object.h) and the object's word in the side table              *)
(* (NSObject.mm).  One step is one atomic access of the isa word, or one   *)
(* critical section of the side table's lock; a critical section that also *)
(* accesses isa is split at that access.                                   *)
(*                                                                         *)
(* Clients follow the ownership rules: a call on the object is made by     *)
(* someone whose strong reference lasts as long as the call, a release     *)
(* gives up a reference nobody else is using, and -dealloc may retain and  *)
(* release self, balanced, before it calls [super dealloc].  A weak load   *)
(* needs no reference.  The ghost variable refs counts the strong          *)
(* references; freed memory may be allocated again at the same address.    *)
(***************************************************************************)
EXTENDS Integers, FiniteSets

CONSTANTS
  Threads,          \* threads that use the object
  Changers,         \* those of them that call object_setClass on it
  Classes,          \* classes the object may be an instance of
  RawClasses,       \* those whose instances need a raw isa (!canAllocNonpointer)
  RC_HALF,          \* 1<<7 on x86_64: half the range of isa.extra_rc
  SideLimit,        \* number of values of the side table's count: 2^(WORD_BITS-2)
  MaxRefs,          \* bound: strong references that exist at a time
  SpuriousFailure,  \* a store-exclusive may fail though isa did not change
  NoThread,         \* owner of a free lock
  NoClass           \* class of an all-zero isa

RC_MAX == 2 * RC_HALF - 1
SIDE_TABLE_RC_PINNED == SideLimit \div 2

\* isa.h: the narrowest extra_rc has 7 bits; a count never reaches the pinned
\* half of a 64-bit word by retaining.
ASSUME RefCountAssumption ==
  /\ IsFiniteSet(Threads) /\ NoThread \notin Threads
  /\ Changers \subseteq Threads
  /\ RawClasses \subseteq Classes /\ Classes # {} /\ NoClass \notin Classes
  /\ RC_HALF \in Nat /\ RC_HALF >= 2
  /\ SideLimit \in Nat /\ MaxRefs \in Nat \ {0}
  /\ MaxRefs < SIDE_TABLE_RC_PINNED /\ RC_HALF < SIDE_TABLE_RC_PINNED
  /\ SpuriousFailure \in BOOLEAN

VARIABLES
  isa,              \* the object's isa word
  side,             \* its word in SideTable::refcnts, all zero when absent
  lock,             \* owner of the side table's spinlock
  weakRef,          \* a __weak variable holds the object and is registered
  freed,            \* the memory is not an object
  crashed,          \* the process was aborted by the lock implementation
  refs,             \* ghost: strong references owned by clients
  selfRefs,         \* ghost: references -dealloc took on self
  deallocators,     \* ghost: threads running -dealloc of the object
  pc, oldisa, newisa, newCls, full, sideTableLocked   \* locals of each thread

heap == <<isa, side, weakRef, freed>>
ghost == <<refs, selfRefs, deallocators>>
locals == <<oldisa, newisa, newCls, full, sideTableLocked>>
vars == <<heap, lock, crashed, ghost, pc, locals>>

----------------------------------------------------------------------------
(* The two words.                                                          *)

IsaWord == [cls : Classes \cup {NoClass}, nonpointer : BOOLEAN, extra_rc : 0..RC_MAX,
        has_sidetable_rc : BOOLEAN, weakly_referenced : BOOLEAN]

ZeroIsa == [cls |-> NoClass, nonpointer |-> FALSE, extra_rc |-> 0,
            has_sidetable_rc |-> FALSE, weakly_referenced |-> FALSE]

\* Mutant: an inline count of zero is taken for the whole count.
MutIsDeallocating(i) == i.extra_rc = 0

IsDeallocating(i) == i.extra_rc = 0 /\ ~i.has_sidetable_rc

\* initIsa: a nonpointer isa starts with extra_rc = 1, a raw one is the class.
InitIsa(c) ==
  IF c \in RawClasses THEN [ZeroIsa EXCEPT !.cls = c]
  ELSE [ZeroIsa EXCEPT !.cls = c, !.nonpointer = TRUE, !.extra_rc = 1]

SideWord == [count : 0..SideLimit - 1, deallocating : BOOLEAN, weakly_referenced : BOOLEAN]

NoSide == [count |-> 0, deallocating |-> FALSE, weakly_referenced |-> FALSE]

Pinned(w) == w.count >= SIDE_TABLE_RC_PINNED

\* sidetable_addExtraRC_nolock: a carry out of the word pins the count.
SidetableAddExtraRC(w, delta) ==
  IF Pinned(w) THEN w
  ELSE [w EXCEPT !.count = IF @ + delta < SideLimit THEN @ + delta ELSE SIDE_TABLE_RC_PINNED]

\* Mutant: the move overwrites what the side table holds already.
MutSidetableMoveExtraRC(w, i) ==
  [count |-> (i.extra_rc - 1) % SideLimit,
   deallocating |-> IsDeallocating(i), weakly_referenced |-> i.weakly_referenced]

\* sidetable_moveExtraRC_nolock: (extra_rc - 1) is an unsigned subtraction.
SidetableMoveExtraRC(w, i) ==
  LET sum == w.count + ((i.extra_rc - 1) % SideLimit)
  IN  IF sum < SideLimit
      THEN [count |-> sum,
            deallocating |-> w.deallocating \/ IsDeallocating(i),
            weakly_referenced |-> w.weakly_referenced \/ i.weakly_referenced]
      ELSE [count |-> SIDE_TABLE_RC_PINNED,
            deallocating |-> IsDeallocating(i),
            weakly_referenced |-> i.weakly_referenced]

----------------------------------------------------------------------------
(* Who may call.                                                           *)

RetainPCs  == {"r_loop", "r_add"}
TryPCs     == {"t_loop", "t_add"}
ReleasePCs == {"l_loop", "l_borrow", "l_borrow2", "l_putback"}
ChangePCs  == {"c_loop", "c_move"}
DeallocPCs == {"d_body", "d_clear", "d_free"}
PCs == RetainPCs \cup TryPCs \cup ReleasePCs \cup ChangePCs \cup DeallocPCs
         \cup {"idle", "l_clear", "s_loop", "w_unlock"}

\* Calls in progress that give up a reference, and calls that rely on one.
Releasing == {t \in Threads \ deallocators : pc[t] \in ReleasePCs}
Using == {t \in Threads \ deallocators : pc[t] \in RetainPCs \cup {"t_add", "s_loop"} \cup ChangePCs}
Retaining == {t \in Threads \ deallocators : pc[t] \in {"r_loop", "t_loop"}}

Spare == refs - Cardinality(Releasing)
Idle(t) == pc[t] = "idle" /\ ~crashed
MayUse(t) == Idle(t) /\ Spare >= 1
MayRelease(t) == Idle(t) /\ Spare >= IF Using = {} THEN 1 ELSE 2
MayAddRef == refs + Cardinality(Retaining) < MaxRefs

----------------------------------------------------------------------------
(* Steps shared by the calls.                                              *)

At(t, p) == pc[t] = p /\ ~crashed
Goto(t, p) == pc' = [pc EXCEPT ![t] = p]

ResetLocals(t) ==
  /\ oldisa' = [oldisa EXCEPT ![t] = ZeroIsa]
  /\ newisa' = [newisa EXCEPT ![t] = ZeroIsa]
  /\ newCls' = [newCls EXCEPT ![t] = NoClass]
  /\ full' = [full EXCEPT ![t] = FALSE]
  /\ sideTableLocked' = [sideTableLocked EXCEPT ![t] = FALSE]

\* The call is over; inside -dealloc control goes back to the dealloc method.
Return(t) == Goto(t, IF t \in deallocators THEN "d_body" ELSE "idle") /\ ResetLocals(t)

LoadIsa(t) == oldisa' = [oldisa EXCEPT ![t] = isa]

\* StoreExclusive: on failure oldisa is what the word holds now.
StoreSucceeds(t) == isa = oldisa[t]
StoreFails(t) == isa # oldisa[t] \/ SpuriousFailure

GainRef(t) ==
  IF t \in deallocators THEN selfRefs' = selfRefs + 1 /\ UNCHANGED <<refs, deallocators>>
                        ELSE refs' = refs + 1 /\ UNCHANGED <<selfRefs, deallocators>>

\* The reference is gone; dealloc says whether -dealloc is called now.
DropRef(t, dealloc) ==
  /\ IF t \in deallocators THEN selfRefs' = selfRefs - 1 /\ refs' = refs
                           ELSE refs' = refs - 1 /\ selfRefs' = selfRefs
  /\ deallocators' = IF dealloc THEN deallocators \cup {t} ELSE deallocators

ReleaseDone(t, dealloc) ==
  /\ DropRef(t, dealloc)
  /\ Goto(t, IF dealloc \/ t \in deallocators THEN "d_body" ELSE "idle")
  /\ ResetLocals(t)

UnlockIf(b) == lock' = IF b THEN NoThread ELSE lock

----------------------------------------------------------------------------
(* _class_createInstanceFromZone                                           *)

Alloc(t, c) ==
  /\ Idle(t) /\ freed
  /\ isa' = InitIsa(c) /\ freed' = FALSE /\ refs' = 1
  /\ UNCHANGED <<side, weakRef, lock, crashed, selfRefs, deallocators, pc, locals>>

----------------------------------------------------------------------------
(* rootRetain, and rootTryRetain as objc_loadWeakRetained calls it.        *)

Retain(t) ==
  /\ \/ MayUse(t) /\ MayAddRef
     \/ At(t, "d_body") /\ selfRefs = 0
  /\ LoadIsa(t) /\ Goto(t, "r_loop")
  /\ UNCHANGED <<heap, lock, crashed, ghost, newisa, newCls, full, sideTableLocked>>

\* objc_loadWeakRetained: the variable is read again once the lock is held.
LoadWeakRetained(t) ==
  /\ Idle(t) /\ MayAddRef
  /\ weakRef /\ lock = NoThread
  /\ lock' = t /\ LoadIsa(t) /\ Goto(t, "t_loop")
  /\ UNCHANGED <<heap, crashed, ghost, newisa, newCls, full, sideTableLocked>>

InRetainLoop(t) == At(t, "r_loop") \/ At(t, "t_loop")
InTry(t) == pc[t] \in TryPCs

SidetableRetain(t) ==
  /\ At(t, "r_loop") /\ ~oldisa[t].nonpointer
  /\ lock \in {NoThread, t}
  /\ side' = [side EXCEPT !.count = IF Pinned(side) THEN @ ELSE @ + 1]
  /\ lock' = NoThread
  /\ GainRef(t) /\ Return(t)
  /\ UNCHANGED <<isa, weakRef, freed, crashed>>

\* Mutant: the deallocating bit is not looked at.
MutSidetableTryRetain(t) ==
  /\ At(t, "t_loop") /\ ~oldisa[t].nonpointer
  /\ side' = [side EXCEPT !.count = IF Pinned(side) THEN @ ELSE @ + 1]
  /\ GainRef(t)
  /\ Goto(t, "w_unlock") /\ ResetLocals(t)
  /\ UNCHANGED <<isa, weakRef, freed, lock, crashed>>

SidetableTryRetain(t) ==
  /\ At(t, "t_loop") /\ ~oldisa[t].nonpointer
  /\ IF side.deallocating
     THEN UNCHANGED <<side, ghost>>
     ELSE /\ side' = [side EXCEPT !.count = IF Pinned(side) THEN @ ELSE @ + 1]
          /\ GainRef(t)
  /\ Goto(t, "w_unlock") /\ ResetLocals(t)
  /\ UNCHANGED <<isa, weakRef, freed, lock, crashed>>

\* The object is deallocating: nil for a try, self otherwise.
RetainDeallocating(t) ==
  /\ InRetainLoop(t) /\ oldisa[t].nonpointer /\ IsDeallocating(oldisa[t])
  /\ UnlockIf(sideTableLocked[t])
  /\ IF InTry(t) THEN Goto(t, "w_unlock") /\ ResetLocals(t) /\ UNCHANGED ghost
                 ELSE Return(t) /\ GainRef(t)
  /\ UNCHANGED <<heap, crashed>>

RetainCarry(t) ==
  InRetainLoop(t) /\ oldisa[t].nonpointer /\ oldisa[t].extra_rc = RC_MAX

\* rootRetain_overflow: start over in the variant that handles the overflow.
RetainOverflow(t) ==
  /\ RetainCarry(t) /\ ~full[t]
  /\ full' = [full EXCEPT ![t] = TRUE] /\ LoadIsa(t)
  /\ UNCHANGED <<heap, lock, crashed, ghost, pc, newisa, newCls, sideTableLocked>>

RetainLock(t) ==
  /\ RetainCarry(t) /\ full[t] /\ ~InTry(t) /\ ~sideTableLocked[t]
  /\ lock = NoThread /\ lock' = t
  /\ sideTableLocked' = [sideTableLocked EXCEPT ![t] = TRUE]
  /\ UNCHANGED <<heap, crashed, ghost, pc, oldisa, newisa, newCls, full>>

ReadyToStore(t) ==
  /\ InRetainLoop(t) /\ oldisa[t].nonpointer /\ ~IsDeallocating(oldisa[t])
  /\ RetainCarry(t) => full[t] /\ (InTry(t) \/ sideTableLocked[t])

RetainStore(t) ==
  /\ ReadyToStore(t) /\ StoreSucceeds(t)
  /\ GainRef(t)
  /\ IF RetainCarry(t)
     THEN /\ isa' = [isa EXCEPT !.extra_rc = RC_HALF, !.has_sidetable_rc = TRUE]
          /\ Goto(t, IF InTry(t) THEN "t_add" ELSE "r_add")
          /\ UNCHANGED <<lock, locals>>
     ELSE /\ isa' = [isa EXCEPT !.extra_rc = @ + 1]
          /\ UnlockIf(~InTry(t) /\ sideTableLocked[t])
          /\ IF InTry(t) THEN Goto(t, "w_unlock") /\ ResetLocals(t) ELSE Return(t)
  /\ UNCHANGED <<side, weakRef, freed, crashed>>

RetainRetry(t) ==
  /\ ReadyToStore(t) /\ StoreFails(t)
  /\ LoadIsa(t)
  /\ sideTableLocked' = [sideTableLocked EXCEPT ![t] = @ \/ RetainCarry(t)]
  /\ UNCHANGED <<heap, lock, crashed, ghost, pc, newisa, newCls, full>>

RetainAdd(t) ==
  /\ At(t, "r_add") \/ At(t, "t_add")
  /\ side' = SidetableAddExtraRC(side, RC_HALF)
  /\ UnlockIf(~InTry(t))
  /\ IF InTry(t) THEN Goto(t, "w_unlock") /\ ResetLocals(t) ELSE Return(t)
  /\ UNCHANGED <<isa, weakRef, freed, crashed, ghost>>

\* objc_loadWeakRetained's own unlock; os_unfair_lock aborts a non-owner.
LoadWeakUnlock(t) ==
  /\ At(t, "w_unlock")
  /\ IF lock = t THEN lock' = NoThread /\ UNCHANGED crashed
                 ELSE crashed' = TRUE /\ UNCHANGED lock
  /\ Goto(t, "idle")
  /\ UNCHANGED <<heap, ghost, locals>>

----------------------------------------------------------------------------
(* rootRelease(performDealloc = true).                                     *)

Release(t) ==
  /\ \/ MayRelease(t)
     \/ At(t, "d_body") /\ selfRefs > 0
  /\ LoadIsa(t) /\ Goto(t, "l_loop")
  /\ UNCHANGED <<heap, lock, crashed, ghost, newisa, newCls, full, sideTableLocked>>

SidetableRelease(t) ==
  /\ At(t, "l_loop") /\ ~oldisa[t].nonpointer
  /\ lock \in {NoThread, t} /\ lock' = NoThread
  /\ LET dealloc == side.count = 0 /\ ~side.deallocating
     IN  /\ side' = [side EXCEPT !.deallocating = @ \/ dealloc,
                                 !.count = IF dealloc \/ Pinned(side) THEN @
                                           ELSE (@ - 1) % SideLimit]
         /\ ReleaseDone(t, dealloc)
  /\ UNCHANGED <<isa, weakRef, freed, crashed>>

ReleaseDeallocating(t) ==
  /\ At(t, "l_loop") /\ oldisa[t].nonpointer /\ IsDeallocating(oldisa[t])
  /\ UnlockIf(sideTableLocked[t])
  /\ ReleaseDone(t, FALSE)
  /\ UNCHANGED <<heap, crashed>>

ReleaseStore(t) ==
  /\ At(t, "l_loop") /\ oldisa[t].nonpointer /\ oldisa[t].extra_rc > 0
  /\ StoreSucceeds(t)
  /\ isa' = [isa EXCEPT !.extra_rc = @ - 1]
  /\ UnlockIf(sideTableLocked[t])
  /\ ReleaseDone(t, IsDeallocating(isa'))
  /\ UNCHANGED <<side, weakRef, freed, crashed>>

ReleaseRetry(t) ==
  /\ At(t, "l_loop") /\ oldisa[t].nonpointer /\ oldisa[t].extra_rc > 0
  /\ StoreFails(t) /\ LoadIsa(t)
  /\ UNCHANGED <<heap, lock, crashed, ghost, pc, newisa, newCls, full, sideTableLocked>>

Underflows(t) ==
  /\ At(t, "l_loop") /\ oldisa[t].nonpointer
  /\ oldisa[t].extra_rc = 0 /\ oldisa[t].has_sidetable_rc

\* rootRelease_underflow
ReleaseUnderflow(t) ==
  /\ Underflows(t) /\ ~full[t]
  /\ full' = [full EXCEPT ![t] = TRUE] /\ LoadIsa(t)
  /\ UNCHANGED <<heap, lock, crashed, ghost, pc, newisa, newCls, sideTableLocked>>

\* Mutant: isa is not read again once the lock is held.
MutReleaseLock(t) ==
  /\ Underflows(t) /\ full[t] /\ ~sideTableLocked[t]
  /\ lock = NoThread /\ lock' = t
  /\ sideTableLocked' = [sideTableLocked EXCEPT ![t] = TRUE]
  /\ UNCHANGED <<heap, crashed, ghost, pc, oldisa, newisa, newCls, full>>

ReleaseLock(t) ==
  /\ Underflows(t) /\ full[t] /\ ~sideTableLocked[t]
  /\ lock = NoThread /\ lock' = t
  /\ sideTableLocked' = [sideTableLocked EXCEPT ![t] = TRUE]
  /\ LoadIsa(t)
  /\ UNCHANGED <<heap, crashed, ghost, pc, newisa, newCls, full>>

\* sidetable_subExtraRC_nolock; an empty word falls through to dealloc.
ReleaseBorrow(t) ==
  /\ Underflows(t) /\ full[t] /\ sideTableLocked[t]
  /\ IF side = NoSide
     THEN UnlockIf(TRUE) /\ ReleaseDone(t, TRUE) /\ UNCHANGED side
     ELSE /\ side' = [side EXCEPT !.count = (@ - RC_HALF) % SideLimit]
          /\ Goto(t, "l_borrow")
          /\ UNCHANGED <<lock, ghost, locals>>
  /\ UNCHANGED <<isa, weakRef, freed, crashed>>

\* Mutant: the original decrement is not redone.
MutBorrowSum(t) == oldisa[t].extra_rc + RC_HALF

\* At l_borrow oldisa.extra_rc is 0, so both attempts compute the same sum.
\* RC_HALF >= 2: the sum is positive, this is never the release to zero.
BorrowSum(t) == oldisa[t].extra_rc + RC_HALF - 1

BorrowStore(t) ==
  /\ At(t, "l_borrow") \/ At(t, "l_borrow2")
  /\ BorrowSum(t) <= RC_MAX /\ StoreSucceeds(t)
  /\ isa' = [isa EXCEPT !.extra_rc = BorrowSum(t), !.has_sidetable_rc = (side.count # 0)]
  /\ IF side.count = 0
     THEN /\ DropRef(t, FALSE) /\ Goto(t, "l_clear")
          /\ UNCHANGED <<lock, locals>>
     ELSE ReleaseDone(t, FALSE) /\ UnlockIf(TRUE)
  /\ UNCHANGED <<side, weakRef, freed, crashed>>

BorrowFail(t) ==
  /\ At(t, "l_borrow") /\ StoreFails(t)
  /\ LoadIsa(t)
  /\ Goto(t, IF isa.nonpointer THEN "l_borrow2" ELSE "l_putback")
  /\ UNCHANGED <<heap, lock, crashed, ghost, newisa, newCls, full, sideTableLocked>>

BorrowFailAgain(t) ==
  /\ At(t, "l_borrow2") /\ (BorrowSum(t) > RC_MAX \/ StoreFails(t))
  /\ Goto(t, "l_putback")
  /\ UNCHANGED <<heap, lock, crashed, ghost, locals>>

\* Mutant: what was borrowed is not put back.
MutReleasePutBack(t) ==
  /\ At(t, "l_putback")
  /\ LoadIsa(t) /\ Goto(t, "l_loop")
  /\ UNCHANGED <<heap, lock, crashed, ghost, newisa, newCls, full, sideTableLocked>>

ReleasePutBack(t) ==
  /\ At(t, "l_putback")
  /\ side' = SidetableAddExtraRC(side, RC_HALF)
  /\ LoadIsa(t) /\ Goto(t, "l_loop")
  /\ UNCHANGED <<isa, weakRef, freed, lock, crashed, ghost, newisa, newCls, full, sideTableLocked>>

\* Mutant: the lock is not released on this path.
MutReleaseClear(t) ==
  /\ At(t, "l_clear")
  /\ side' = NoSide
  /\ Return(t)
  /\ UNCHANGED <<isa, weakRef, freed, lock, crashed, ghost>>

\* sidetable_clearExtraRC_nolock erases the whole word.
ReleaseClear(t) ==
  /\ At(t, "l_clear")
  /\ side' = NoSide
  /\ lock' = NoThread
  /\ Return(t)
  /\ UNCHANGED <<isa, weakRef, freed, crashed, ghost>>

----------------------------------------------------------------------------
(* -[NSObject dealloc]: rootDealloc, object_dispose, clearDeallocating.    *)

\* free(): the client's dealloc is over.
FreeMemory(t) ==
  /\ freed' = TRUE /\ Goto(t, "idle")
  /\ deallocators' = deallocators \ {t}

\* Mutant: the fast path does not look at weakly_referenced.
MutRootDealloc(t) ==
  /\ At(t, "d_body") /\ selfRefs = 0
  /\ IF isa.nonpointer /\ ~isa.has_sidetable_rc
     THEN FreeMemory(t)
     ELSE Goto(t, "d_clear") /\ UNCHANGED <<freed, deallocators>>
  /\ UNCHANGED <<isa, side, weakRef, lock, crashed, refs, selfRefs, locals>>

RootDealloc(t) ==
  /\ At(t, "d_body") /\ selfRefs = 0
  /\ IF isa.nonpointer /\ ~isa.weakly_referenced /\ ~isa.has_sidetable_rc
     THEN FreeMemory(t)
     ELSE Goto(t, "d_clear") /\ UNCHANGED <<freed, deallocators>>
  /\ UNCHANGED <<isa, side, weakRef, lock, crashed, refs, selfRefs, locals>>

\* sidetable_clearDeallocating and clearDeallocating_slow
ClearDeallocating(t) ==
  /\ At(t, "d_clear") /\ lock = NoThread
  /\ IF isa.nonpointer
     THEN /\ weakRef' = (weakRef /\ ~isa.weakly_referenced)
          /\ side' = IF isa.has_sidetable_rc THEN NoSide ELSE side
     ELSE /\ weakRef' = (weakRef /\ ~side.weakly_referenced)
          /\ side' = NoSide
  /\ Goto(t, "d_free")
  /\ UNCHANGED <<isa, freed, lock, crashed, ghost, locals>>

Dispose(t) ==
  /\ At(t, "d_free") /\ FreeMemory(t)
  /\ UNCHANGED <<isa, side, weakRef, lock, crashed, refs, selfRefs, locals>>

----------------------------------------------------------------------------
(* Weak references, as far as they touch the two words: storeWeak into one *)
(* variable, with setWeaklyReferenced_nolock, and objc_destroyWeak.        *)

StoreWeak(t) ==
  /\ MayUse(t) /\ ~weakRef /\ lock = NoThread
  /\ lock' = t /\ LoadIsa(t) /\ Goto(t, "s_loop")
  /\ UNCHANGED <<heap, crashed, ghost, newisa, newCls, full, sideTableLocked>>

\* Mutant: the bit always goes to the side table.
MutSetWeaklyReferenced(t) ==
  /\ At(t, "s_loop")
  /\ side' = [side EXCEPT !.weakly_referenced = TRUE]
  /\ weakRef' = TRUE
  /\ lock' = NoThread
  /\ Return(t)
  /\ UNCHANGED <<isa, freed, crashed, ghost>>

SetWeaklyReferenced(t) ==
  /\ At(t, "s_loop")
  /\ IF oldisa[t].nonpointer
     THEN /\ oldisa[t].weakly_referenced \/ StoreSucceeds(t)
          /\ isa' = IF oldisa[t].weakly_referenced THEN isa
                    ELSE [isa EXCEPT !.weakly_referenced = TRUE]
          /\ side' = side
     ELSE side' = [side EXCEPT !.weakly_referenced = TRUE] /\ isa' = isa
  /\ weakRef' = TRUE
  /\ lock' = NoThread
  /\ Return(t)
  /\ UNCHANGED <<freed, crashed, ghost>>

SetWeaklyRetry(t) ==
  /\ At(t, "s_loop") /\ oldisa[t].nonpointer /\ ~oldisa[t].weakly_referenced
  /\ StoreFails(t) /\ LoadIsa(t)
  /\ UNCHANGED <<heap, lock, crashed, ghost, pc, newisa, newCls, full, sideTableLocked>>

DestroyWeak(t) ==
  /\ Idle(t) /\ weakRef /\ lock = NoThread
  /\ weakRef' = FALSE
  /\ UNCHANGED <<isa, side, freed, lock, crashed, ghost, pc, locals>>

----------------------------------------------------------------------------
(* changeIsa, called by object_setClass.                                   *)

ChangeIsa(t, c) ==
  /\ t \in Changers /\ MayUse(t)
  /\ LoadIsa(t)
  /\ newCls' = [newCls EXCEPT ![t] = c]
  /\ Goto(t, "c_loop")
  /\ UNCHANGED <<heap, lock, crashed, ghost, newisa, full, sideTableLocked>>

\* nonpointer -> raw pointer
ToRaw(t) == oldisa[t].nonpointer /\ newCls[t] \in RawClasses

ChangeLock(t) ==
  /\ At(t, "c_loop") /\ ToRaw(t) /\ ~sideTableLocked[t]
  /\ lock = NoThread /\ lock' = t
  /\ sideTableLocked' = [sideTableLocked EXCEPT ![t] = TRUE]
  /\ UNCHANGED <<heap, crashed, ghost, pc, oldisa, newisa, newCls, full>>

\* setClass replaces only the class bits of newisa, and newisa keeps what an
\* earlier turn of the loop left in it.
ChangedIsa(t) ==
  IF oldisa[t].nonpointer /\ newCls[t] \notin RawClasses
  THEN [oldisa[t] EXCEPT !.cls = newCls[t]]
  ELSE [newisa[t] EXCEPT !.cls = newCls[t]]

ChangeReady(t) == At(t, "c_loop") /\ (ToRaw(t) => sideTableLocked[t])

ChangeStore(t) ==
  /\ ChangeReady(t) /\ StoreSucceeds(t)
  /\ isa' = ChangedIsa(t)
  /\ IF ToRaw(t)
     THEN Goto(t, "c_move") /\ UNCHANGED <<lock, locals>>
     ELSE UnlockIf(sideTableLocked[t]) /\ Return(t)
  /\ UNCHANGED <<side, weakRef, freed, crashed, ghost>>

ChangeRetry(t) ==
  /\ ChangeReady(t) /\ StoreFails(t)
  /\ LoadIsa(t)
  /\ newisa' = [newisa EXCEPT ![t] = ChangedIsa(t)]
  /\ UNCHANGED <<heap, lock, crashed, ghost, pc, newCls, full, sideTableLocked>>

ChangeMove(t) ==
  /\ At(t, "c_move")
  /\ side' = SidetableMoveExtraRC(side, oldisa[t])
  /\ lock' = NoThread
  /\ Return(t)
  /\ UNCHANGED <<isa, weakRef, freed, crashed, ghost>>

----------------------------------------------------------------------------

Init ==
  /\ isa = ZeroIsa /\ side = NoSide /\ weakRef = FALSE /\ freed = TRUE
  /\ lock = NoThread /\ crashed = FALSE
  /\ refs = 0 /\ selfRefs = 0 /\ deallocators = {}
  /\ pc = [t \in Threads |-> "idle"]
  /\ oldisa = [t \in Threads |-> ZeroIsa]
  /\ newisa = [t \in Threads |-> ZeroIsa]
  /\ newCls = [t \in Threads |-> NoClass]
  /\ full = [t \in Threads |-> FALSE]
  /\ sideTableLocked = [t \in Threads |-> FALSE]

\* A new call on the object, and a step inside a call.
Call(t) ==
  \/ \E c \in Classes : Alloc(t, c) \/ ChangeIsa(t, c)
  \/ Retain(t) \/ Release(t)
  \/ LoadWeakRetained(t) \/ StoreWeak(t) \/ DestroyWeak(t)

RetainStep(t) ==
  \/ SidetableRetain(t) \/ SidetableTryRetain(t) \/ RetainDeallocating(t)
  \/ RetainOverflow(t) \/ RetainLock(t) \/ RetainStore(t) \/ RetainRetry(t)
  \/ RetainAdd(t) \/ LoadWeakUnlock(t)

ReleaseStep(t) ==
  \/ SidetableRelease(t) \/ ReleaseDeallocating(t)
  \/ ReleaseStore(t) \/ ReleaseRetry(t)
  \/ ReleaseUnderflow(t) \/ ReleaseLock(t) \/ ReleaseBorrow(t)
  \/ BorrowStore(t) \/ BorrowFail(t) \/ BorrowFailAgain(t)
  \/ ReleasePutBack(t) \/ ReleaseClear(t)

DeallocStep(t) == RootDealloc(t) \/ ClearDeallocating(t) \/ Dispose(t)

WeakStep(t) == SetWeaklyReferenced(t) \/ SetWeaklyRetry(t)

ChangeStep(t) == ChangeLock(t) \/ ChangeStore(t) \/ ChangeRetry(t) \/ ChangeMove(t)

Step(t) == RetainStep(t) \/ ReleaseStep(t) \/ DeallocStep(t) \/ WeakStep(t) \/ ChangeStep(t)

Next == \E t \in Threads : Call(t) \/ Step(t)

Spec == Init /\ [][Next]_vars

\* Running threads make progress, a thread waiting for the lock is not passed
\* over forever, and the client's -dealloc reaches [super dealloc].
Fairness ==
  \A t \in Threads :
    /\ SF_vars(Step(t))
    /\ SF_vars(RootDealloc(t))
    /\ WF_vars(t \in deallocators /\ Release(t))

FairSpec == Spec /\ Fairness

----------------------------------------------------------------------------
(* The abstract object: one count, one phase, one weak variable.           *)

phase == IF freed THEN "free" ELSE IF deallocators = {} THEN "live" ELSE "dealloc"

Lifetime == INSTANCE ObjectLifetime WITH phase <- phase, refs <- refs, weak <- weakRef

\* The two words, the lock and the compare-and-swap loops implement an atomic
\* reference count with a zeroing weak variable.
ImplementsLifetime == Lifetime!Spec

----------------------------------------------------------------------------
(* Properties.                                                             *)

\* Every variable has its type: the isa fields and the side table word stay in
\* their bit widths through every store of rootRetain, rootRelease, changeIsa.
TypeOK ==
  /\ isa \in IsaWord /\ side \in SideWord
  /\ lock \in Threads \cup {NoThread}
  /\ weakRef \in BOOLEAN /\ freed \in BOOLEAN /\ crashed \in BOOLEAN
  /\ refs \in Nat /\ selfRefs \in Int /\ deallocators \in SUBSET Threads
  /\ pc \in [Threads -> PCs]
  /\ oldisa \in [Threads -> IsaWord] /\ newisa \in [Threads -> IsaWord]
  /\ newCls \in [Threads -> Classes \cup {NoClass}]
  /\ full \in [Threads -> BOOLEAN] /\ sideTableLocked \in [Threads -> BOOLEAN]

\* What rootRetainCount returns: it reads both words under the lock.
RetainCount ==
  IF isa.nonpointer THEN isa.extra_rc + (IF isa.has_sidetable_rc THEN side.count ELSE 0)
                    ELSE side.count + 1

\* While the object lives and nobody is inside a critical section, the count
\* spread over isa and the side table is exactly the number of references:
\* overflow, borrow and put-back races lose and invent nothing.
RetainCountExact ==
  lock = NoThread /\ ~freed /\ deallocators = {} => RetainCount = refs

\* The same with object_setClass in play, where the count may also be pinned
\* (never low): the move to the side table loses no reference.
RetainCountCovers ==
  lock = NoThread /\ ~freed /\ deallocators = {} => RetainCount >= refs

\* -dealloc runs only when no strong reference is left, and on one thread.
NoPrematureDealloc ==
  /\ deallocators # {} => refs = 0
  /\ Cardinality(deallocators) <= 1

\* Memory is freed only when no call is going to read the isa word again.
NoUseAfterFree ==
  freed => \A t \in Threads : pc[t] \in {"idle", "l_clear", "w_unlock"}

\* When the memory is freed nothing of the object stays behind: no weak
\* variable holds its address and the side table has no word for it.
FreedIsForgotten == freed => ~weakRef /\ side = NoSide

\* A release that underflows under the lock always finds something to borrow:
\* the fall-through "Side table is empty after all" is dead.
BorrowFindsCount ==
  \A t \in Threads :
    Underflows(t) /\ full[t] /\ sideTableLocked[t] => side.count >= RC_HALF

\* Once -dealloc has begun the memory is freed: nobody leaves a call with the
\* side table locked, which would block clearDeallocating forever.
DeallocFinishes == (deallocators # {}) ~> (freed \/ crashed)

\* The lock is released by the thread that holds it: the process is never
\* aborted by an unlock in objc_loadWeakRetained.
LockBalanced == ~crashed
----------------------------------------------------------------------------
(* The inductive invariant behind the properties, where at most one thread *)
(* changes the class.                                                      *)

\* Positions at which the thread owns the side table's lock, those at which
\* half of the inline count is on its way between the two words, and those at
\* which the call's copy of isa is still going to be used.
LockedPCs == {"t_loop", "t_add", "r_add", "l_borrow", "l_borrow2", "l_putback", "l_clear", "s_loop", "c_move"}
InFlightPCs == {"t_add", "r_add", "l_borrow", "l_borrow2", "l_putback"}
LoopPCs == {"r_loop", "t_loop", "l_loop", "s_loop", "l_borrow", "l_borrow2"}
QuietPCs == {"idle", "w_unlock", "d_body", "d_clear", "d_free"}

InFlight == IF \E t \in Threads : pc[t] \in InFlightPCs THEN RC_HALF ELSE 0

\* The isa word is raw already and the count has still to be moved.
Moving == \E t \in Threads : pc[t] = "c_move"

\* The count was pinned when it was moved: the object is never going to be freed.
Leaked == Changers # {} /\ ~isa.nonpointer /\ side.count = SIDE_TABLE_RC_PINNED

\* The side table takes and gives counts of a nonpointer object by RC_HALF.
Halves(n) == \E k \in 0..n : n = k * RC_HALF

LockInv ==
  \A t \in Threads :
    /\ pc[t] \in LockedPCs => lock = t
    /\ pc[t] \in {"r_loop", "l_loop", "c_loop"} /\ sideTableLocked[t] => lock = t
    /\ pc[t] \in QuietPCs => ~sideTableLocked[t]

ClientInv ==
  /\ Cardinality(Releasing) <= refs
  /\ Using # {} => Cardinality(Releasing) < refs
  /\ refs + Cardinality(Retaining) <= MaxRefs

PhaseInv ==
  /\ freed => deallocators = {} /\ refs = 0 /\ side = NoSide /\ ~weakRef
  /\ deallocators # {} => refs = 0
  /\ ~freed /\ deallocators = {} => refs > 0 \/ Leaked
  /\ deallocators = {} => selfRefs = 0
  /\ \A t, u \in deallocators : t = u
  /\ selfRefs \in {0, 1}

DeallocInv ==
  \A t \in Threads :
    /\ pc[t] \in DeallocPCs => t \in deallocators
    /\ t \in deallocators => pc[t] \in DeallocPCs \cup {"r_loop", "l_loop"}
    /\ t \in deallocators /\ pc[t] \in {"d_clear", "d_free", "r_loop"} => selfRefs = 0
    /\ t \in deallocators /\ pc[t] = "l_loop" => selfRefs = 1
    /\ pc[t] = "d_free" => side = NoSide /\ ~weakRef

CountInv ==
  /\ ~freed /\ isa.nonpointer =>
       /\ isa.extra_rc + side.count + InFlight = refs
       /\ ~isa.has_sidetable_rc => side.count = 0 /\ InFlight = 0
       /\ isa.has_sidetable_rc => side.count + InFlight > 0
       /\ Halves(side.count)
       /\ ~side.deallocating /\ ~side.weakly_referenced
  /\ ~freed /\ ~isa.nonpointer /\ ~Moving =>
       /\ deallocators = {} => (side.count + 1 = refs \/ Leaked) /\ ~side.deallocating
       /\ deallocators # {} /\ (\A t \in Threads : pc[t] # "d_free") =>
            side.deallocating /\ side.count = selfRefs

WeakInv ==
  /\ weakRef /\ ~Moving => IF isa.nonpointer THEN isa.weakly_referenced ELSE side.weakly_referenced
  /\ \A t \in Threads : pc[t] = "t_loop" => weakRef

LoopInv ==
  \A t \in Threads :
    /\ pc[t] \in LoopPCs /\ isa.nonpointer => oldisa[t].nonpointer
    /\ pc[t] \in LoopPCs /\ (pc[t] = "s_loop" \/ t \in deallocators) /\ oldisa[t].nonpointer => isa.nonpointer
    /\ pc[t] \in {"r_loop", "l_loop"} /\ oldisa[t].nonpointer =>
         (IsDeallocating(oldisa[t]) <=> t \in deallocators)
    /\ pc[t] = "l_loop" /\ sideTableLocked[t] /\ oldisa[t].nonpointer /\ oldisa[t].has_sidetable_rc =>
         isa.nonpointer /\ isa.has_sidetable_rc
    /\ pc[t] = "l_borrow" => oldisa[t].extra_rc = 0
    /\ pc[t] = "s_loop" /\ oldisa[t].nonpointer /\ oldisa[t].weakly_referenced => isa.weakly_referenced
    /\ pc[t] \in InFlightPCs => isa.nonpointer /\ isa.has_sidetable_rc
    /\ pc[t] = "l_clear" => side = NoSide

\* A raw isa has no bits besides the class.
ClassOnly(i) == ~i.nonpointer /\ i.extra_rc = 0 /\ ~i.has_sidetable_rc /\ ~i.weakly_referenced

\* What a change of the class has in hand: while it loops nobody else makes isa raw;
\* between its store and the move the references are counted by its copy of isa.
ChangeInv ==
  \A t \in Threads :
    /\ pc[t] \in ChangePCs => t \in Changers
    /\ pc[t] \notin ChangePCs => newisa[t] = ZeroIsa
    /\ pc[t] = "c_loop" =>
         /\ oldisa[t].nonpointer = isa.nonpointer
         /\ newCls[t] \in RawClasses \/ ~isa.nonpointer => ClassOnly(newisa[t])
    /\ pc[t] = "c_move" =>
         /\ ~isa.nonpointer /\ oldisa[t].nonpointer
         /\ oldisa[t].extra_rc + side.count = refs /\ Halves(side.count)
         /\ oldisa[t].has_sidetable_rc <=> side.count > 0
         /\ ~side.deallocating /\ ~side.weakly_referenced
         /\ weakRef => oldisa[t].weakly_referenced

\* What every step of retain, release, weak load, class change and dealloc preserves:
\* who holds the lock, how the references are spread over isa, the side table and
\* what is in flight, and which isa a loop may still have in hand.
IndInv ==
  /\ TypeOK /\ LockInv /\ ClientInv /\ PhaseInv /\ DeallocInv
  /\ CountInv /\ WeakInv /\ LoopInv /\ ChangeInv
=============================================================================
