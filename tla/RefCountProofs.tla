--------------------------- MODULE RefCountProofs ---------------------------
(***************************************************************************)
(* Proofs about RefCount for every number of threads, every width of       *)
(* extra_rc and every bound on the references, where at most one thread    *)
(* changes the class of the object (OneChanger).  That the count is exact, *)
(* and the refinement of the abstract object, are proved where nobody does *)
(* (Changers = {}): a change may pin the count and leak the object.        *)
(***************************************************************************)
EXTENDS RefCount, FiniteSetTheorems, TLAPS

----------------------------------------------------------------------------
(* Counting the calls in progress.                                         *)

\* The sets of calls in progress are finite.
LEMMA CallsFinite ==
  ASSUME TypeOK
  PROVE  /\ IsFiniteSet(Releasing) /\ Cardinality(Releasing) \in Nat
         /\ IsFiniteSet(Retaining) /\ Cardinality(Retaining) \in Nat
<1>1. IsFiniteSet(Threads)
  BY RefCountAssumption
<1>2. Releasing \subseteq Threads /\ Retaining \subseteq Threads
  BY DEF Releasing, Retaining
<1>3. IsFiniteSet(Releasing) /\ IsFiniteSet(Retaining)
  BY <1>1, <1>2, FS_Subset
<1> QED
  BY <1>3, FS_CardinalityType

\* Adding or removing one element changes the cardinality by one.
LEMMA CardinalityChange ==
  ASSUME NEW S, IsFiniteSet(S), NEW T, NEW x, S \ {x} = T \ {x}
  PROVE  /\ IsFiniteSet(T)
         /\ x \in T /\ x \notin S => Cardinality(T) = Cardinality(S) + 1
         /\ x \notin T /\ x \in S => Cardinality(T) = Cardinality(S) - 1
         /\ (x \in T <=> x \in S) => Cardinality(T) = Cardinality(S)
<1>1. IsFiniteSet(S \ {x}) /\ Cardinality(S \ {x}) = IF x \in S THEN Cardinality(S) - 1 ELSE Cardinality(S)
  BY FS_RemoveElement
<1>2. IsFiniteSet(T \ {x}) /\ Cardinality(T \ {x}) = Cardinality(S \ {x})
  BY <1>1
<1>3. x \notin T \ {x}
  OBVIOUS
<1>4. IsFiniteSet((T \ {x}) \cup {x}) /\ Cardinality((T \ {x}) \cup {x}) = Cardinality(T \ {x}) + 1
  BY <1>2, <1>3, FS_AddElement
<1>5. Cardinality(S) \in Nat
  BY FS_CardinalityType
<1>6. CASE x \in T
  <2>1. (T \ {x}) \cup {x} = T
    BY <1>6
  <2>2. IsFiniteSet(T) /\ Cardinality(T) = Cardinality(T \ {x}) + 1
    BY <1>4, <2>1, Zenon
  <2> QED
    BY <1>1, <1>2, <1>5, <1>6, <2>2
<1>7. CASE x \notin T
  <2>1. T \ {x} = T
    BY <1>7
  <2>2. IsFiniteSet(T) /\ Cardinality(T) = Cardinality(T \ {x})
    BY <1>2, <2>1, Zenon
  <2> QED
    BY <1>1, <1>2, <1>5, <1>7, <2>2
<1> QED
  BY <1>6, <1>7

UsingPCs == RetainPCs \cup {"t_add", "s_loop"} \cup ChangePCs
StartPCs == {"r_loop", "t_loop"}

\* How a step of one thread changes the number of releases and retains.
LEMMA CallsChange ==
  ASSUME IndInv, NEW t \in Threads, NEW p, pc' = [pc EXCEPT ![t] = p],
         deallocators' \ {t} = deallocators \ {t},
         NEW R \in BOOLEAN, R = (t \notin deallocators /\ pc[t] \in ReleasePCs),
         NEW R2 \in BOOLEAN, R2 = (t \notin deallocators' /\ p \in ReleasePCs),
         NEW S \in BOOLEAN, S = (t \notin deallocators /\ pc[t] \in StartPCs),
         NEW S2 \in BOOLEAN, S2 = (t \notin deallocators' /\ p \in StartPCs)
  PROVE  /\ Cardinality(Releasing) \in Nat /\ Cardinality(Releasing)' \in Nat
         /\ Cardinality(Retaining) \in Nat /\ Cardinality(Retaining)' \in Nat
         /\ R2 /\ ~R => Cardinality(Releasing)' = Cardinality(Releasing) + 1
         /\ ~R2 /\ R => Cardinality(Releasing)' = Cardinality(Releasing) - 1
         /\ (R2 <=> R) => Cardinality(Releasing)' = Cardinality(Releasing)
         /\ S2 /\ ~S => Cardinality(Retaining)' = Cardinality(Retaining) + 1
         /\ ~S2 /\ S => Cardinality(Retaining)' = Cardinality(Retaining) - 1
         /\ (S2 <=> S) => Cardinality(Retaining)' = Cardinality(Retaining)
         /\ Using' # {} => Using # {} \/ (t \notin deallocators' /\ p \in UsingPCs)
<1>0. pc \in [Threads -> PCs] /\ pc'[t] = p /\ \A u \in Threads \ {t} : pc'[u] = pc[u]
  BY DEF IndInv, TypeOK
<1>1. (t \in Releasing <=> R) /\ (t \in Retaining <=> S)
  BY DEF Releasing, Retaining, StartPCs
<1>2. (t \in Releasing' <=> R2) /\ (t \in Retaining' <=> S2)
  BY <1>0 DEF Releasing, Retaining, StartPCs
<1>3. Releasing \ {t} = Releasing' \ {t}
  BY <1>0 DEF Releasing
<1>4. Retaining \ {t} = Retaining' \ {t}
  BY <1>0 DEF Retaining
<1>5. IsFiniteSet(Releasing) /\ IsFiniteSet(Retaining)
  BY CallsFinite DEF IndInv
<1>6. /\ IsFiniteSet(Releasing')
      /\ R2 /\ ~R => Cardinality(Releasing') = Cardinality(Releasing) + 1
      /\ ~R2 /\ R => Cardinality(Releasing') = Cardinality(Releasing) - 1
      /\ (R2 <=> R) => Cardinality(Releasing') = Cardinality(Releasing)
  BY <1>1, <1>2, <1>3, <1>5, CardinalityChange
<1>7. /\ IsFiniteSet(Retaining')
      /\ S2 /\ ~S => Cardinality(Retaining') = Cardinality(Retaining) + 1
      /\ ~S2 /\ S => Cardinality(Retaining') = Cardinality(Retaining) - 1
      /\ (S2 <=> S) => Cardinality(Retaining') = Cardinality(Retaining)
  BY <1>1, <1>2, <1>4, <1>5, CardinalityChange
<1>8. /\ Cardinality(Releasing) \in Nat /\ Cardinality(Releasing)' \in Nat
      /\ Cardinality(Retaining) \in Nat /\ Cardinality(Retaining)' \in Nat
  BY <1>5, <1>6, <1>7, FS_CardinalityType
<1>9. Using' # {} => Using # {} \/ (t \notin deallocators' /\ p \in UsingPCs)
  BY <1>0 DEF Using, UsingPCs
<1> QED
  BY <1>6, <1>7, <1>8, <1>9

\* The same for a thread that is not in -dealloc before and after the step.
LEMMA CallsStep ==
  ASSUME IndInv, NEW t \in Threads, NEW p, pc' = [pc EXCEPT ![t] = p],
         deallocators' = deallocators, t \notin deallocators
  PROVE  /\ Cardinality(Releasing) \in Nat /\ Cardinality(Releasing)' \in Nat
         /\ Cardinality(Retaining) \in Nat /\ Cardinality(Retaining)' \in Nat
         /\ p \in ReleasePCs /\ pc[t] \notin ReleasePCs => Cardinality(Releasing)' = Cardinality(Releasing) + 1
         /\ p \notin ReleasePCs /\ pc[t] \in ReleasePCs => Cardinality(Releasing)' = Cardinality(Releasing) - 1
         /\ (p \in ReleasePCs <=> pc[t] \in ReleasePCs) => Cardinality(Releasing)' = Cardinality(Releasing)
         /\ p \in StartPCs /\ pc[t] \notin StartPCs => Cardinality(Retaining)' = Cardinality(Retaining) + 1
         /\ p \notin StartPCs /\ pc[t] \in StartPCs => Cardinality(Retaining)' = Cardinality(Retaining) - 1
         /\ (p \in StartPCs <=> pc[t] \in StartPCs) => Cardinality(Retaining)' = Cardinality(Retaining)
         /\ Using' # {} => Using # {} \/ p \in UsingPCs
<1>1. deallocators' \ {t} = deallocators \ {t}
  OBVIOUS
<1> DEFINE R  == t \notin deallocators /\ pc[t] \in ReleasePCs
           R2 == t \notin deallocators' /\ p \in ReleasePCs
           S  == t \notin deallocators /\ pc[t] \in StartPCs
           S2 == t \notin deallocators' /\ p \in StartPCs
<1>2. /\ R \in BOOLEAN /\ R2 \in BOOLEAN /\ S \in BOOLEAN /\ S2 \in BOOLEAN
      /\ R <=> pc[t] \in ReleasePCs
      /\ R2 <=> p \in ReleasePCs
      /\ S <=> pc[t] \in StartPCs
      /\ S2 <=> p \in StartPCs
  OBVIOUS
<1>3. /\ Cardinality(Releasing) \in Nat /\ Cardinality(Releasing)' \in Nat
      /\ Cardinality(Retaining) \in Nat /\ Cardinality(Retaining)' \in Nat
      /\ R2 /\ ~R => Cardinality(Releasing)' = Cardinality(Releasing) + 1
      /\ ~R2 /\ R => Cardinality(Releasing)' = Cardinality(Releasing) - 1
      /\ (R2 <=> R) => Cardinality(Releasing)' = Cardinality(Releasing)
      /\ S2 /\ ~S => Cardinality(Retaining)' = Cardinality(Retaining) + 1
      /\ ~S2 /\ S => Cardinality(Retaining)' = Cardinality(Retaining) - 1
      /\ (S2 <=> S) => Cardinality(Retaining)' = Cardinality(Retaining)
      /\ Using' # {} => Using # {} \/ (t \notin deallocators' /\ p \in UsingPCs)
  <2> HIDE DEF R, R2, S, S2
  <2> QED
    BY <1>1, <1>2, CallsChange DEF R, R2, S, S2
<1> QED
  BY <1>2, <1>3

\* What the invariant says of a thread that is using the object: it lives.
LEMMA Consequences ==
  ASSUME IndInv, NEW t \in Threads
  PROVE  /\ t \notin deallocators
              /\ pc[t] \in {"r_loop", "r_add", "t_add", "s_loop", "l_loop", "l_borrow", "l_borrow2", "l_putback", "c_loop", "c_move"}
              => refs > 0 /\ deallocators = {} /\ ~freed
         /\ pc[t] = "t_loop" => ~freed /\ t \notin deallocators
         /\ pc[t] = "idle" => t \notin deallocators
<1>1. Cardinality(Releasing) \in Nat /\ IsFiniteSet(Releasing)
  BY CallsFinite DEF IndInv
<1>2. ASSUME t \in Releasing
      PROVE  Cardinality(Releasing) > 0
  <2>1. Cardinality(Releasing) = 0 => Releasing = {}
    BY <1>1, FS_EmptySet
  <2> QED
    BY <1>1, <1>2, <2>1
<1>3. t \notin deallocators /\ pc[t] \in ReleasePCs => t \in Releasing
  BY DEF Releasing
<1>4. t \notin deallocators /\ pc[t] \in {"r_loop", "r_add", "t_add", "s_loop", "c_loop", "c_move"} => Using # {}
  BY DEF Using, RetainPCs, ChangePCs
<1>5. refs \in Nat
  BY DEF IndInv, TypeOK
<1> QED
  BY <1>1, <1>2, <1>3, <1>4, <1>5 DEF IndInv, ClientInv, PhaseInv, ReleasePCs, DeallocInv, WeakInv, DeallocPCs

\* The half in flight is a number.
LEMMA InFlightType == InFlight \in {0, RC_HALF} /\ InFlight \in Nat /\ RC_HALF \in Nat
  BY RefCountAssumption DEF InFlight

\* At most the owner of the lock has half of a count in flight.
LEMMA InFlightChange ==
  ASSUME IndInv, NEW t \in Threads, NEW p, pc' = [pc EXCEPT ![t] = p]
  PROVE  /\ InFlight \in {0, RC_HALF} /\ InFlight' \in {0, RC_HALF}
         /\ pc[t] \notin InFlightPCs /\ p \notin InFlightPCs => InFlight' = InFlight
         /\ pc[t] \in InFlightPCs =>
              InFlight = RC_HALF /\ InFlight' = IF p \in InFlightPCs THEN RC_HALF ELSE 0
         /\ p \in InFlightPCs => InFlight' = RC_HALF
         /\ lock = t /\ pc[t] \notin InFlightPCs => InFlight = 0
<1>1. pc \in [Threads -> PCs] /\ pc'[t] = p /\ \A u \in Threads \ {t} : pc'[u] = pc[u]
  BY DEF IndInv, TypeOK
<1>2. \A u \in Threads : pc[u] \in InFlightPCs => lock = u
  BY DEF IndInv, LockInv, InFlightPCs, LockedPCs
<1> QED
  BY <1>1, <1>2 DEF InFlight

\* The same for a thread inside -dealloc.
LEMMA CallsDealloc ==
  ASSUME IndInv, NEW t \in Threads, NEW p, pc' = [pc EXCEPT ![t] = p],
         deallocators' = deallocators, t \in deallocators
  PROVE  /\ Cardinality(Releasing) \in Nat /\ Cardinality(Releasing)' = Cardinality(Releasing)
         /\ Cardinality(Retaining) \in Nat /\ Cardinality(Retaining)' = Cardinality(Retaining)
         /\ Using' # {} => Using # {}
<1>0. pc \in [Threads -> PCs] /\ pc'[t] = p /\ \A u \in Threads \ {t} : pc'[u] = pc[u]
  BY DEF IndInv, TypeOK
<1>1. Releasing' = Releasing /\ Retaining' = Retaining /\ Using' = Using
  BY <1>0 DEF Releasing, Retaining, Using
<1> QED
  BY <1>1, CallsFinite DEF IndInv

\* A release that starts -dealloc.
LEMMA CallsToDealloc ==
  ASSUME IndInv, NEW t \in Threads, NEW p, pc' = [pc EXCEPT ![t] = p],
         deallocators = {}, deallocators' = {t}, pc[t] \in ReleasePCs
  PROVE  /\ Cardinality(Releasing) \in Nat /\ Cardinality(Releasing)' = Cardinality(Releasing) - 1
         /\ Cardinality(Retaining) \in Nat /\ Cardinality(Retaining)' = Cardinality(Retaining)
         /\ Using' # {} => Using # {}
<1>0. pc \in [Threads -> PCs] /\ pc'[t] = p /\ \A u \in Threads \ {t} : pc'[u] = pc[u]
  BY DEF IndInv, TypeOK
<1>1. /\ t \in Releasing /\ t \notin Releasing' /\ Releasing \ {t} = Releasing' \ {t}
      /\ Retaining' = Retaining /\ Using' \subseteq Using
  BY <1>0 DEF Releasing, Retaining, Using, ReleasePCs
<1>2. /\ IsFiniteSet(Releasing) /\ Cardinality(Releasing) \in Nat
      /\ Cardinality(Retaining) \in Nat
  BY CallsFinite DEF IndInv
<1>3. Cardinality(Releasing') = Cardinality(Releasing) - 1
  BY <1>1, <1>2, CardinalityChange
<1> QED
  BY <1>1, <1>2, <1>3

\* Whoever holds the only reference and releases it is alone.
LEMMA OthersQuiet ==
  ASSUME IndInv, refs = 1, deallocators = {}, NEW t \in Threads, pc[t] \in ReleasePCs
  PROVE  \A u \in Threads : u # t =>
           pc[u] \notin {"r_loop", "s_loop", "c_loop", "c_move"} \cup InFlightPCs \cup ReleasePCs
<1>1. IsFiniteSet(Releasing) /\ Cardinality(Releasing) \in Nat /\ Cardinality(Releasing) <= 1
  BY CallsFinite DEF IndInv, ClientInv
<1>2. t \in Releasing
  BY DEF Releasing
<1>3. ASSUME NEW u \in Threads, u # t, pc[u] \in ReleasePCs
      PROVE  FALSE
  <2>1. u \in Releasing
    BY <1>3 DEF Releasing
  <2>2. IsFiniteSet(Releasing \ {t}) /\ Cardinality(Releasing \ {t}) = Cardinality(Releasing) - 1
    BY <1>1, <1>2, FS_RemoveElement
  <2>3. Cardinality(Releasing \ {t}) \in Nat
    BY <2>2, FS_CardinalityType
  <2>4. Cardinality(Releasing \ {t}) = 0
    BY <1>1, <2>2, <2>3
  <2>5. Releasing \ {t} = {}
    BY <2>2, <2>4, FS_EmptySet
  <2> QED
    BY <1>3, <2>1, <2>5
<1>4. Cardinality(Releasing) # 0
  BY <1>1, <1>2, FS_EmptySet
<1>5. Using = {}
  BY <1>1, <1>4 DEF IndInv, ClientInv
<1>6. \A u \in Threads : pc[u] \notin {"r_loop", "r_add", "t_add", "s_loop", "c_loop", "c_move"}
  BY <1>5 DEF Using, RetainPCs, ChangePCs
<1> QED
  BY <1>3, <1>6 DEF InFlightPCs, ReleasePCs

\* A step that moves nobody leaves the sets of calls alone.
LEMMA CallsSame ==
  ASSUME IndInv, pc' = pc, deallocators' = deallocators
  PROVE  /\ Cardinality(Releasing) \in Nat /\ Cardinality(Releasing)' = Cardinality(Releasing)
         /\ Cardinality(Retaining) \in Nat /\ Cardinality(Retaining)' = Cardinality(Retaining)
         /\ Using' # {} => Using # {}
<1>1. Releasing' = Releasing /\ Retaining' = Retaining /\ Using' = Using
  BY DEF Releasing, Retaining, Using
<1> QED
  BY <1>1, CallsFinite DEF IndInv

\* The empty isa is a word.
LEMMA ZeroIsaType == ZeroIsa \in IsaWord
  BY RefCountAssumption DEF ZeroIsa, IsaWord, RC_MAX

\* The numbers in the two words.
LEMMA WordTypes ==
  ASSUME TypeOK
  PROVE  /\ isa \in IsaWord /\ side \in SideWord /\ RC_HALF \in 0..RC_MAX
         /\ isa.extra_rc \in 0..RC_MAX /\ side.count \in 0..(SideLimit - 1) /\ side.count \in Nat
         /\ isa.extra_rc \in Nat /\ refs \in Nat /\ RC_MAX = 2 * RC_HALF - 1 /\ RC_HALF \in Nat
         /\ isa.nonpointer \in BOOLEAN /\ isa.has_sidetable_rc \in BOOLEAN /\ isa.weakly_referenced \in BOOLEAN
         /\ side.deallocating \in BOOLEAN /\ side.weakly_referenced \in BOOLEAN
  BY RefCountAssumption DEF TypeOK, IsaWord, SideWord, RC_MAX

\* Updates of the fields of an isa word.
LEMMA IsaUpdate ==
  ASSUME NEW i \in IsaWord, NEW n \in 0..RC_MAX, NEW b \in BOOLEAN
  PROVE  /\ [i EXCEPT !.extra_rc = n] \in IsaWord
         /\ [i EXCEPT !.extra_rc = n, !.has_sidetable_rc = b] \in IsaWord
         /\ [i EXCEPT !.weakly_referenced = b] \in IsaWord
  BY DEF IsaWord

\* Updates of the count of a side table word.
LEMMA SideUpdate ==
  ASSUME NEW w \in SideWord, NEW n \in 0..(SideLimit - 1), NEW v, v = [w EXCEPT !.count = n]
  PROVE  /\ v \in SideWord /\ v.count = n
         /\ v.deallocating = w.deallocating /\ v.weakly_referenced = w.weakly_referenced
  BY DEF SideWord

\* Multiples of RC_HALF.
LEMMA HalvesZero == Halves(0)
  BY RefCountAssumption DEF Halves

LEMMA HalvesAdd ==
  ASSUME NEW n \in Nat, Halves(n)
  PROVE  Halves(n + RC_HALF)
<1>1. PICK k \in 0..n : n = k * RC_HALF
  BY DEF Halves
<1>2. n + RC_HALF = (k + 1) * RC_HALF /\ k + 1 \in 0..(n + RC_HALF)
  BY <1>1, RefCountAssumption
<1> QED
  BY <1>2 DEF Halves

LEMMA HalvesSub ==
  ASSUME NEW n \in Nat, Halves(n), n > 0
  PROVE  n >= RC_HALF /\ Halves(n - RC_HALF)
<1>1. PICK k \in 0..n : n = k * RC_HALF
  BY DEF Halves
<1>2. k >= 1
  BY <1>1, RefCountAssumption
<1>3. n - RC_HALF = (k - 1) * RC_HALF
  BY <1>1, RefCountAssumption
<1>4. (k - 1) * RC_HALF >= k - 1
  BY <1>2, RefCountAssumption
<1>5. n >= RC_HALF /\ k - 1 \in 0..(n - RC_HALF)
  BY <1>1, <1>2, <1>3, <1>4, RefCountAssumption
<1> QED
  BY <1>3, <1>5 DEF Halves

\* The inline count of a live object is never taken for a deallocating one.
LEMMA LiveIsa ==
  ASSUME IndInv, ~freed, isa.nonpointer
  PROVE  /\ IsDeallocating(isa) <=> deallocators # {}
         /\ deallocators # {} => side.count = 0
  BY WordTypes, InFlightType DEF IndInv, PhaseInv, CountInv, IsDeallocating, Leaked

\* Counts stay far below the pinned half of the word.
LEMMA SideLimits ==
  /\ SIDE_TABLE_RC_PINNED \in Nat /\ MaxRefs < SIDE_TABLE_RC_PINNED /\ RC_HALF < SIDE_TABLE_RC_PINNED
  /\ SIDE_TABLE_RC_PINNED < SideLimit /\ SideLimit \in Nat /\ MaxRefs \in Nat
  BY RefCountAssumption DEF SIDE_TABLE_RC_PINNED

\* Who underflows with the lock in hand has nothing in flight beside it.
LEMMA BorrowFinds ==
  ASSUME IndInv, NEW t \in Threads, Underflows(t), sideTableLocked[t]
  PROVE  isa.has_sidetable_rc /\ lock = t /\ InFlight = 0
<1>1. isa.has_sidetable_rc /\ lock = t /\ pc[t] = "l_loop"
  BY DEF IndInv, Underflows, At, LoopInv, LockInv
<1>2. \A u \in Threads : pc[u] \in InFlightPCs => lock = u
  BY DEF IndInv, LockInv, InFlightPCs, LockedPCs
<1> QED
  BY <1>1, <1>2 DEF InFlight, InFlightPCs

\* Whoever has made isa raw and has still to move the count is alone with the lock.
LEMMA MoverAlone ==
  ASSUME IndInv, Moving
  PROVE  /\ ~isa.nonpointer /\ ~freed /\ deallocators = {} /\ refs > 0 /\ lock # NoThread
         /\ \A u \in Threads : lock = u => pc[u] = "c_move"
<1>1. PICK t \in Threads : pc[t] = "c_move"
  BY DEF Moving
<1>2. lock = t /\ ~isa.nonpointer
  BY <1>1 DEF IndInv, LockInv, LockedPCs, ChangeInv
<1>3. t \notin deallocators /\ refs > 0 /\ deallocators = {} /\ ~freed
  BY <1>1, Consequences DEF IndInv, DeallocInv, DeallocPCs
<1> QED
  BY <1>1, <1>2, <1>3, RefCountAssumption

\* Steps of other calls leave a class change alone.
LEMMA ChangeKept ==
  ASSUME IndInv, NEW t \in Threads, NEW p, pc' = [pc EXCEPT ![t] = p],
         pc[t] \notin ChangePCs, p \notin ChangePCs, newisa'[t] = ZeroIsa,
         \A u \in Threads : u # t => oldisa'[u] = oldisa[u] /\ newisa'[u] = newisa[u] /\ newCls'[u] = newCls[u],
         isa'.nonpointer = isa.nonpointer,
         Moving => side' = side /\ refs' = refs /\ (weakRef' => weakRef)
  PROVE  ChangeInv' /\ (Moving' <=> Moving)
<1>1. pc \in [Threads -> PCs] /\ pc'[t] = p /\ \A u \in Threads : u # t => pc'[u] = pc[u]
  BY DEF IndInv, TypeOK
<1>2. Moving' <=> Moving
  BY <1>1 DEF Moving, ChangePCs
<1>3. ASSUME NEW u \in Threads
      PROVE  /\ pc'[u] \in ChangePCs => u \in Changers
             /\ pc'[u] \notin ChangePCs => newisa'[u] = ZeroIsa
             /\ pc'[u] = "c_loop" =>
                  /\ oldisa'[u].nonpointer = isa'.nonpointer
                  /\ newCls'[u] \in RawClasses \/ ~isa'.nonpointer => ClassOnly(newisa'[u])
             /\ pc'[u] = "c_move" =>
                  /\ ~isa'.nonpointer /\ oldisa'[u].nonpointer
                  /\ oldisa'[u].extra_rc + side'.count = refs' /\ Halves(side'.count)
                  /\ oldisa'[u].has_sidetable_rc <=> side'.count > 0
                  /\ ~side'.deallocating /\ ~side'.weakly_referenced
                  /\ weakRef' => oldisa'[u].weakly_referenced
  <2>1. CASE u = t
    BY <1>1, <2>1 DEF ChangePCs
  <2>2. CASE u # t
    <3>1. pc[u] = "c_move" => Moving
      BY DEF Moving
    <3> QED
      BY <1>1, <2>2, <3>1 DEF IndInv, ChangeInv
  <2> QED
    BY <2>1, <2>2
<1> QED
  BY <1>2, <1>3 DEF ChangeInv

----------------------------------------------------------------------------
(* One lemma per action: it preserves the invariant.                       *)

\* Starting a retain, by a client that holds a reference or from inside -dealloc.
LEMMA RetainKeeps ==
  ASSUME IndInv, NEW t \in Threads, Retain(t)
  PROVE  IndInv'
<1>0. TypeOK /\ LockInv /\ ClientInv /\ PhaseInv /\ DeallocInv /\ CountInv /\ WeakInv /\ LoopInv /\ ChangeInv
  BY DEF IndInv
<1>1. PICK q \in {"r_loop"} :
        /\ pc' = [pc EXCEPT ![t] = q]
        /\ oldisa' = [oldisa EXCEPT ![t] = isa]
        /\ UNCHANGED <<isa, side, weakRef, freed, crashed, lock, newisa, newCls, full, sideTableLocked>>
        /\ UNCHANGED <<refs, selfRefs, deallocators>>
        /\ pc[t] \in {"idle", "d_body"}
  BY DEF Retain, heap, ghost, LoadIsa, Goto, MayUse, Idle, At
<1>2. CASE t \notin deallocators
  <2>1. pc[t] = "idle" /\ Spare >= 1 /\ MayAddRef
    BY <1>0, <1>1, <1>2 DEF Retain, MayUse, Idle, At, DeallocInv, DeallocPCs
  <2>2. /\ ~freed /\ deallocators = {} /\ refs > 0
        /\ isa.nonpointer => ~IsDeallocating(isa)
    BY <1>0, <2>1, CallsFinite, WordTypes, LiveIsa DEF Spare, PhaseInv
  <2>3. TypeOK'
    BY <1>0, <1>1, <1>2, <2>1, <2>2, ZeroIsaType DEF TypeOK, ResetLocals, PCs, RetainPCs, TryPCs, ReleasePCs, DeallocPCs
  <2>4. LockInv'
    BY <1>0, <1>1, <1>2, <2>1, <2>2 DEF LockInv, TypeOK, LockedPCs, QuietPCs, ResetLocals
  <2>m. ChangeInv' /\ (Moving' <=> Moving)
    BY <1>0, <1>1, <1>2, <2>1, <2>2, MoverAlone, ChangeKept DEF ChangeInv, ResetLocals, ChangePCs, TypeOK
  <2>5. ClientInv'
    <3>1. /\ Cardinality(Releasing) \in Nat /\ Cardinality(Releasing)' = Cardinality(Releasing)
          /\ Cardinality(Retaining) \in Nat /\ Cardinality(Retaining)' = Cardinality(Retaining) + 1
      BY <1>1, <1>2, <2>1, <2>2, CallsStep DEF ReleasePCs, StartPCs
    <3> QED
      BY <1>0, <1>1, <1>2, <2>1, <2>2, <3>1, WordTypes, RefCountAssumption DEF ClientInv, Spare, MayAddRef
  <2>6. PhaseInv' /\ DeallocInv'
    BY <1>0, <1>1, <1>2, <2>1, <2>2, <2>m DEF PhaseInv, DeallocInv, TypeOK, DeallocPCs, Leaked
  <2>7. CountInv'
    <3>1. InFlight' = InFlight /\ InFlight \in Nat
      BY <1>1, <1>2, <2>1, <2>2, InFlightType, InFlightChange DEF InFlightPCs
    <3> QED
      BY <1>0, <1>1, <1>2, <2>1, <2>2, <3>1, WordTypes, RefCountAssumption, <2>m DEF CountInv, Leaked
  <2>8. WeakInv' /\ LoopInv'
    BY <1>0, <1>1, <1>2, <2>1, <2>2, <2>m DEF WeakInv, LoopInv, TypeOK, InFlightPCs, LoopPCs, ChangePCs, ResetLocals, IsDeallocating
  <2> QED
    BY <2>3, <2>4, <2>m, <2>5, <2>6, <2>7, <2>8 DEF IndInv
<1>3. CASE t \in deallocators
  <2>1. pc[t] = "d_body" /\ selfRefs = 0 /\ ~freed /\ refs = 0
    BY <1>0, <1>1, <1>3 DEF Retain, MayUse, Idle, At, DeallocInv, DeallocPCs, PhaseInv
  <2>2. isa.nonpointer => IsDeallocating(isa)
    BY <1>3, <2>1, LiveIsa
  <2>3. TypeOK'
    BY <1>0, <1>1, <1>3, <2>1, <2>2, ZeroIsaType DEF TypeOK, ResetLocals, PCs, RetainPCs, TryPCs, ReleasePCs, DeallocPCs
  <2>4. LockInv'
    BY <1>0, <1>1, <1>3, <2>1, <2>2 DEF LockInv, TypeOK, LockedPCs, QuietPCs, ResetLocals
  <2>m. ChangeInv' /\ (Moving' <=> Moving)
    BY <1>0, <1>1, <1>3, <2>1, <2>2, MoverAlone, ChangeKept DEF ChangeInv, ResetLocals, ChangePCs, TypeOK
  <2>5. ClientInv'
    <3>1. /\ Cardinality(Releasing) \in Nat /\ Cardinality(Releasing)' = Cardinality(Releasing)
          /\ Cardinality(Retaining) \in Nat /\ Cardinality(Retaining)' = Cardinality(Retaining)
          /\ Using' # {} => Using # {}
      BY <1>1, <1>3, CallsDealloc
    <3> QED
      BY <1>0, <1>1, <1>3, <2>1, <2>2, <3>1, WordTypes, RefCountAssumption DEF ClientInv
  <2>6. PhaseInv' /\ DeallocInv'
    BY <1>0, <1>1, <1>3, <2>1, <2>2, <2>m DEF PhaseInv, DeallocInv, TypeOK, DeallocPCs, Leaked
  <2>7. CountInv'
    <3>1. InFlight' = InFlight /\ InFlight \in Nat
      BY <1>1, <1>3, <2>1, <2>2, InFlightType, InFlightChange DEF InFlightPCs
    <3> QED
      BY <1>0, <1>1, <1>3, <2>1, <2>2, <3>1, WordTypes, RefCountAssumption, <2>m DEF CountInv, Leaked
  <2>8. WeakInv' /\ LoopInv'
    BY <1>0, <1>1, <1>3, <2>1, <2>2, <2>m DEF WeakInv, LoopInv, TypeOK, InFlightPCs, LoopPCs, ChangePCs, ResetLocals, IsDeallocating
  <2> QED
    BY <2>3, <2>4, <2>m, <2>5, <2>6, <2>7, <2>8 DEF IndInv
<1> QED
  BY <1>2, <1>3

\* Starting a weak load: the lock is taken and the variable still holds the object.
LEMMA LoadWeakRetainedKeeps ==
  ASSUME IndInv, NEW t \in Threads, LoadWeakRetained(t)
  PROVE  IndInv'
<1>0. TypeOK /\ LockInv /\ ClientInv /\ PhaseInv /\ DeallocInv /\ CountInv /\ WeakInv /\ LoopInv /\ ChangeInv
  BY DEF IndInv
<1>1. /\ pc[t] = "idle" /\ weakRef /\ lock = NoThread /\ MayAddRef
      /\ t \notin deallocators
  BY Consequences DEF LoadWeakRetained, Idle
<1>2. PICK q \in {"t_loop"} :
        /\ pc' = [pc EXCEPT ![t] = q]
        /\ oldisa' = [oldisa EXCEPT ![t] = isa]
        /\ UNCHANGED <<isa, side, weakRef, freed, crashed>>
        /\ UNCHANGED <<refs, selfRefs, deallocators>>
        /\ lock' = t
        /\ UNCHANGED <<newisa, newCls, full, sideTableLocked>>
  BY DEF LoadWeakRetained, heap, ghost, LoadIsa, Goto
<1>3. TypeOK'
  BY <1>0, <1>1, <1>2, ZeroIsaType DEF TypeOK, ResetLocals, PCs, RetainPCs, TryPCs, ReleasePCs, DeallocPCs
<1>4. LockInv'
  BY <1>0, <1>1, <1>2, RefCountAssumption DEF LockInv, TypeOK, LockedPCs, QuietPCs, ResetLocals
<1>m. ChangeInv' /\ (Moving' <=> Moving)
  BY <1>0, <1>1, <1>2, RefCountAssumption, MoverAlone, ChangeKept DEF ChangeInv, ResetLocals, ChangePCs, TypeOK
<1>5. ClientInv'
  <2>1. /\ Cardinality(Releasing) \in Nat /\ Cardinality(Releasing)' = Cardinality(Releasing)
        /\ Cardinality(Retaining) \in Nat /\ Cardinality(Retaining)' = Cardinality(Retaining) + 1
        /\ Using' # {} => Using # {}
    BY <1>1, <1>2, CallsStep DEF ReleasePCs, StartPCs, UsingPCs, RetainPCs, ChangePCs
  <2> QED
    BY <1>0, <1>1, <1>2, <2>1, WordTypes, RefCountAssumption DEF ClientInv, MayAddRef
<1>6. PhaseInv' /\ DeallocInv'
  BY <1>0, <1>1, <1>2, <1>m DEF PhaseInv, DeallocInv, TypeOK, DeallocPCs, Leaked
<1>7. CountInv'
  <2>1. InFlight' = InFlight /\ InFlight \in Nat
    BY <1>1, <1>2, InFlightType, InFlightChange DEF InFlightPCs
  <2> QED
    BY <1>0, <1>1, <1>2, <2>1, WordTypes, RefCountAssumption, <1>m DEF CountInv, Leaked
<1>8. WeakInv' /\ LoopInv'
  BY <1>0, <1>1, <1>2, <1>m DEF WeakInv, LoopInv, TypeOK, InFlightPCs, LoopPCs, ChangePCs, ResetLocals
<1> QED
  BY <1>3, <1>4, <1>m, <1>5, <1>6, <1>7, <1>8 DEF IndInv

\* A retain of a raw object adds to the side table under the lock.
LEMMA SidetableRetainKeeps ==
  ASSUME IndInv, NEW t \in Threads, SidetableRetain(t)
  PROVE  IndInv'
<1>0. TypeOK /\ LockInv /\ ClientInv /\ PhaseInv /\ DeallocInv /\ CountInv /\ WeakInv /\ LoopInv /\ ChangeInv
  BY DEF IndInv
<1>1. pc[t] = "r_loop" /\ ~isa.nonpointer /\ lock \in {NoThread, t}
  BY <1>0 DEF SidetableRetain, At, LoopInv, LoopPCs
<1>2. /\ side' = [side EXCEPT !.count = IF Pinned(side) THEN @ ELSE @ + 1]
      /\ lock' = NoThread
      /\ GainRef(t)
      /\ Return(t)
      /\ UNCHANGED <<isa, weakRef, freed, crashed>>
  BY DEF SidetableRetain
<1>3. CASE t \notin deallocators
  <2>1. /\ deallocators = {} /\ ~freed /\ refs > 0
        /\ side.count + 1 = refs \/ Leaked
        /\ ~side.deallocating
    BY <1>0, <1>1, <1>3, Consequences, MoverAlone, RefCountAssumption DEF CountInv
  <2>2. IF Leaked THEN Pinned(side) ELSE ~Pinned(side) /\ side.count + 1 < SideLimit
    BY <1>0, <2>1, CallsFinite, WordTypes, SideLimits DEF ClientInv, Pinned, Leaked
  <2> DEFINE n == IF Leaked THEN side.count ELSE side.count + 1
  <2>q. PICK q \in {"idle"} :
          /\ pc' = [pc EXCEPT ![t] = q]
          /\ ResetLocals(t)
          /\ refs' = refs + 1 /\ UNCHANGED <<selfRefs, deallocators>>
    BY <1>2, <1>3 DEF GainRef, Return, Goto
  <2>r. /\ side' = [side EXCEPT !.count = n]
        /\ n \in 0..(SideLimit - 1)
    BY <1>0, <1>2, <2>2, WordTypes, SideLimits
  <2>s. /\ side' \in SideWord
        /\ side'.count = IF Leaked THEN side.count ELSE side.count + 1
        /\ side'.deallocating = side.deallocating
        /\ side'.weakly_referenced = side.weakly_referenced
    BY <1>0, <2>r, WordTypes, SideUpdate
  <2>3. TypeOK'
    BY <1>0, <1>1, <1>2, <1>3, <2>1, <2>q, <2>s, ZeroIsaType DEF TypeOK, ResetLocals, PCs, RetainPCs, TryPCs, ReleasePCs, DeallocPCs
  <2>4. LockInv'
    BY <1>0, <1>1, <1>2, <1>3, <2>1, <2>q, <2>s DEF LockInv, TypeOK, LockedPCs, QuietPCs, ResetLocals
  <2>m. ChangeInv' /\ (Moving' <=> Moving)
    BY <1>0, <1>1, <1>2, <1>3, <2>1, <2>q, <2>s, MoverAlone, ChangeKept DEF ChangeInv, ResetLocals, ChangePCs, TypeOK
  <2>5. ClientInv'
    <3>1. /\ Cardinality(Releasing) \in Nat /\ Cardinality(Releasing)' = Cardinality(Releasing)
          /\ Cardinality(Retaining) \in Nat /\ Cardinality(Retaining)' = Cardinality(Retaining) - 1
          /\ Using' # {} => Using # {}
      BY <1>1, <1>3, <2>q, CallsStep DEF ReleasePCs, StartPCs, UsingPCs, RetainPCs, ChangePCs
    <3> QED
      BY <1>0, <1>1, <1>2, <1>3, <2>1, <2>q, <2>s, <3>1, WordTypes, RefCountAssumption DEF ClientInv
  <2>6. PhaseInv' /\ DeallocInv'
    BY <1>0, <1>1, <1>2, <1>3, <2>1, <2>q, <2>s, <2>m DEF PhaseInv, DeallocInv, TypeOK, DeallocPCs, Leaked
  <2>7. CountInv'
    <3>1. InFlight' = InFlight /\ InFlight \in Nat
      BY <1>1, <1>2, <1>3, <2>1, <2>q, <2>s, InFlightType, InFlightChange DEF InFlightPCs
    <3> QED
      BY <1>0, <1>1, <1>2, <1>3, <2>1, <2>q, <2>s, <3>1, WordTypes, RefCountAssumption, <2>m DEF CountInv, Leaked
  <2>8. WeakInv' /\ LoopInv'
    BY <1>0, <1>1, <1>2, <1>3, <2>1, <2>q, <2>s, RefCountAssumption, <2>m DEF WeakInv, LoopInv, TypeOK, InFlightPCs, LoopPCs, ChangePCs, ResetLocals, LockInv, LockedPCs
  <2> QED
    BY <2>3, <2>4, <2>m, <2>5, <2>6, <2>7, <2>8 DEF IndInv
<1>4. CASE t \in deallocators
  <2>1. /\ selfRefs = 0 /\ ~freed /\ refs = 0
        /\ \A u \in Threads : pc[u] # "d_free"
        /\ side.deallocating /\ side.count = 0
    BY <1>0, <1>1, <1>4, MoverAlone DEF CountInv, PhaseInv, DeallocInv, DeallocPCs
  <2>2. ~Pinned(side) /\ side.count + 1 < SideLimit
    BY <2>1, SideLimits, RefCountAssumption DEF Pinned
  <2>q. PICK q \in {"d_body"} :
          /\ pc' = [pc EXCEPT ![t] = q]
          /\ ResetLocals(t)
          /\ selfRefs' = selfRefs + 1 /\ UNCHANGED <<refs, deallocators>>
    BY <1>2, <1>4 DEF GainRef, Return, Goto
  <2>r. /\ side' = [side EXCEPT !.count = side.count + 1]
        /\ side.count + 1 \in 0..(SideLimit - 1)
    BY <1>0, <1>2, <2>2, WordTypes, SideLimits
  <2>s. /\ side' \in SideWord
        /\ side'.count = side.count + 1
        /\ side'.deallocating = side.deallocating
        /\ side'.weakly_referenced = side.weakly_referenced
    BY <1>0, <2>r, WordTypes, SideUpdate
  <2>3. TypeOK'
    BY <1>0, <1>1, <1>2, <1>4, <2>1, <2>q, <2>s, ZeroIsaType DEF TypeOK, ResetLocals, PCs, RetainPCs, TryPCs, ReleasePCs, DeallocPCs
  <2>4. LockInv'
    BY <1>0, <1>1, <1>2, <1>4, <2>1, <2>q, <2>s DEF LockInv, TypeOK, LockedPCs, QuietPCs, ResetLocals
  <2>m. ChangeInv' /\ (Moving' <=> Moving)
    BY <1>0, <1>1, <1>2, <1>4, <2>1, <2>q, <2>s, MoverAlone, ChangeKept DEF ChangeInv, ResetLocals, ChangePCs, TypeOK
  <2>5. ClientInv'
    <3>1. /\ Cardinality(Releasing) \in Nat /\ Cardinality(Releasing)' = Cardinality(Releasing)
          /\ Cardinality(Retaining) \in Nat /\ Cardinality(Retaining)' = Cardinality(Retaining)
          /\ Using' # {} => Using # {}
      BY <1>4, <2>q, CallsDealloc
    <3> QED
      BY <1>0, <1>1, <1>2, <1>4, <2>1, <2>q, <2>s, <3>1, WordTypes, RefCountAssumption DEF ClientInv
  <2>6. PhaseInv' /\ DeallocInv'
    BY <1>0, <1>1, <1>2, <1>4, <2>1, <2>q, <2>s, <2>m DEF PhaseInv, DeallocInv, TypeOK, DeallocPCs, Leaked
  <2>7. CountInv'
    <3>1. InFlight' = InFlight /\ InFlight \in Nat
      BY <1>1, <1>2, <1>4, <2>1, <2>q, <2>s, InFlightType, InFlightChange DEF InFlightPCs
    <3> QED
      BY <1>0, <1>1, <1>2, <1>4, <2>1, <2>q, <2>s, <3>1, WordTypes, RefCountAssumption, <2>m DEF CountInv, Leaked
  <2>8. WeakInv' /\ LoopInv'
    BY <1>0, <1>1, <1>2, <1>4, <2>1, <2>q, <2>s, RefCountAssumption, <2>m DEF WeakInv, LoopInv, TypeOK, InFlightPCs, LoopPCs, ChangePCs, ResetLocals, LockInv, LockedPCs
  <2> QED
    BY <2>3, <2>4, <2>m, <2>5, <2>6, <2>7, <2>8 DEF IndInv
<1> QED
  BY <1>3, <1>4

\* A weak load of a raw object, under its caller's lock.
LEMMA SidetableTryRetainKeeps ==
  ASSUME IndInv, NEW t \in Threads, SidetableTryRetain(t)
  PROVE  IndInv'
<1>0. TypeOK /\ LockInv /\ ClientInv /\ PhaseInv /\ DeallocInv /\ CountInv /\ WeakInv /\ LoopInv /\ ChangeInv
  BY DEF IndInv
<1>1. pc[t] = "t_loop" /\ ~isa.nonpointer /\ lock = t /\ ~freed /\ t \notin deallocators /\ weakRef
  BY <1>0, Consequences DEF SidetableTryRetain, At, LoopInv, LoopPCs, LockInv, LockedPCs, WeakInv
<1>q. PICK q \in {"w_unlock"} :
        /\ pc' = [pc EXCEPT ![t] = q]
        /\ ResetLocals(t)
        /\ UNCHANGED <<isa, weakRef, freed, lock, crashed>>
  BY DEF SidetableTryRetain, Goto
<1>2. CASE side.deallocating
  <2>1. UNCHANGED <<side, refs, selfRefs, deallocators>>
    BY <1>2 DEF SidetableTryRetain, ghost
  <2>3. TypeOK'
    BY <1>0, <1>1, <1>q, <2>1, ZeroIsaType DEF TypeOK, ResetLocals, PCs, RetainPCs, TryPCs, ReleasePCs, DeallocPCs
  <2>4. LockInv'
    BY <1>0, <1>1, <1>q, <2>1 DEF LockInv, TypeOK, LockedPCs, QuietPCs, ResetLocals
  <2>m. ChangeInv' /\ (Moving' <=> Moving)
    BY <1>0, <1>1, <1>q, <2>1, MoverAlone, ChangeKept DEF ChangeInv, ResetLocals, ChangePCs, TypeOK
  <2>5. ClientInv'
    <3>1. /\ Cardinality(Releasing) \in Nat /\ Cardinality(Releasing)' = Cardinality(Releasing)
          /\ Cardinality(Retaining) \in Nat /\ Cardinality(Retaining)' = Cardinality(Retaining) - 1
          /\ Using' # {} => Using # {}
      BY <1>1, <1>q, <2>1, CallsStep DEF ReleasePCs, StartPCs, UsingPCs, RetainPCs, ChangePCs
    <3> QED
      BY <1>0, <1>1, <1>q, <2>1, <3>1, WordTypes, RefCountAssumption DEF ClientInv
  <2>6. PhaseInv' /\ DeallocInv'
    BY <1>0, <1>1, <1>q, <2>1, <2>m DEF PhaseInv, DeallocInv, TypeOK, DeallocPCs, Leaked
  <2>7. CountInv'
    <3>1. InFlight' = InFlight /\ InFlight \in Nat
      BY <1>1, <1>q, <2>1, InFlightType, InFlightChange DEF InFlightPCs
    <3> QED
      BY <1>0, <1>1, <1>q, <2>1, <3>1, WordTypes, RefCountAssumption, <2>m DEF CountInv, Leaked
  <2>8. WeakInv' /\ LoopInv'
    BY <1>0, <1>1, <1>q, <2>1, RefCountAssumption, <2>m DEF WeakInv, LoopInv, TypeOK, InFlightPCs, LoopPCs, ChangePCs, ResetLocals, LockInv, LockedPCs
  <2> QED
    BY <2>3, <2>4, <2>m, <2>5, <2>6, <2>7, <2>8 DEF IndInv
<1>3. CASE ~side.deallocating
  <2>1. deallocators = {} /\ (side.count + 1 = refs \/ Leaked)
    BY <1>0, <1>1, <1>3, MoverAlone DEF PhaseInv, CountInv, DeallocInv
  <2>2. IF Leaked THEN Pinned(side) ELSE ~Pinned(side) /\ side.count + 1 < SideLimit
    BY <1>0, <2>1, CallsFinite, WordTypes, SideLimits DEF ClientInv, Pinned, Leaked
  <2> DEFINE n == IF Leaked THEN side.count ELSE side.count + 1
  <2>r. /\ side' = [side EXCEPT !.count = n]
        /\ n \in 0..(SideLimit - 1)
    BY <1>0, <1>3, <2>2, WordTypes, SideLimits DEF SidetableTryRetain
  <2>s. /\ side' \in SideWord
        /\ side'.count = IF Leaked THEN side.count ELSE side.count + 1
        /\ side'.deallocating = side.deallocating
        /\ side'.weakly_referenced = side.weakly_referenced
    BY <1>0, <2>r, WordTypes, SideUpdate
  <2>g. refs' = refs + 1 /\ UNCHANGED <<selfRefs, deallocators>>
    BY <1>1, <1>3 DEF SidetableTryRetain, GainRef
  <2>3. TypeOK'
    BY <1>0, <1>1, <1>q, <1>3, <2>1, <2>s, <2>g, ZeroIsaType DEF TypeOK, ResetLocals, PCs, RetainPCs, TryPCs, ReleasePCs, DeallocPCs
  <2>4. LockInv'
    BY <1>0, <1>1, <1>q, <1>3, <2>1, <2>s, <2>g DEF LockInv, TypeOK, LockedPCs, QuietPCs, ResetLocals
  <2>m. ChangeInv' /\ (Moving' <=> Moving)
    BY <1>0, <1>1, <1>q, <1>3, <2>1, <2>s, <2>g, MoverAlone, ChangeKept DEF ChangeInv, ResetLocals, ChangePCs, TypeOK
  <2>5. ClientInv'
    <3>1. /\ Cardinality(Releasing) \in Nat /\ Cardinality(Releasing)' = Cardinality(Releasing)
          /\ Cardinality(Retaining) \in Nat /\ Cardinality(Retaining)' = Cardinality(Retaining) - 1
          /\ Using' # {} => Using # {}
      BY <1>1, <1>q, <1>3, <2>1, <2>s, <2>g, CallsStep DEF ReleasePCs, StartPCs, UsingPCs, RetainPCs, ChangePCs
    <3> QED
      BY <1>0, <1>1, <1>q, <1>3, <2>1, <2>s, <2>g, <3>1, WordTypes, RefCountAssumption DEF ClientInv
  <2>6. PhaseInv' /\ DeallocInv'
    BY <1>0, <1>1, <1>q, <1>3, <2>1, <2>s, <2>g, <2>m DEF PhaseInv, DeallocInv, TypeOK, DeallocPCs, Leaked
  <2>7. CountInv'
    <3>1. InFlight' = InFlight /\ InFlight \in Nat
      BY <1>1, <1>q, <1>3, <2>1, <2>s, <2>g, InFlightType, InFlightChange DEF InFlightPCs
    <3> QED
      BY <1>0, <1>1, <1>q, <1>3, <2>1, <2>s, <2>g, <3>1, WordTypes, RefCountAssumption, <2>m DEF CountInv, Leaked
  <2>8. WeakInv' /\ LoopInv'
    BY <1>0, <1>1, <1>q, <1>3, <2>1, <2>s, <2>g, RefCountAssumption, <2>m DEF WeakInv, LoopInv, TypeOK, InFlightPCs, LoopPCs, ChangePCs, ResetLocals, LockInv, LockedPCs
  <2> QED
    BY <2>3, <2>4, <2>m, <2>5, <2>6, <2>7, <2>8 DEF IndInv
<1> QED
  BY <1>2, <1>3

\* A retain that finds the object deallocating changes no count.
LEMMA RetainDeallocatingKeeps ==
  ASSUME IndInv, NEW t \in Threads, RetainDeallocating(t)
  PROVE  IndInv'
<1>0. TypeOK /\ LockInv /\ ClientInv /\ PhaseInv /\ DeallocInv /\ CountInv /\ WeakInv /\ LoopInv /\ ChangeInv
  BY DEF IndInv
<1>1. /\ oldisa[t].nonpointer /\ IsDeallocating(oldisa[t])
      /\ pc[t] \in {"r_loop", "t_loop"}
      /\ pc[t] = "t_loop" => lock = t /\ t \notin deallocators
      /\ pc[t] = "r_loop" => t \in deallocators /\ isa.nonpointer
      /\ sideTableLocked[t] => lock = t
  BY <1>0, Consequences DEF RetainDeallocating, InRetainLoop, At, LoopInv, LoopPCs, LockInv, LockedPCs
<1>2. /\ UNCHANGED <<isa, side, weakRef, freed, crashed>> /\ ResetLocals(t)
      /\ lock' = IF sideTableLocked[t] THEN NoThread ELSE lock
  BY DEF RetainDeallocating, Return, heap, UnlockIf
<1>3. CASE pc[t] = "t_loop"
  <2>q. PICK q \in {"w_unlock"} :
          /\ pc' = [pc EXCEPT ![t] = q]
          /\ UNCHANGED <<refs, selfRefs, deallocators>>
    BY <1>3 DEF RetainDeallocating, Goto, InTry, TryPCs, ghost
  <2>3. TypeOK'
    BY <1>0, <1>1, <1>2, <1>3, <2>q, ZeroIsaType DEF TypeOK, ResetLocals, PCs, RetainPCs, TryPCs, ReleasePCs, DeallocPCs
  <2>4. LockInv'
    BY <1>0, <1>1, <1>2, <1>3, <2>q DEF LockInv, TypeOK, LockedPCs, QuietPCs, ResetLocals
  <2>m. ChangeInv' /\ (Moving' <=> Moving)
    BY <1>0, <1>1, <1>2, <1>3, <2>q, MoverAlone, ChangeKept DEF ChangeInv, ResetLocals, ChangePCs, TypeOK
  <2>5. ClientInv'
    <3>1. /\ Cardinality(Releasing) \in Nat /\ Cardinality(Releasing)' = Cardinality(Releasing)
          /\ Cardinality(Retaining) \in Nat /\ Cardinality(Retaining)' = Cardinality(Retaining) - 1
          /\ Using' # {} => Using # {}
      BY <1>1, <1>2, <1>3, <2>q, CallsStep DEF ReleasePCs, StartPCs, UsingPCs, RetainPCs, ChangePCs
    <3> QED
      BY <1>0, <1>1, <1>2, <1>3, <2>q, <3>1, WordTypes, RefCountAssumption DEF ClientInv
  <2>6. PhaseInv' /\ DeallocInv'
    BY <1>0, <1>1, <1>2, <1>3, <2>q, <2>m DEF PhaseInv, DeallocInv, TypeOK, DeallocPCs, Leaked
  <2>7. CountInv'
    <3>1. InFlight' = InFlight /\ InFlight \in Nat
      BY <1>1, <1>2, <1>3, <2>q, InFlightType, InFlightChange DEF InFlightPCs
    <3> QED
      BY <1>0, <1>1, <1>2, <1>3, <2>q, <3>1, WordTypes, RefCountAssumption, <2>m DEF CountInv, Leaked
  <2>8. WeakInv' /\ LoopInv'
    BY <1>0, <1>1, <1>2, <1>3, <2>q, <2>m DEF WeakInv, LoopInv, TypeOK, InFlightPCs, LoopPCs, ChangePCs, ResetLocals
  <2> QED
    BY <2>3, <2>4, <2>m, <2>5, <2>6, <2>7, <2>8 DEF IndInv
<1>4. CASE pc[t] = "r_loop"
  <2>q. PICK q \in {"d_body"} :
          /\ pc' = [pc EXCEPT ![t] = q]
          /\ selfRefs' = selfRefs + 1 /\ UNCHANGED <<refs, deallocators>>
    BY <1>1, <1>4 DEF RetainDeallocating, Goto, InTry, TryPCs, GainRef, Return
  <2>3. TypeOK'
    BY <1>0, <1>1, <1>2, <1>4, <2>q, ZeroIsaType DEF TypeOK, ResetLocals, PCs, RetainPCs, TryPCs, ReleasePCs, DeallocPCs
  <2>4. LockInv'
    BY <1>0, <1>1, <1>2, <1>4, <2>q DEF LockInv, TypeOK, LockedPCs, QuietPCs, ResetLocals
  <2>m. ChangeInv' /\ (Moving' <=> Moving)
    BY <1>0, <1>1, <1>2, <1>4, <2>q, MoverAlone, ChangeKept DEF ChangeInv, ResetLocals, ChangePCs, TypeOK
  <2>5. ClientInv'
    <3>1. /\ Cardinality(Releasing) \in Nat /\ Cardinality(Releasing)' = Cardinality(Releasing)
          /\ Cardinality(Retaining) \in Nat /\ Cardinality(Retaining)' = Cardinality(Retaining)
          /\ Using' # {} => Using # {}
      BY <1>1, <1>4, <2>q, CallsDealloc
    <3> QED
      BY <1>0, <1>1, <1>2, <1>4, <2>q, <3>1, WordTypes, RefCountAssumption DEF ClientInv
  <2>6. PhaseInv' /\ DeallocInv'
    BY <1>0, <1>1, <1>2, <1>4, <2>q, <2>m DEF PhaseInv, DeallocInv, TypeOK, DeallocPCs, Leaked
  <2>7. CountInv'
    <3>1. InFlight' = InFlight /\ InFlight \in Nat
      BY <1>1, <1>2, <1>4, <2>q, InFlightType, InFlightChange DEF InFlightPCs
    <3> QED
      BY <1>0, <1>1, <1>2, <1>4, <2>q, <3>1, WordTypes, RefCountAssumption, <2>m DEF CountInv, Leaked
  <2>8. WeakInv' /\ LoopInv'
    BY <1>0, <1>1, <1>2, <1>4, <2>q, <2>m DEF WeakInv, LoopInv, TypeOK, InFlightPCs, LoopPCs, ChangePCs, ResetLocals
  <2> QED
    BY <2>3, <2>4, <2>m, <2>5, <2>6, <2>7, <2>8 DEF IndInv
<1> QED
  BY <1>3, <1>4, <1>1

\* An overflowing fast retain starts over in the full variant.
LEMMA RetainOverflowKeeps ==
  ASSUME IndInv, NEW t \in Threads, RetainOverflow(t)
  PROVE  IndInv'
<1>0. TypeOK /\ LockInv /\ ClientInv /\ PhaseInv /\ DeallocInv /\ CountInv /\ WeakInv /\ LoopInv /\ ChangeInv
  BY DEF IndInv
<1>1. /\ ~IsDeallocating(oldisa[t])
      /\ pc[t] \in {"r_loop", "t_loop"} /\ t \notin deallocators /\ ~freed
      /\ pc[t] = "r_loop" => deallocators = {}
  BY <1>0, Consequences, RefCountAssumption DEF RetainOverflow, RetainCarry, InRetainLoop, At, LoopInv, LoopPCs, IsDeallocating, RC_MAX
<1>2. pc[t] = "r_loop" /\ isa.nonpointer => ~IsDeallocating(isa)
  BY <1>1, LiveIsa
<1>q. /\ pc' = [pc EXCEPT ![t] = pc[t]]
      /\ oldisa' = [oldisa EXCEPT ![t] = isa]
      /\ UNCHANGED <<isa, side, weakRef, freed, crashed>>
      /\ UNCHANGED <<refs, selfRefs, deallocators>>
      /\ full' = [full EXCEPT ![t] = TRUE]
      /\ UNCHANGED <<lock, newisa, newCls, sideTableLocked, pc>>
  BY <1>0 DEF RetainOverflow, heap, ghost, LoadIsa, TypeOK
<1>3. TypeOK'
  BY <1>0, <1>1, <1>2, <1>q, ZeroIsaType DEF TypeOK, ResetLocals, PCs, RetainPCs, TryPCs, ReleasePCs, DeallocPCs
<1>4. LockInv'
  BY <1>0, <1>1, <1>2, <1>q DEF LockInv, TypeOK, LockedPCs, QuietPCs, ResetLocals
<1>m. ChangeInv' /\ (Moving' <=> Moving)
  BY <1>0, <1>1, <1>2, <1>q, MoverAlone, ChangeKept DEF ChangeInv, ResetLocals, ChangePCs, TypeOK
<1>5. ClientInv'
  <2>1. /\ Cardinality(Releasing) \in Nat /\ Cardinality(Releasing)' = Cardinality(Releasing)
        /\ Cardinality(Retaining) \in Nat /\ Cardinality(Retaining)' = Cardinality(Retaining)
        /\ Using' # {} => Using # {}
    BY <1>q, CallsSame
  <2> QED
    BY <1>0, <1>1, <1>2, <1>q, <2>1, WordTypes, RefCountAssumption DEF ClientInv
<1>6. PhaseInv' /\ DeallocInv'
  BY <1>0, <1>1, <1>2, <1>q, <1>m DEF PhaseInv, DeallocInv, TypeOK, DeallocPCs, Leaked
<1>7. CountInv'
  <2>1. InFlight' = InFlight /\ InFlight \in Nat
    BY <1>1, <1>2, <1>q, InFlightType, InFlightChange DEF InFlightPCs
  <2> QED
    BY <1>0, <1>1, <1>2, <1>q, <2>1, WordTypes, RefCountAssumption, <1>m DEF CountInv, Leaked
<1>8. WeakInv' /\ LoopInv'
  BY <1>0, <1>1, <1>2, <1>q, <1>m DEF WeakInv, LoopInv, TypeOK, InFlightPCs, LoopPCs, ChangePCs, ResetLocals
<1> QED
  BY <1>3, <1>4, <1>m, <1>5, <1>6, <1>7, <1>8 DEF IndInv

\* An overflowing retain takes the side table's lock.
LEMMA RetainLockKeeps ==
  ASSUME IndInv, NEW t \in Threads, RetainLock(t)
  PROVE  IndInv'
<1>0. TypeOK /\ LockInv /\ ClientInv /\ PhaseInv /\ DeallocInv /\ CountInv /\ WeakInv /\ LoopInv /\ ChangeInv
  BY DEF IndInv
<1>1. /\ oldisa[t].nonpointer /\ ~IsDeallocating(oldisa[t])
      /\ pc[t] = "r_loop" /\ lock = NoThread
  BY <1>0, RefCountAssumption DEF RetainLock, RetainCarry, InRetainLoop, At, InTry, TryPCs, LoopInv, LoopPCs, IsDeallocating, RC_MAX
<1>2. t \notin deallocators
  BY <1>0, <1>1 DEF LoopInv
<1>q. /\ pc' = [pc EXCEPT ![t] = pc[t]]
      /\ UNCHANGED <<isa, side, weakRef, freed, crashed>>
      /\ UNCHANGED <<refs, selfRefs, deallocators>>
      /\ lock' = t
      /\ sideTableLocked' = [sideTableLocked EXCEPT ![t] = TRUE]
      /\ UNCHANGED <<pc, oldisa, newisa, newCls, full>>
  BY <1>0 DEF RetainLock, heap, ghost, TypeOK
<1>3. TypeOK'
  BY <1>0, <1>1, <1>2, <1>q, ZeroIsaType DEF TypeOK, ResetLocals, PCs, RetainPCs, TryPCs, ReleasePCs, DeallocPCs
<1>4. LockInv'
  BY <1>0, <1>1, <1>2, <1>q, RefCountAssumption DEF LockInv, TypeOK, LockedPCs, QuietPCs, ResetLocals
<1>m. ChangeInv' /\ (Moving' <=> Moving)
  BY <1>0, <1>1, <1>2, <1>q, RefCountAssumption, MoverAlone, ChangeKept DEF ChangeInv, ResetLocals, ChangePCs, TypeOK
<1>5. ClientInv'
  <2>1. /\ Cardinality(Releasing) \in Nat /\ Cardinality(Releasing)' = Cardinality(Releasing)
        /\ Cardinality(Retaining) \in Nat /\ Cardinality(Retaining)' = Cardinality(Retaining)
        /\ Using' # {} => Using # {}
    BY <1>q, CallsSame
  <2> QED
    BY <1>0, <1>1, <1>2, <1>q, <2>1, WordTypes, RefCountAssumption DEF ClientInv
<1>6. PhaseInv' /\ DeallocInv'
  BY <1>0, <1>1, <1>2, <1>q, <1>m DEF PhaseInv, DeallocInv, TypeOK, DeallocPCs, Leaked
<1>7. CountInv'
  <2>1. InFlight' = InFlight /\ InFlight \in Nat
    BY <1>1, <1>2, <1>q, InFlightType, InFlightChange DEF InFlightPCs
  <2> QED
    BY <1>0, <1>1, <1>2, <1>q, <2>1, WordTypes, RefCountAssumption, <1>m DEF CountInv, Leaked
<1>8. WeakInv' /\ LoopInv'
  BY <1>0, <1>1, <1>2, <1>q, <1>m DEF WeakInv, LoopInv, TypeOK, InFlightPCs, LoopPCs, ChangePCs, ResetLocals
<1> QED
  BY <1>3, <1>4, <1>m, <1>5, <1>6, <1>7, <1>8 DEF IndInv

\* A retain whose store-exclusive failed has a fresh isa in hand.
LEMMA RetainRetryKeeps ==
  ASSUME IndInv, NEW t \in Threads, RetainRetry(t)
  PROVE  IndInv'
<1>0. TypeOK /\ LockInv /\ ClientInv /\ PhaseInv /\ DeallocInv /\ CountInv /\ WeakInv /\ LoopInv /\ ChangeInv
  BY DEF IndInv
<1>1. /\ ~IsDeallocating(oldisa[t])
      /\ pc[t] \in {"r_loop", "t_loop"} /\ t \notin deallocators /\ ~freed
      /\ pc[t] = "r_loop" => deallocators = {}
      /\ pc[t] = "r_loop" /\ RetainCarry(t) => sideTableLocked[t]
  BY <1>0, Consequences DEF RetainRetry, ReadyToStore, InRetainLoop, At, InTry, TryPCs, LoopInv, LoopPCs
<1>2. pc[t] = "r_loop" /\ isa.nonpointer => ~IsDeallocating(isa)
  BY <1>1, LiveIsa
<1> DEFINE b == sideTableLocked[t] \/ RetainCarry(t)
<1>b. /\ b \in BOOLEAN /\ sideTableLocked[t] \in BOOLEAN
      /\ pc[t] = "r_loop" => b = sideTableLocked[t]
  BY <1>0, <1>1 DEF TypeOK
<1>q. /\ pc' = [pc EXCEPT ![t] = pc[t]]
      /\ oldisa' = [oldisa EXCEPT ![t] = isa]
      /\ UNCHANGED <<isa, side, weakRef, freed, crashed>>
      /\ UNCHANGED <<refs, selfRefs, deallocators>>
      /\ sideTableLocked' = [sideTableLocked EXCEPT ![t] = b]
      /\ UNCHANGED <<lock, full, newisa, newCls, pc>>
  BY <1>0 DEF RetainRetry, heap, ghost, LoadIsa, TypeOK
<1> HIDE DEF b
<1>3. TypeOK'
  BY <1>0, <1>1, <1>2, <1>b, <1>q, ZeroIsaType DEF TypeOK, ResetLocals, PCs, RetainPCs, TryPCs, ReleasePCs, DeallocPCs
<1>4. LockInv'
  BY <1>0, <1>1, <1>2, <1>b, <1>q DEF LockInv, TypeOK, LockedPCs, QuietPCs, ResetLocals
<1>m. ChangeInv' /\ (Moving' <=> Moving)
  BY <1>0, <1>1, <1>2, <1>b, <1>q, MoverAlone, ChangeKept DEF ChangeInv, ResetLocals, ChangePCs, TypeOK
<1>5. ClientInv'
  <2>1. /\ Cardinality(Releasing) \in Nat /\ Cardinality(Releasing)' = Cardinality(Releasing)
        /\ Cardinality(Retaining) \in Nat /\ Cardinality(Retaining)' = Cardinality(Retaining)
        /\ Using' # {} => Using # {}
    BY <1>q, CallsSame
  <2> QED
    BY <1>0, <1>1, <1>2, <1>b, <1>q, <2>1, WordTypes, RefCountAssumption DEF ClientInv
<1>6. PhaseInv' /\ DeallocInv'
  BY <1>0, <1>1, <1>2, <1>b, <1>q, <1>m DEF PhaseInv, DeallocInv, TypeOK, DeallocPCs, Leaked
<1>7. CountInv'
  <2>1. InFlight' = InFlight /\ InFlight \in Nat
    BY <1>1, <1>2, <1>b, <1>q, InFlightType, InFlightChange DEF InFlightPCs
  <2> QED
    BY <1>0, <1>1, <1>2, <1>b, <1>q, <2>1, WordTypes, RefCountAssumption, <1>m DEF CountInv, Leaked
<1>8. WeakInv' /\ LoopInv'
  BY <1>0, <1>1, <1>2, <1>b, <1>q, ZenonT(60), <1>m DEF WeakInv, LoopInv, TypeOK, InFlightPCs, LoopPCs, ChangePCs, ResetLocals
<1> QED
  BY <1>3, <1>4, <1>m, <1>5, <1>6, <1>7, <1>8 DEF IndInv

\* A retain that stores isa gains a reference, inline or with half of the count in flight.
LEMMA RetainStoreKeeps ==
  ASSUME IndInv, NEW t \in Threads, RetainStore(t)
  PROVE  IndInv'
<1>0. TypeOK /\ LockInv /\ ClientInv /\ PhaseInv /\ DeallocInv /\ CountInv /\ WeakInv /\ LoopInv /\ ChangeInv
  BY DEF IndInv
<1>1. /\ isa = oldisa[t] /\ isa.nonpointer /\ ~IsDeallocating(isa)
      /\ pc[t] \in {"r_loop", "t_loop"} /\ ~freed
      /\ pc[t] = "t_loop" => lock = t
      /\ RetainCarry(t) => lock = t
  BY <1>0, Consequences DEF RetainStore, ReadyToStore, StoreSucceeds, InRetainLoop, InTry, At, TryPCs,
       LockInv, LoopInv, LockedPCs, RetainCarry, IsDeallocating, PhaseInv
<1>2. deallocators = {} /\ refs > 0
  BY <1>0, <1>1, WordTypes, InFlightType DEF PhaseInv, CountInv, IsDeallocating, Leaked
<1>3. CASE RetainCarry(t)
  <2>1. PICK q \in {"r_add", "t_add"} : 
          /\ pc' = [pc EXCEPT ![t] = q]
          /\ pc[t] = "t_loop" <=> q = "t_add"
    BY <1>1, <1>3 DEF RetainStore, Goto, InTry, TryPCs
  <2>2. /\ isa' = [isa EXCEPT !.extra_rc = RC_HALF, !.has_sidetable_rc = TRUE]
        /\ isa.extra_rc = RC_MAX
        /\ UNCHANGED <<side, weakRef, freed, crashed, lock, oldisa, newisa, newCls, full, sideTableLocked>>
        /\ refs' = refs + 1 /\ UNCHANGED <<selfRefs, deallocators>>
    BY <1>1, <1>2, <1>3 DEF RetainStore, GainRef, locals, RetainCarry
  <2>a. isa' \in IsaWord
    BY <1>0, <2>2, WordTypes DEF IsaWord
  <2>b. /\ isa'.extra_rc = RC_HALF /\ isa'.has_sidetable_rc
        /\ isa'.nonpointer = isa.nonpointer /\ isa'.weakly_referenced = isa.weakly_referenced
    BY <1>0, <2>2 DEF TypeOK, IsaWord
  <2>3. TypeOK'
    BY <1>0, <2>1, <2>2, <2>a DEF TypeOK, PCs, RetainPCs, TryPCs
  <2>4. LockInv'
    BY <1>0, <1>1, <1>3, <2>1, <2>2 DEF LockInv, TypeOK, LockedPCs, QuietPCs
  <2>m. ChangeInv' /\ (Moving' <=> Moving)
    BY <1>0, <1>1, <1>3, <2>1, <2>2, <2>b, MoverAlone, ChangeKept DEF ChangeInv, ResetLocals, ChangePCs, TypeOK
  <2>5. ClientInv'
    <3>1. /\ Cardinality(Releasing) \in Nat /\ Cardinality(Releasing)' = Cardinality(Releasing)
          /\ Cardinality(Retaining) \in Nat /\ Cardinality(Retaining)' = Cardinality(Retaining) - 1
      BY <1>1, <1>2, <2>1, <2>2, CallsStep DEF ReleasePCs, StartPCs
    <3> QED
      BY <1>0, <2>2, <3>1, WordTypes, RefCountAssumption DEF ClientInv
  <2>6. PhaseInv' /\ DeallocInv'
    BY <1>0, <1>1, <1>2, <2>1, <2>2, <2>m DEF PhaseInv, DeallocInv, TypeOK, DeallocPCs, Leaked
  <2>7. CountInv'
    <3>1. InFlight = 0 /\ InFlight' = RC_HALF
      BY <1>1, <1>3, <2>1, InFlightChange DEF InFlightPCs
    <3> QED
      BY <1>0, <1>1, <1>2, <2>2, <2>b, <3>1, WordTypes, RefCountAssumption, <2>m DEF CountInv, Leaked
  <2>8. WeakInv' /\ LoopInv'
    BY <1>0, <1>1, <1>2, <2>1, <2>2, <2>b, <2>m DEF WeakInv, LoopInv, TypeOK, InFlightPCs, LoopPCs, ChangePCs
  <2> QED
    BY <2>3, <2>4, <2>m, <2>5, <2>6, <2>7, <2>8 DEF IndInv
<1>4. CASE ~RetainCarry(t)
  <2>1. PICK q \in {"idle", "w_unlock"} : 
          /\ pc' = [pc EXCEPT ![t] = q]
          /\ pc[t] = "t_loop" <=> q = "w_unlock"
    BY <1>1, <1>2, <1>4 DEF RetainStore, Goto, InTry, TryPCs, Return
  <2>2. /\ isa' = [isa EXCEPT !.extra_rc = @ + 1]
        /\ UNCHANGED <<side, weakRef, freed, crashed>> /\ ResetLocals(t)
        /\ refs' = refs + 1 /\ UNCHANGED <<selfRefs, deallocators>>
        /\ lock' = IF pc[t] = "r_loop" /\ sideTableLocked[t] THEN NoThread ELSE lock
    BY <1>1, <1>2, <1>4 DEF RetainStore, GainRef, UnlockIf, InTry, TryPCs, Return
  <2>c. isa.extra_rc < RC_MAX
    BY <1>0, <1>1, <1>4, WordTypes DEF RetainStore, ReadyToStore, RetainCarry, InRetainLoop
  <2>a. isa' \in IsaWord
    BY <1>0, <2>2, <2>c, WordTypes DEF IsaWord
  <2>b. /\ isa'.extra_rc = isa.extra_rc + 1 /\ isa'.has_sidetable_rc = isa.has_sidetable_rc
        /\ isa'.nonpointer = isa.nonpointer /\ isa'.weakly_referenced = isa.weakly_referenced
    BY <1>0, <2>2 DEF TypeOK, IsaWord
  <2>3. TypeOK'
    BY <1>0, <2>1, <2>2, <2>a, ZeroIsaType DEF TypeOK, ResetLocals, PCs
  <2>4. LockInv'
    BY <1>0, <1>1, <1>4, <2>1, <2>2 DEF LockInv, TypeOK, LockedPCs, QuietPCs, ResetLocals
  <2>m. ChangeInv' /\ (Moving' <=> Moving)
    BY <1>0, <1>1, <1>4, <2>1, <2>2, <2>b, MoverAlone, ChangeKept DEF ChangeInv, ResetLocals, ChangePCs, TypeOK
  <2>5. ClientInv'
    <3>1. /\ Cardinality(Releasing) \in Nat /\ Cardinality(Releasing)' = Cardinality(Releasing)
          /\ Cardinality(Retaining) \in Nat /\ Cardinality(Retaining)' = Cardinality(Retaining) - 1
      BY <1>1, <1>2, <2>1, <2>2, CallsStep DEF ReleasePCs, StartPCs
    <3> QED
      BY <1>0, <2>2, <3>1, WordTypes, RefCountAssumption DEF ClientInv
  <2>6. PhaseInv' /\ DeallocInv'
    BY <1>0, <1>1, <1>2, <2>1, <2>2, <2>m DEF PhaseInv, DeallocInv, TypeOK, DeallocPCs, Leaked
  <2>7. CountInv'
    <3>1. InFlight' = InFlight /\ InFlight \in Nat
      BY <1>1, <2>1, InFlightType, InFlightChange DEF InFlightPCs
    <3> QED
      BY <1>0, <1>1, <1>2, <2>2, <2>b, <3>1, WordTypes, <2>m DEF CountInv, Leaked
  <2>8. WeakInv' /\ LoopInv'
    BY <1>0, <1>1, <1>2, <2>1, <2>2, <2>b, <2>m DEF WeakInv, LoopInv, TypeOK, InFlightPCs, LoopPCs, ChangePCs, ResetLocals
  <2> QED
    BY <2>3, <2>4, <2>m, <2>5, <2>6, <2>7, <2>8 DEF IndInv
<1> QED
  BY <1>3, <1>4

\* The half in flight arrives in the side table.
LEMMA RetainAddKeeps ==
  ASSUME IndInv, NEW t \in Threads, RetainAdd(t)
  PROVE  IndInv'
<1>0. TypeOK /\ LockInv /\ ClientInv /\ PhaseInv /\ DeallocInv /\ CountInv /\ WeakInv /\ LoopInv /\ ChangeInv
  BY DEF IndInv
<1>1. /\ pc[t] \in {"r_add", "t_add"} /\ lock = t
      /\ t \notin deallocators /\ deallocators = {} /\ ~freed /\ refs > 0
      /\ isa.nonpointer /\ isa.has_sidetable_rc
      /\ InFlight = RC_HALF
  BY <1>0, Consequences, InFlightType DEF RetainAdd, At, LoopInv, LockInv, LockedPCs, InFlightPCs, InFlight, DeallocInv, DeallocPCs
<1>2. ~Pinned(side) /\ side.count + RC_HALF < SideLimit
  BY <1>0, <1>1, CallsFinite, WordTypes, SideLimits DEF ClientInv, Pinned, CountInv
<1>r. /\ side' = [side EXCEPT !.count = side.count + RC_HALF]
      /\ side.count + RC_HALF \in 0..(SideLimit - 1)
  BY <1>0, <1>2, WordTypes, SideLimits DEF RetainAdd, SidetableAddExtraRC
<1>s. /\ side' \in SideWord
      /\ side'.count = side.count + RC_HALF
      /\ side'.deallocating = side.deallocating
      /\ side'.weakly_referenced = side.weakly_referenced
  BY <1>0, <1>r, WordTypes, SideUpdate
<1>q. PICK q \in {"idle", "w_unlock"} :
        /\ pc' = [pc EXCEPT ![t] = q]
        /\ ResetLocals(t)
        /\ UNCHANGED <<refs, selfRefs, deallocators>>
        /\ UNCHANGED <<isa, weakRef, freed, crashed>>
        /\ lock' = IF q = "idle" THEN NoThread ELSE lock
  BY <1>1 DEF RetainAdd, Goto, InTry, TryPCs, Return, UnlockIf, ghost
<1>h. Halves(side'.count)
  BY <1>0, <1>1, <1>s, HalvesAdd, WordTypes DEF CountInv
<1>3. TypeOK'
  BY <1>0, <1>1, <1>s, <1>q, <1>h, ZeroIsaType DEF TypeOK, ResetLocals, PCs, RetainPCs, TryPCs, ReleasePCs, DeallocPCs
<1>4. LockInv'
  BY <1>0, <1>1, <1>s, <1>q, <1>h DEF LockInv, TypeOK, LockedPCs, QuietPCs, ResetLocals
<1>m. ChangeInv' /\ (Moving' <=> Moving)
  BY <1>0, <1>1, <1>s, <1>q, <1>h, MoverAlone, ChangeKept DEF ChangeInv, ResetLocals, ChangePCs, TypeOK
<1>5. ClientInv'
  <2>1. /\ Cardinality(Releasing) \in Nat /\ Cardinality(Releasing)' = Cardinality(Releasing)
        /\ Cardinality(Retaining) \in Nat /\ Cardinality(Retaining)' = Cardinality(Retaining)
        /\ Using' # {} => Using # {}
    BY <1>1, <1>s, <1>q, <1>h, CallsStep DEF ReleasePCs, StartPCs, UsingPCs, RetainPCs, ChangePCs
  <2> QED
    BY <1>0, <1>1, <1>s, <1>q, <1>h, <2>1, WordTypes, RefCountAssumption DEF ClientInv
<1>6. PhaseInv' /\ DeallocInv'
  BY <1>0, <1>1, <1>s, <1>q, <1>h, <1>m DEF PhaseInv, DeallocInv, TypeOK, DeallocPCs, Leaked
<1>7. CountInv'
  <2>1. InFlight' = 0
    BY <1>1, <1>s, <1>q, <1>h, InFlightType, InFlightChange DEF InFlightPCs
  <2> QED
    BY <1>0, <1>1, <1>s, <1>q, <1>h, <2>1, WordTypes, RefCountAssumption, <1>m DEF CountInv, Leaked
<1>8. WeakInv' /\ LoopInv'
  BY <1>0, <1>1, <1>s, <1>q, <1>h, RefCountAssumption, <1>m DEF WeakInv, LoopInv, TypeOK, InFlightPCs, LoopPCs, ChangePCs, ResetLocals, LockInv, LockedPCs
<1> QED
  BY <1>3, <1>4, <1>m, <1>5, <1>6, <1>7, <1>8 DEF IndInv

\* The weak load's own unlock, or the abort of a thread that does not own the lock.
LEMMA LoadWeakUnlockKeeps ==
  ASSUME IndInv, NEW t \in Threads, LoadWeakUnlock(t)
  PROVE  IndInv'
<1>0. TypeOK /\ LockInv /\ ClientInv /\ PhaseInv /\ DeallocInv /\ CountInv /\ WeakInv /\ LoopInv /\ ChangeInv
  BY DEF IndInv
<1>1. pc[t] = "w_unlock" /\ t \notin deallocators
  BY <1>0 DEF LoadWeakUnlock, At, DeallocInv, DeallocPCs
<1>q. PICK q \in {"idle"} :
        /\ pc' = [pc EXCEPT ![t] = q]
        /\ UNCHANGED <<refs, selfRefs, deallocators>>
        /\ UNCHANGED <<isa, side, weakRef, freed, oldisa, newisa, newCls, full, sideTableLocked>>
        /\ lock' = IF lock = t THEN NoThread ELSE lock
        /\ crashed' \in BOOLEAN
  BY <1>0 DEF LoadWeakUnlock, Goto, heap, ghost, locals, TypeOK
<1>3. TypeOK'
  BY <1>0, <1>1, <1>q, ZeroIsaType DEF TypeOK, ResetLocals, PCs, RetainPCs, TryPCs, ReleasePCs, DeallocPCs
<1>4. LockInv'
  BY <1>0, <1>1, <1>q DEF LockInv, TypeOK, LockedPCs, QuietPCs, ResetLocals
<1>m. ChangeInv' /\ (Moving' <=> Moving)
  BY <1>0, <1>1, <1>q, MoverAlone, ChangeKept DEF ChangeInv, ResetLocals, ChangePCs, TypeOK
<1>5. ClientInv'
  <2>1. /\ Cardinality(Releasing) \in Nat /\ Cardinality(Releasing)' = Cardinality(Releasing)
        /\ Cardinality(Retaining) \in Nat /\ Cardinality(Retaining)' = Cardinality(Retaining)
        /\ Using' # {} => Using # {}
    BY <1>1, <1>q, CallsStep DEF ReleasePCs, StartPCs, UsingPCs, RetainPCs, ChangePCs
  <2> QED
    BY <1>0, <1>1, <1>q, <2>1, WordTypes, RefCountAssumption DEF ClientInv
<1>6. PhaseInv' /\ DeallocInv'
  BY <1>0, <1>1, <1>q, <1>m DEF PhaseInv, DeallocInv, TypeOK, DeallocPCs, Leaked
<1>7. CountInv'
  <2>1. InFlight' = InFlight /\ InFlight \in Nat
    BY <1>1, <1>q, InFlightType, InFlightChange DEF InFlightPCs
  <2> QED
    BY <1>0, <1>1, <1>q, <2>1, WordTypes, RefCountAssumption, <1>m DEF CountInv, Leaked
<1>8. WeakInv' /\ LoopInv'
  BY <1>0, <1>1, <1>q, <1>m DEF WeakInv, LoopInv, TypeOK, InFlightPCs, LoopPCs, ChangePCs, ResetLocals
<1> QED
  BY <1>3, <1>4, <1>m, <1>5, <1>6, <1>7, <1>8 DEF IndInv

\* Starting a release, of a client's reference or of one taken inside -dealloc.
LEMMA ReleaseKeeps ==
  ASSUME IndInv, NEW t \in Threads, Release(t)
  PROVE  IndInv'
<1>0. TypeOK /\ LockInv /\ ClientInv /\ PhaseInv /\ DeallocInv /\ CountInv /\ WeakInv /\ LoopInv /\ ChangeInv
  BY DEF IndInv
<1>1. PICK q \in {"l_loop"} :
        /\ pc' = [pc EXCEPT ![t] = q]
        /\ oldisa' = [oldisa EXCEPT ![t] = isa]
        /\ UNCHANGED <<isa, side, weakRef, freed, crashed, lock, newisa, newCls, full, sideTableLocked>>
        /\ UNCHANGED <<refs, selfRefs, deallocators>>
        /\ pc[t] \in {"idle", "d_body"}
  BY DEF Release, heap, ghost, LoadIsa, Goto, MayRelease, Idle, At
<1>2. CASE t \notin deallocators
  <2>0. Spare \in Int
    BY <1>0, CallsFinite, WordTypes DEF Spare
  <2>1. /\ pc[t] = "idle"
        /\ Spare >= 1
        /\ Using # {} => Spare >= 2
    BY <1>0, <1>1, <1>2, <2>0 DEF Release, MayRelease, Idle, At, DeallocInv, DeallocPCs
  <2>2. /\ ~freed /\ deallocators = {} /\ refs > 0
        /\ isa.nonpointer => ~IsDeallocating(isa)
    BY <1>0, <2>1, CallsFinite, WordTypes, LiveIsa DEF Spare, PhaseInv
  <2>3. TypeOK'
    BY <1>0, <1>1, <1>2, <2>1, <2>2, ZeroIsaType DEF TypeOK, ResetLocals, PCs, RetainPCs, TryPCs, ReleasePCs, DeallocPCs
  <2>4. LockInv'
    BY <1>0, <1>1, <1>2, <2>1, <2>2 DEF LockInv, TypeOK, LockedPCs, QuietPCs, ResetLocals
  <2>m. ChangeInv' /\ (Moving' <=> Moving)
    BY <1>0, <1>1, <1>2, <2>1, <2>2, MoverAlone, ChangeKept DEF ChangeInv, ResetLocals, ChangePCs, TypeOK
  <2>5. ClientInv'
    <3>1. /\ Cardinality(Releasing) \in Nat /\ Cardinality(Releasing)' = Cardinality(Releasing) + 1
          /\ Cardinality(Retaining) \in Nat /\ Cardinality(Retaining)' = Cardinality(Retaining)
          /\ Using' # {} => Using # {}
      BY <1>1, <1>2, <2>1, <2>2, CallsStep DEF ReleasePCs, StartPCs, UsingPCs, RetainPCs, ChangePCs
    <3> QED
      BY <1>0, <1>1, <1>2, <2>1, <2>2, <3>1, WordTypes, RefCountAssumption DEF ClientInv, Spare
  <2>6. PhaseInv' /\ DeallocInv'
    BY <1>0, <1>1, <1>2, <2>1, <2>2, <2>m DEF PhaseInv, DeallocInv, TypeOK, DeallocPCs, Leaked
  <2>7. CountInv'
    <3>1. InFlight' = InFlight /\ InFlight \in Nat
      BY <1>1, <1>2, <2>1, <2>2, InFlightType, InFlightChange DEF InFlightPCs
    <3> QED
      BY <1>0, <1>1, <1>2, <2>1, <2>2, <3>1, WordTypes, RefCountAssumption, <2>m DEF CountInv, Leaked
  <2>8. WeakInv' /\ LoopInv'
    BY <1>0, <1>1, <1>2, <2>1, <2>2, <2>m DEF WeakInv, LoopInv, TypeOK, InFlightPCs, LoopPCs, ChangePCs, ResetLocals, IsDeallocating, QuietPCs, LockInv
  <2> QED
    BY <2>3, <2>4, <2>m, <2>5, <2>6, <2>7, <2>8 DEF IndInv
<1>3. CASE t \in deallocators
  <2>1. pc[t] = "d_body" /\ selfRefs = 1 /\ ~freed /\ refs = 0
    BY <1>0, <1>1, <1>3 DEF Release, MayRelease, Idle, At, DeallocInv, DeallocPCs, PhaseInv
  <2>2. isa.nonpointer => IsDeallocating(isa)
    BY <1>3, <2>1, LiveIsa
  <2>3. TypeOK'
    BY <1>0, <1>1, <1>3, <2>1, <2>2, ZeroIsaType DEF TypeOK, ResetLocals, PCs, RetainPCs, TryPCs, ReleasePCs, DeallocPCs
  <2>4. LockInv'
    BY <1>0, <1>1, <1>3, <2>1, <2>2 DEF LockInv, TypeOK, LockedPCs, QuietPCs, ResetLocals
  <2>m. ChangeInv' /\ (Moving' <=> Moving)
    BY <1>0, <1>1, <1>3, <2>1, <2>2, MoverAlone, ChangeKept DEF ChangeInv, ResetLocals, ChangePCs, TypeOK
  <2>5. ClientInv'
    <3>1. /\ Cardinality(Releasing) \in Nat /\ Cardinality(Releasing)' = Cardinality(Releasing)
          /\ Cardinality(Retaining) \in Nat /\ Cardinality(Retaining)' = Cardinality(Retaining)
          /\ Using' # {} => Using # {}
      BY <1>1, <1>3, CallsDealloc
    <3> QED
      BY <1>0, <1>1, <1>3, <2>1, <2>2, <3>1, WordTypes, RefCountAssumption DEF ClientInv
  <2>6. PhaseInv' /\ DeallocInv'
    BY <1>0, <1>1, <1>3, <2>1, <2>2, <2>m DEF PhaseInv, DeallocInv, TypeOK, DeallocPCs, Leaked
  <2>7. CountInv'
    <3>1. InFlight' = InFlight /\ InFlight \in Nat
      BY <1>1, <1>3, <2>1, <2>2, InFlightType, InFlightChange DEF InFlightPCs
    <3> QED
      BY <1>0, <1>1, <1>3, <2>1, <2>2, <3>1, WordTypes, RefCountAssumption, <2>m DEF CountInv, Leaked
  <2>8. WeakInv' /\ LoopInv'
    BY <1>0, <1>1, <1>3, <2>1, <2>2, <2>m DEF WeakInv, LoopInv, TypeOK, InFlightPCs, LoopPCs, ChangePCs, ResetLocals, IsDeallocating, QuietPCs, LockInv
  <2> QED
    BY <2>3, <2>4, <2>m, <2>5, <2>6, <2>7, <2>8 DEF IndInv
<1> QED
  BY <1>2, <1>3

\* A release from inside -dealloc of a nonpointer object changes no count.
LEMMA ReleaseDeallocatingKeeps ==
  ASSUME IndInv, NEW t \in Threads, ReleaseDeallocating(t)
  PROVE  IndInv'
<1>0. TypeOK /\ LockInv /\ ClientInv /\ PhaseInv /\ DeallocInv /\ CountInv /\ WeakInv /\ LoopInv /\ ChangeInv
  BY DEF IndInv
<1>1. /\ pc[t] = "l_loop" /\ t \in deallocators /\ selfRefs = 1 /\ ~freed
      /\ sideTableLocked[t] => lock = t
  BY <1>0 DEF ReleaseDeallocating, At, LoopInv, LoopPCs, LockInv, DeallocInv, PhaseInv
<1>q. PICK q \in {"d_body"} :
        /\ pc' = [pc EXCEPT ![t] = q]
        /\ ResetLocals(t)
        /\ selfRefs' = selfRefs - 1 /\ UNCHANGED <<refs, deallocators>>
        /\ UNCHANGED <<isa, side, weakRef, freed, crashed>>
        /\ lock' = IF sideTableLocked[t] THEN NoThread ELSE lock
        /\ isa.nonpointer
  BY <1>0, <1>1 DEF ReleaseDeallocating, ReleaseDone, DropRef, Goto, heap, UnlockIf, LoopInv, LoopPCs, At
<1>3. TypeOK'
  BY <1>0, <1>1, <1>q, ZeroIsaType DEF TypeOK, ResetLocals, PCs, RetainPCs, TryPCs, ReleasePCs, DeallocPCs
<1>4. LockInv'
  BY <1>0, <1>1, <1>q DEF LockInv, TypeOK, LockedPCs, QuietPCs, ResetLocals
<1>m. ChangeInv' /\ (Moving' <=> Moving)
  BY <1>0, <1>1, <1>q, MoverAlone, ChangeKept DEF ChangeInv, ResetLocals, ChangePCs, TypeOK
<1>5. ClientInv'
  <2>1. /\ Cardinality(Releasing) \in Nat /\ Cardinality(Releasing)' = Cardinality(Releasing)
        /\ Cardinality(Retaining) \in Nat /\ Cardinality(Retaining)' = Cardinality(Retaining)
        /\ Using' # {} => Using # {}
    BY <1>1, <1>q, CallsDealloc
  <2> QED
    BY <1>0, <1>1, <1>q, <2>1, WordTypes, RefCountAssumption DEF ClientInv
<1>6. PhaseInv' /\ DeallocInv'
  BY <1>0, <1>1, <1>q, <1>m DEF PhaseInv, DeallocInv, TypeOK, DeallocPCs, Leaked
<1>7. CountInv'
  <2>1. InFlight' = InFlight /\ InFlight \in Nat
    BY <1>1, <1>q, InFlightType, InFlightChange DEF InFlightPCs
  <2> QED
    BY <1>0, <1>1, <1>q, <2>1, WordTypes, RefCountAssumption, <1>m DEF CountInv, Leaked
<1>8. WeakInv' /\ LoopInv'
  BY <1>0, <1>1, <1>q, <1>m DEF WeakInv, LoopInv, TypeOK, InFlightPCs, LoopPCs, ChangePCs, ResetLocals
<1> QED
  BY <1>3, <1>4, <1>m, <1>5, <1>6, <1>7, <1>8 DEF IndInv

\* A release whose store-exclusive failed has a fresh isa in hand.
LEMMA ReleaseRetryKeeps ==
  ASSUME IndInv, NEW t \in Threads, ReleaseRetry(t)
  PROVE  IndInv'
<1>0. TypeOK /\ LockInv /\ ClientInv /\ PhaseInv /\ DeallocInv /\ CountInv /\ WeakInv /\ LoopInv /\ ChangeInv
  BY DEF IndInv
<1>1. /\ pc[t] = "l_loop" /\ t \notin deallocators /\ ~freed /\ deallocators = {}
  BY <1>0, Consequences DEF ReleaseRetry, At, LoopInv, LoopPCs, IsDeallocating
<1>2. isa.nonpointer => ~IsDeallocating(isa)
  BY <1>1, LiveIsa
<1>q. /\ oldisa' = [oldisa EXCEPT ![t] = isa]
      /\ UNCHANGED <<isa, side, weakRef, freed, crashed>>
      /\ UNCHANGED <<refs, selfRefs, deallocators>>
      /\ UNCHANGED <<lock, newisa, newCls, full, sideTableLocked, pc>>
      /\ pc' = [pc EXCEPT ![t] = pc[t]]
  BY <1>0 DEF ReleaseRetry, heap, ghost, LoadIsa, TypeOK
<1>3. TypeOK'
  BY <1>0, <1>1, <1>2, <1>q, ZeroIsaType DEF TypeOK, ResetLocals, PCs, RetainPCs, TryPCs, ReleasePCs, DeallocPCs
<1>4. LockInv'
  BY <1>0, <1>1, <1>2, <1>q DEF LockInv, TypeOK, LockedPCs, QuietPCs, ResetLocals
<1>m. ChangeInv' /\ (Moving' <=> Moving)
  BY <1>0, <1>1, <1>2, <1>q, MoverAlone, ChangeKept DEF ChangeInv, ResetLocals, ChangePCs, TypeOK
<1>5. ClientInv'
  <2>1. /\ Cardinality(Releasing) \in Nat /\ Cardinality(Releasing)' = Cardinality(Releasing)
        /\ Cardinality(Retaining) \in Nat /\ Cardinality(Retaining)' = Cardinality(Retaining)
        /\ Using' # {} => Using # {}
    BY <1>q, CallsSame
  <2> QED
    BY <1>0, <1>1, <1>2, <1>q, <2>1, WordTypes, RefCountAssumption DEF ClientInv
<1>6. PhaseInv' /\ DeallocInv'
  BY <1>0, <1>1, <1>2, <1>q, <1>m DEF PhaseInv, DeallocInv, TypeOK, DeallocPCs, Leaked
<1>7. CountInv'
  <2>1. InFlight' = InFlight /\ InFlight \in Nat
    BY <1>1, <1>2, <1>q, InFlightType, InFlightChange DEF InFlightPCs
  <2> QED
    BY <1>0, <1>1, <1>2, <1>q, <2>1, WordTypes, RefCountAssumption, <1>m DEF CountInv, Leaked
<1>8. WeakInv' /\ LoopInv'
  BY <1>0, <1>1, <1>2, <1>q, <1>m DEF WeakInv, LoopInv, TypeOK, InFlightPCs, LoopPCs, ChangePCs, ResetLocals
<1> QED
  BY <1>3, <1>4, <1>m, <1>5, <1>6, <1>7, <1>8 DEF IndInv

\* An underflowing fast release starts over in the full variant.
LEMMA ReleaseUnderflowKeeps ==
  ASSUME IndInv, NEW t \in Threads, ReleaseUnderflow(t)
  PROVE  IndInv'
<1>0. TypeOK /\ LockInv /\ ClientInv /\ PhaseInv /\ DeallocInv /\ CountInv /\ WeakInv /\ LoopInv /\ ChangeInv
  BY DEF IndInv
<1>1. /\ pc[t] = "l_loop" /\ t \notin deallocators /\ ~freed /\ deallocators = {}
  BY <1>0, Consequences DEF ReleaseUnderflow, Underflows, At, LoopInv, LoopPCs, IsDeallocating
<1>2. isa.nonpointer => ~IsDeallocating(isa)
  BY <1>1, LiveIsa
<1>q. /\ oldisa' = [oldisa EXCEPT ![t] = isa]
      /\ UNCHANGED <<isa, side, weakRef, freed, crashed>>
      /\ UNCHANGED <<refs, selfRefs, deallocators>>
      /\ full' = [full EXCEPT ![t] = TRUE]
      /\ UNCHANGED <<lock, newisa, newCls, sideTableLocked, pc>>
      /\ pc' = [pc EXCEPT ![t] = pc[t]]
  BY <1>0 DEF ReleaseUnderflow, heap, ghost, LoadIsa, TypeOK
<1>3. TypeOK'
  BY <1>0, <1>1, <1>2, <1>q, ZeroIsaType DEF TypeOK, ResetLocals, PCs, RetainPCs, TryPCs, ReleasePCs, DeallocPCs
<1>4. LockInv'
  BY <1>0, <1>1, <1>2, <1>q DEF LockInv, TypeOK, LockedPCs, QuietPCs, ResetLocals
<1>m. ChangeInv' /\ (Moving' <=> Moving)
  BY <1>0, <1>1, <1>2, <1>q, MoverAlone, ChangeKept DEF ChangeInv, ResetLocals, ChangePCs, TypeOK
<1>5. ClientInv'
  <2>1. /\ Cardinality(Releasing) \in Nat /\ Cardinality(Releasing)' = Cardinality(Releasing)
        /\ Cardinality(Retaining) \in Nat /\ Cardinality(Retaining)' = Cardinality(Retaining)
        /\ Using' # {} => Using # {}
    BY <1>q, CallsSame
  <2> QED
    BY <1>0, <1>1, <1>2, <1>q, <2>1, WordTypes, RefCountAssumption DEF ClientInv
<1>6. PhaseInv' /\ DeallocInv'
  BY <1>0, <1>1, <1>2, <1>q, <1>m DEF PhaseInv, DeallocInv, TypeOK, DeallocPCs, Leaked
<1>7. CountInv'
  <2>1. InFlight' = InFlight /\ InFlight \in Nat
    BY <1>1, <1>2, <1>q, InFlightType, InFlightChange DEF InFlightPCs
  <2> QED
    BY <1>0, <1>1, <1>2, <1>q, <2>1, WordTypes, RefCountAssumption, <1>m DEF CountInv, Leaked
<1>8. WeakInv' /\ LoopInv'
  BY <1>0, <1>1, <1>2, <1>q, <1>m DEF WeakInv, LoopInv, TypeOK, InFlightPCs, LoopPCs, ChangePCs, ResetLocals
<1> QED
  BY <1>3, <1>4, <1>m, <1>5, <1>6, <1>7, <1>8 DEF IndInv

\* An underflowing release takes the lock and reads isa again.
LEMMA ReleaseLockKeeps ==
  ASSUME IndInv, NEW t \in Threads, ReleaseLock(t)
  PROVE  IndInv'
<1>0. TypeOK /\ LockInv /\ ClientInv /\ PhaseInv /\ DeallocInv /\ CountInv /\ WeakInv /\ LoopInv /\ ChangeInv
  BY DEF IndInv
<1>1. /\ lock = NoThread
      /\ pc[t] = "l_loop" /\ t \notin deallocators /\ ~freed /\ deallocators = {}
  BY <1>0, Consequences DEF ReleaseLock, Underflows, At, LoopInv, LoopPCs, IsDeallocating
<1>2. isa.nonpointer => ~IsDeallocating(isa)
  BY <1>1, LiveIsa
<1>q. /\ oldisa' = [oldisa EXCEPT ![t] = isa]
      /\ UNCHANGED <<isa, side, weakRef, freed, crashed>>
      /\ UNCHANGED <<refs, selfRefs, deallocators>>
      /\ lock' = t
      /\ sideTableLocked' = [sideTableLocked EXCEPT ![t] = TRUE]
      /\ UNCHANGED <<newisa, newCls, full, pc>>
      /\ pc' = [pc EXCEPT ![t] = pc[t]]
  BY <1>0 DEF ReleaseLock, heap, ghost, LoadIsa, TypeOK
<1>3. TypeOK'
  BY <1>0, <1>1, <1>2, <1>q, ZeroIsaType DEF TypeOK, ResetLocals, PCs, RetainPCs, TryPCs, ReleasePCs, DeallocPCs
<1>4. LockInv'
  BY <1>0, <1>1, <1>2, <1>q, RefCountAssumption DEF LockInv, TypeOK, LockedPCs, QuietPCs, ResetLocals
<1>m. ChangeInv' /\ (Moving' <=> Moving)
  BY <1>0, <1>1, <1>2, <1>q, RefCountAssumption, MoverAlone, ChangeKept DEF ChangeInv, ResetLocals, ChangePCs, TypeOK
<1>5. ClientInv'
  <2>1. /\ Cardinality(Releasing) \in Nat /\ Cardinality(Releasing)' = Cardinality(Releasing)
        /\ Cardinality(Retaining) \in Nat /\ Cardinality(Retaining)' = Cardinality(Retaining)
        /\ Using' # {} => Using # {}
    BY <1>q, CallsSame
  <2> QED
    BY <1>0, <1>1, <1>2, <1>q, <2>1, WordTypes, RefCountAssumption DEF ClientInv
<1>6. PhaseInv' /\ DeallocInv'
  BY <1>0, <1>1, <1>2, <1>q, <1>m DEF PhaseInv, DeallocInv, TypeOK, DeallocPCs, Leaked
<1>7. CountInv'
  <2>1. InFlight' = InFlight /\ InFlight \in Nat
    BY <1>1, <1>2, <1>q, InFlightType, InFlightChange DEF InFlightPCs
  <2> QED
    BY <1>0, <1>1, <1>2, <1>q, <2>1, WordTypes, RefCountAssumption, <1>m DEF CountInv, Leaked
<1>8. WeakInv' /\ LoopInv'
  BY <1>0, <1>1, <1>2, <1>q, <1>m DEF WeakInv, LoopInv, TypeOK, InFlightPCs, LoopPCs, ChangePCs, ResetLocals
<1> QED
  BY <1>3, <1>4, <1>m, <1>5, <1>6, <1>7, <1>8 DEF IndInv

\* A release under the lock finds a half to borrow and takes it in flight.
LEMMA ReleaseBorrowKeeps ==
  ASSUME IndInv, NEW t \in Threads, ReleaseBorrow(t)
  PROVE  IndInv'
<1>0. TypeOK /\ LockInv /\ ClientInv /\ PhaseInv /\ DeallocInv /\ CountInv /\ WeakInv /\ LoopInv /\ ChangeInv
  BY DEF IndInv
<1>1. /\ isa.nonpointer /\ oldisa[t].extra_rc = 0 /\ lock = t
      /\ pc[t] = "l_loop" /\ t \notin deallocators /\ ~freed /\ deallocators = {} /\ refs > 0
      /\ isa.has_sidetable_rc
      /\ InFlight = 0
  BY <1>0, Consequences, BorrowFinds DEF ReleaseBorrow, Underflows, At, LoopInv, LoopPCs, IsDeallocating, LockInv
<1>2. /\ side.count > 0 /\ side.count >= RC_HALF /\ Halves(side.count - RC_HALF)
      /\ side.count - RC_HALF \in 0..(SideLimit - 1)
  BY <1>0, <1>1, HalvesSub, WordTypes, SideLimits DEF CountInv
<1>b3. side # NoSide
  BY <1>2, WordTypes DEF NoSide
<1>b4. (side.count - RC_HALF) % SideLimit = side.count - RC_HALF
  BY <1>2, SideLimits
<1>r. /\ side' = [side EXCEPT !.count = side.count - RC_HALF]
      /\ side.count - RC_HALF \in 0..(SideLimit - 1)
  BY <1>2, <1>b3, <1>b4 DEF ReleaseBorrow
<1>s. /\ side' \in SideWord
      /\ side'.count = side.count - RC_HALF
      /\ side'.deallocating = side.deallocating
      /\ side'.weakly_referenced = side.weakly_referenced
  BY <1>0, <1>r, WordTypes, SideUpdate
<1>q. PICK q \in {"l_borrow"} :
        /\ pc' = [pc EXCEPT ![t] = q]
        /\ UNCHANGED <<refs, selfRefs, deallocators>>
        /\ UNCHANGED <<isa, weakRef, freed, crashed, lock, oldisa, newisa, newCls, full, sideTableLocked>>
  BY <1>b3 DEF ReleaseBorrow, Goto, ghost, locals
<1>0a. RC_HALF > 0 /\ RC_HALF \in Nat
  BY RefCountAssumption
<1>3. TypeOK'
  BY <1>0, <1>1, <1>2, <1>s, <1>q, <1>0a, ZeroIsaType DEF TypeOK, ResetLocals, PCs, RetainPCs, TryPCs, ReleasePCs, DeallocPCs
<1>4. LockInv'
  BY <1>0, <1>1, <1>2, <1>s, <1>q, <1>0a DEF LockInv, TypeOK, LockedPCs, QuietPCs, ResetLocals
<1>m. ChangeInv' /\ (Moving' <=> Moving)
  BY <1>0, <1>1, <1>2, <1>s, <1>q, <1>0a, MoverAlone, ChangeKept DEF ChangeInv, ResetLocals, ChangePCs, TypeOK
<1>5. ClientInv'
  <2>1. /\ Cardinality(Releasing) \in Nat /\ Cardinality(Releasing)' = Cardinality(Releasing)
        /\ Cardinality(Retaining) \in Nat /\ Cardinality(Retaining)' = Cardinality(Retaining)
        /\ Using' # {} => Using # {}
    BY <1>1, <1>2, <1>s, <1>q, <1>0a, CallsStep DEF ReleasePCs, StartPCs, UsingPCs, RetainPCs, ChangePCs
  <2> QED
    BY <1>0, <1>1, <1>2, <1>s, <1>q, <1>0a, <2>1, WordTypes, RefCountAssumption DEF ClientInv
<1>6. PhaseInv' /\ DeallocInv'
  BY <1>0, <1>1, <1>2, <1>s, <1>q, <1>0a, <1>m DEF PhaseInv, DeallocInv, TypeOK, DeallocPCs, Leaked
<1>7. CountInv'
  <2>1. InFlight' = RC_HALF
    BY <1>1, <1>2, <1>s, <1>q, <1>0a, InFlightType, InFlightChange DEF InFlightPCs
  <2> QED
    BY <1>0, <1>1, <1>2, <1>s, <1>q, <1>0a, <2>1, WordTypes, RefCountAssumption, <1>m DEF CountInv, Leaked
<1>8. WeakInv' /\ LoopInv'
  BY <1>0, <1>1, <1>2, <1>s, <1>q, <1>0a, RefCountAssumption, <1>m DEF WeakInv, LoopInv, TypeOK, InFlightPCs, LoopPCs, ChangePCs, ResetLocals, LockInv, LockedPCs
<1> QED
  BY <1>3, <1>4, <1>m, <1>5, <1>6, <1>7, <1>8 DEF IndInv

\* A release that stores isa drops a reference, and starts -dealloc if it was the last.
LEMMA ReleaseStoreKeeps ==
  ASSUME IndInv, NEW t \in Threads, ReleaseStore(t)
  PROVE  IndInv'
<1>0. TypeOK /\ LockInv /\ ClientInv /\ PhaseInv /\ DeallocInv /\ CountInv /\ WeakInv /\ LoopInv /\ ChangeInv
  BY DEF IndInv
<1>1. /\ isa = oldisa[t] /\ isa.nonpointer /\ isa.extra_rc > 0
      /\ pc[t] = "l_loop" /\ t \notin deallocators /\ ~freed /\ deallocators = {} /\ refs > 0
      /\ sideTableLocked[t] => lock = t
  BY <1>0, Consequences DEF ReleaseStore, At, LoopInv, LoopPCs, IsDeallocating, LockInv, StoreSucceeds
<1>2. /\ isa' = [isa EXCEPT !.extra_rc = isa.extra_rc - 1]
      /\ lock' = IF sideTableLocked[t] THEN NoThread ELSE lock
      /\ ResetLocals(t)
      /\ UNCHANGED <<side, weakRef, freed, crashed>>
      /\ refs' = refs - 1 /\ selfRefs' = selfRefs
      /\ deallocators' = IF IsDeallocating(isa') THEN deallocators \cup {t} ELSE deallocators
      /\ Goto(t, IF IsDeallocating(isa') THEN "d_body" ELSE "idle")
  BY <1>1 DEF ReleaseStore, ReleaseDone, DropRef, UnlockIf
<1>n. isa.extra_rc - 1 \in 0..RC_MAX
  BY <1>0, <1>1, WordTypes
<1>a. /\ isa' \in IsaWord
      /\ isa'.extra_rc = isa.extra_rc - 1
      /\ isa'.has_sidetable_rc = isa.has_sidetable_rc
      /\ isa'.nonpointer = isa.nonpointer
      /\ isa'.weakly_referenced = isa.weakly_referenced
  BY <1>0, <1>2, <1>n, WordTypes, IsaUpdate DEF IsaWord
<1>b. CASE IsDeallocating(isa')
  <2>1. refs = 1 /\ side.count = 0 /\ InFlight = 0 /\ isa.extra_rc = 1
    BY <1>0, <1>1, <1>a, <1>b, WordTypes, InFlightType DEF CountInv, IsDeallocating
  <2>q. PICK q \in {"d_body"} :
          /\ pc' = [pc EXCEPT ![t] = q]
          /\ deallocators' = {t}
          /\ refs' = 0
    BY <1>1, <1>2, <1>b, <2>1 DEF Goto
  <2>c. /\ Cardinality(Releasing) \in Nat /\ Cardinality(Releasing)' = Cardinality(Releasing) - 1
        /\ Cardinality(Retaining) \in Nat /\ Cardinality(Retaining)' = Cardinality(Retaining)
        /\ Using' # {} => Using # {}
    BY <1>1, <2>q, CallsToDealloc DEF ReleasePCs
  <2>u. \A u \in Threads : u # t => pc[u] \notin {"r_loop", "l_loop"} \cup InFlightPCs \cup {"s_loop", "d_free"}
    BY <1>0, <1>1, <2>1, OthersQuiet DEF DeallocInv, DeallocPCs, ReleasePCs
  <2>sel. selfRefs = 0
    BY <1>0, <1>1 DEF PhaseInv
  <2>3. TypeOK'
    BY <1>0, <1>1, <1>2, <1>a, <1>b, <2>1, <2>q, <2>u, <2>sel, ZeroIsaType DEF TypeOK, ResetLocals, PCs, RetainPCs, TryPCs, ReleasePCs, DeallocPCs
  <2>4. LockInv'
    BY <1>0, <1>1, <1>2, <1>a, <1>b, <2>1, <2>q, <2>u, <2>sel DEF LockInv, TypeOK, LockedPCs, QuietPCs, ResetLocals
  <2>m. ChangeInv' /\ (Moving' <=> Moving)
    BY <1>0, <1>1, <1>2, <1>a, <1>b, <2>1, <2>q, <2>u, <2>sel, MoverAlone, ChangeKept DEF ChangeInv, ResetLocals, ChangePCs, TypeOK
  <2>5. ClientInv'
    <3>1. /\ Cardinality(Releasing) \in Nat /\ Cardinality(Releasing)' = Cardinality(Releasing) - 1
          /\ Cardinality(Retaining) \in Nat /\ Cardinality(Retaining)' = Cardinality(Retaining)
          /\ Using' # {} => Using # {}
      BY <2>c
    <3> QED
      BY <1>0, <1>1, <1>2, <1>a, <1>b, <2>1, <2>q, <2>u, <2>sel, <3>1, WordTypes, RefCountAssumption DEF ClientInv
  <2>6. PhaseInv' /\ DeallocInv'
    BY <1>0, <1>1, <1>2, <1>a, <1>b, <2>1, <2>q, <2>u, <2>sel, <2>m DEF PhaseInv, DeallocInv, TypeOK, DeallocPCs, Leaked
  <2>7. CountInv'
    <3>1. InFlight' = 0
      BY <1>1, <1>2, <1>a, <1>b, <2>1, <2>q, <2>u, <2>sel, InFlightType, InFlightChange DEF InFlightPCs
    <3> QED
      BY <1>0, <1>1, <1>2, <1>a, <1>b, <2>1, <2>q, <2>u, <2>sel, <3>1, WordTypes, RefCountAssumption, <2>m DEF CountInv, Leaked
  <2>8. WeakInv' /\ LoopInv'
    BY <1>0, <1>1, <1>2, <1>a, <1>b, <2>1, <2>q, <2>u, <2>sel, ZenonT(60), <2>m DEF WeakInv, LoopInv, TypeOK, InFlightPCs, LoopPCs, ChangePCs, ResetLocals, IsDeallocating
  <2> QED
    BY <2>3, <2>4, <2>m, <2>5, <2>6, <2>7, <2>8 DEF IndInv
<1>c. CASE ~IsDeallocating(isa')
  <2>q. PICK q \in {"idle"} :
          /\ pc' = [pc EXCEPT ![t] = q]
          /\ UNCHANGED <<selfRefs, deallocators>>
          /\ refs' = refs - 1
    BY <1>1, <1>2, <1>c DEF Goto
  <2>a. isa.extra_rc > 1 \/ isa.has_sidetable_rc
    BY <1>0, <1>1, <1>a, <1>c, WordTypes DEF IsDeallocating
  <2>1. refs > 1
    BY <1>0, <1>1, <2>a, WordTypes, InFlightType DEF CountInv
  <2>2. /\ refs' \in Nat /\ refs' > 0
        /\ lock' = IF sideTableLocked[t] THEN NoThread ELSE lock
        /\ ResetLocals(t)
        /\ UNCHANGED <<side, weakRef, freed, crashed>>
    BY <1>0, <1>2, <2>1, <2>q, WordTypes
  <2>3. TypeOK'
    BY <1>0, <1>1, <1>a, <2>1, <2>q, <2>2, ZeroIsaType DEF TypeOK, ResetLocals, PCs, RetainPCs, TryPCs, ReleasePCs, DeallocPCs
  <2>4. LockInv'
    BY <1>0, <1>1, <1>a, <2>1, <2>q, <2>2 DEF LockInv, TypeOK, LockedPCs, QuietPCs, ResetLocals
  <2>m. ChangeInv' /\ (Moving' <=> Moving)
    BY <1>0, <1>1, <1>a, <2>1, <2>q, <2>2, MoverAlone, ChangeKept DEF ChangeInv, ResetLocals, ChangePCs, TypeOK
  <2>5. ClientInv'
    <3>1. /\ Cardinality(Releasing) \in Nat /\ Cardinality(Releasing)' = Cardinality(Releasing) - 1
          /\ Cardinality(Retaining) \in Nat /\ Cardinality(Retaining)' = Cardinality(Retaining)
          /\ Using' # {} => Using # {}
      BY <1>1, <2>q, CallsStep DEF ReleasePCs, StartPCs, UsingPCs, RetainPCs, ChangePCs
    <3> QED
      BY <1>0, <1>1, <1>a, <2>1, <2>q, <2>2, <3>1, WordTypes, RefCountAssumption DEF ClientInv
  <2>6. PhaseInv' /\ DeallocInv'
    BY <1>0, <1>1, <1>a, <2>1, <2>q, <2>2, <2>m DEF PhaseInv, DeallocInv, TypeOK, DeallocPCs, Leaked
  <2>7. CountInv'
    <3>1. InFlight' = InFlight /\ InFlight \in Nat
      BY <1>1, <1>a, <2>1, <2>q, <2>2, InFlightType, InFlightChange DEF InFlightPCs
    <3> QED
      BY <1>0, <1>1, <1>a, <2>1, <2>q, <2>2, <3>1, WordTypes, RefCountAssumption, <2>m DEF CountInv, Leaked
  <2>8. WeakInv' /\ LoopInv'
    BY <1>0, <1>1, <1>a, <2>1, <2>q, <2>2, <2>m DEF WeakInv, LoopInv, TypeOK, InFlightPCs, LoopPCs, ChangePCs, ResetLocals
  <2> QED
    BY <2>3, <2>4, <2>m, <2>5, <2>6, <2>7, <2>8 DEF IndInv
<1> QED
  BY <1>b, <1>c

\* A release of a raw object takes one count, or starts -dealloc when there is none.
LEMMA SidetableReleaseKeeps ==
  ASSUME IndInv, NEW t \in Threads, SidetableRelease(t)
  PROVE  IndInv'
<1>0. TypeOK /\ LockInv /\ ClientInv /\ PhaseInv /\ DeallocInv /\ CountInv /\ WeakInv /\ LoopInv /\ ChangeInv
  BY DEF IndInv
<1>1. pc[t] = "l_loop" /\ ~isa.nonpointer /\ lock \in {NoThread, t}
  BY <1>0 DEF SidetableRelease, At, LoopInv, LoopPCs
<1> DEFINE dealloc == side.count = 0 /\ ~side.deallocating
<1>2. /\ side' = [side EXCEPT !.deallocating = @ \/ dealloc,
                                   !.count = IF dealloc \/ Pinned(side) THEN @ ELSE (@ - 1) % SideLimit]
      /\ lock' = NoThread
      /\ DropRef(t, dealloc)
      /\ Goto(t, IF dealloc \/ t \in deallocators THEN "d_body" ELSE "idle")
      /\ ResetLocals(t)
      /\ UNCHANGED <<isa, weakRef, freed, crashed>>
  BY DEF SidetableRelease, ReleaseDone
<1>3. CASE t \in deallocators
  <2>1. /\ selfRefs = 1 /\ ~freed /\ refs = 0
        /\ \A u \in Threads : pc[u] # "d_free"
        /\ side.deallocating /\ side.count = 1
    BY <1>0, <1>1, <1>3, MoverAlone DEF CountInv, PhaseInv, DeallocInv, DeallocPCs
  <2>2. ~Pinned(side) /\ (side.count - 1) % SideLimit = side.count - 1 /\ ~dealloc
    BY <2>1, SideLimits, RefCountAssumption DEF Pinned
  <2>b. side.deallocating \in BOOLEAN
    BY <1>0, WordTypes
  <2>z. side.count - 1 \in 0..(SideLimit - 1)
    BY <2>1, SideLimits
  <2>r. /\ side' = [side EXCEPT !.count = side.count - 1]
        /\ side.count - 1 \in 0..(SideLimit - 1)
    BY <1>0, <1>2, <2>1, <2>2, <2>b, <2>z, WordTypes DEF SideWord
  <2>s. /\ side' \in SideWord
        /\ side'.count = side.count - 1
        /\ side'.deallocating = side.deallocating
        /\ side'.weakly_referenced = side.weakly_referenced
    BY <1>0, <2>r, WordTypes, SideUpdate
  <2>q. PICK q \in {"d_body"} :
          /\ pc' = [pc EXCEPT ![t] = q]
          /\ selfRefs' = selfRefs - 1 /\ UNCHANGED <<refs, deallocators>>
    BY <1>2, <1>3, <2>2 DEF DropRef, Goto
  <2>3. TypeOK'
    BY <1>0, <1>1, <1>2, <1>3, <2>1, <2>q, <2>s, ZeroIsaType DEF TypeOK, ResetLocals, PCs, RetainPCs, TryPCs, ReleasePCs, DeallocPCs
  <2>4. LockInv'
    BY <1>0, <1>1, <1>2, <1>3, <2>1, <2>q, <2>s DEF LockInv, TypeOK, LockedPCs, QuietPCs, ResetLocals
  <2>m. ChangeInv' /\ (Moving' <=> Moving)
    BY <1>0, <1>1, <1>2, <1>3, <2>1, <2>q, <2>s, MoverAlone, ChangeKept DEF ChangeInv, ResetLocals, ChangePCs, TypeOK
  <2>5. ClientInv'
    <3>1. /\ Cardinality(Releasing) \in Nat /\ Cardinality(Releasing)' = Cardinality(Releasing)
          /\ Cardinality(Retaining) \in Nat /\ Cardinality(Retaining)' = Cardinality(Retaining)
          /\ Using' # {} => Using # {}
      BY <1>3, <2>q, CallsDealloc
    <3> QED
      BY <1>0, <1>1, <1>2, <1>3, <2>1, <2>q, <2>s, <3>1, WordTypes, RefCountAssumption DEF ClientInv
  <2>6. PhaseInv' /\ DeallocInv'
    BY <1>0, <1>1, <1>2, <1>3, <2>1, <2>q, <2>s, <2>m DEF PhaseInv, DeallocInv, TypeOK, DeallocPCs, Leaked
  <2>7. CountInv'
    <3>1. InFlight' = InFlight /\ InFlight \in Nat
      BY <1>1, <1>2, <1>3, <2>1, <2>q, <2>s, InFlightType, InFlightChange DEF InFlightPCs
    <3> QED
      BY <1>0, <1>1, <1>2, <1>3, <2>1, <2>q, <2>s, <3>1, WordTypes, RefCountAssumption, <2>m DEF CountInv, Leaked
  <2>8. WeakInv' /\ LoopInv'
    BY <1>0, <1>1, <1>2, <1>3, <2>1, <2>q, <2>s, RefCountAssumption, <2>m DEF WeakInv, LoopInv, TypeOK, InFlightPCs, LoopPCs, ChangePCs, ResetLocals, LockInv, LockedPCs
  <2> QED
    BY <2>3, <2>4, <2>m, <2>5, <2>6, <2>7, <2>8 DEF IndInv
<1>4. CASE t \notin deallocators /\ side.count > 0
  <2>1. /\ deallocators = {} /\ ~freed /\ refs > 0
        /\ side.count + 1 = refs \/ Leaked
        /\ ~side.deallocating
    BY <1>0, <1>1, <1>4, Consequences, MoverAlone, WordTypes, RefCountAssumption DEF CountInv
  <2>2. /\ IF Leaked THEN Pinned(side) ELSE ~Pinned(side)
        /\ side.count - 1 \in 0..(SideLimit - 1)
    BY <1>0, <1>4, <2>1, CallsFinite, WordTypes, SideLimits DEF ClientInv, Pinned, Leaked
  <2>z. (side.count - 1) % SideLimit = side.count - 1 /\ ~dealloc
    BY <1>4, <2>2, SideLimits
  <2> DEFINE n == IF Leaked THEN side.count ELSE side.count - 1
  <2>r. /\ side' = [side EXCEPT !.count = n]
        /\ n \in 0..(SideLimit - 1)
    BY <1>0, <1>2, <2>1, <2>2, <2>z, WordTypes DEF SideWord
  <2>s. /\ side' \in SideWord
        /\ side'.count = IF Leaked THEN side.count ELSE side.count - 1
        /\ side'.deallocating = side.deallocating
        /\ side'.weakly_referenced = side.weakly_referenced
    BY <1>0, <2>r, WordTypes, SideUpdate
  <2>q. PICK q \in {"idle"} :
          /\ pc' = [pc EXCEPT ![t] = q]
          /\ refs' = refs - 1 /\ UNCHANGED <<selfRefs, deallocators>>
    BY <1>2, <1>4, <2>z DEF DropRef, Goto
  <2>n. refs' \in Nat
    BY <1>0, <2>1, <2>q, WordTypes
  <2>3. TypeOK'
    BY <1>0, <1>1, <1>2, <1>4, <2>1, <2>q, <2>s, <2>n, ZeroIsaType DEF TypeOK, ResetLocals, PCs, RetainPCs, TryPCs, ReleasePCs, DeallocPCs
  <2>4. LockInv'
    BY <1>0, <1>1, <1>2, <1>4, <2>1, <2>q, <2>s, <2>n DEF LockInv, TypeOK, LockedPCs, QuietPCs, ResetLocals
  <2>m. ChangeInv' /\ (Moving' <=> Moving)
    BY <1>0, <1>1, <1>2, <1>4, <2>1, <2>q, <2>s, <2>n, MoverAlone, ChangeKept DEF ChangeInv, ResetLocals, ChangePCs, TypeOK
  <2>5. ClientInv'
    <3>1. /\ Cardinality(Releasing) \in Nat /\ Cardinality(Releasing)' = Cardinality(Releasing) - 1
          /\ Cardinality(Retaining) \in Nat /\ Cardinality(Retaining)' = Cardinality(Retaining)
          /\ Using' # {} => Using # {}
      BY <1>1, <1>4, <2>q, CallsStep DEF ReleasePCs, StartPCs, UsingPCs, RetainPCs, ChangePCs
    <3> QED
      BY <1>0, <1>1, <1>2, <1>4, <2>1, <2>q, <2>s, <2>n, <3>1, WordTypes, RefCountAssumption DEF ClientInv
  <2>6. PhaseInv' /\ DeallocInv'
    <3>1. refs' > 0 \/ Leaked'
      BY <1>0, <1>1, <1>2, <1>4, <2>1, <2>q, <2>s, WordTypes DEF Leaked
    <3> QED
      BY <1>0, <1>1, <1>2, <1>4, <2>1, <2>q, <2>s, <2>n, <3>1 DEF PhaseInv, DeallocInv, TypeOK, DeallocPCs
  <2>7. CountInv'
    <3>1. InFlight' = InFlight /\ InFlight \in Nat
      BY <1>1, <1>2, <1>4, <2>1, <2>q, <2>s, <2>n, InFlightType, InFlightChange DEF InFlightPCs
    <3> QED
      BY <1>0, <1>1, <1>2, <1>4, <2>1, <2>q, <2>s, <2>n, <3>1, WordTypes, RefCountAssumption, <2>m DEF CountInv, Leaked
  <2>8. WeakInv' /\ LoopInv'
    BY <1>0, <1>1, <1>2, <1>4, <2>1, <2>q, <2>s, <2>n, RefCountAssumption, <2>m DEF WeakInv, LoopInv, TypeOK, InFlightPCs, LoopPCs, ChangePCs, ResetLocals, LockInv, LockedPCs
  <2> QED
    BY <2>3, <2>4, <2>m, <2>5, <2>6, <2>7, <2>8 DEF IndInv
<1>5. CASE t \notin deallocators /\ side.count = 0
  <2>1. deallocators = {} /\ ~freed /\ refs = 1 /\ selfRefs = 0 /\ ~side.deallocating
    BY <1>0, <1>1, <1>5, Consequences, MoverAlone, SideLimits, RefCountAssumption DEF CountInv, PhaseInv, Leaked
  <2>d. dealloc
    BY <1>5, <2>1
  <2>e. refs' = refs - 1 /\ selfRefs' = selfRefs /\ deallocators' = deallocators \cup {t}
    BY <1>2, <1>5, <2>d DEF DropRef
  <2>f. deallocators' = {t} /\ refs' = 0 /\ selfRefs' = 0
    BY <2>1, <2>e
  <2>g. Goto(t, "d_body")
    BY <1>2, <2>d
  <2>q. PICK q \in {"d_body"} :
          /\ pc' = [pc EXCEPT ![t] = q]
          /\ deallocators' = {t} /\ refs' = 0 /\ selfRefs' = 0
    BY <2>f, <2>g DEF Goto
  <2>s. /\ side' \in SideWord
        /\ side'.count = 0 /\ side'.deallocating
        /\ side'.weakly_referenced = side.weakly_referenced
    BY <1>0, <1>2, <1>5, <2>1, WordTypes DEF SideWord
  <2>c. /\ Cardinality(Releasing) \in Nat /\ Cardinality(Releasing)' = Cardinality(Releasing) - 1
        /\ Cardinality(Retaining) \in Nat /\ Cardinality(Retaining)' = Cardinality(Retaining)
        /\ Using' # {} => Using # {}
    BY <1>1, <2>1, <2>q, CallsToDealloc DEF ReleasePCs
  <2>u. \A u \in Threads : u # t => pc[u] \notin {"r_loop", "l_loop"} \cup InFlightPCs \cup {"s_loop", "d_free"}
    BY <1>0, <1>1, <2>1, OthersQuiet DEF DeallocInv, DeallocPCs, ReleasePCs
  <2>3. TypeOK'
    BY <1>0, <1>1, <1>2, <2>1, <2>q, <2>s, <2>u, ZeroIsaType DEF TypeOK, ResetLocals, PCs, RetainPCs, TryPCs, ReleasePCs, DeallocPCs
  <2>4. LockInv'
    BY <1>0, <1>1, <1>2, <2>1, <2>q, <2>s, <2>u DEF LockInv, TypeOK, LockedPCs, QuietPCs, ResetLocals
  <2>m. ChangeInv' /\ (Moving' <=> Moving)
    BY <1>0, <1>1, <1>2, <2>1, <2>q, <2>s, <2>u, MoverAlone, ChangeKept DEF ChangeInv, ResetLocals, ChangePCs, TypeOK
  <2>5. ClientInv'
    <3>1. /\ Cardinality(Releasing) \in Nat /\ Cardinality(Releasing)' = Cardinality(Releasing) - 1
          /\ Cardinality(Retaining) \in Nat /\ Cardinality(Retaining)' = Cardinality(Retaining)
          /\ Using' # {} => Using # {}
      BY <2>c
    <3> QED
      BY <1>0, <1>1, <1>2, <2>1, <2>q, <2>s, <2>u, <3>1, WordTypes, RefCountAssumption DEF ClientInv
  <2>6. PhaseInv' /\ DeallocInv'
    BY <1>0, <1>1, <1>2, <2>1, <2>q, <2>s, <2>u, <2>m DEF PhaseInv, DeallocInv, TypeOK, DeallocPCs, Leaked
  <2>7. CountInv'
    <3>1. InFlight' = InFlight /\ InFlight \in Nat
      BY <1>1, <1>2, <2>1, <2>q, <2>s, <2>u, InFlightType, InFlightChange DEF InFlightPCs
    <3> QED
      BY <1>0, <1>1, <1>2, <2>1, <2>q, <2>s, <2>u, <3>1, WordTypes, RefCountAssumption, <2>m DEF CountInv, Leaked
  <2>8. WeakInv' /\ LoopInv'
    BY <1>0, <1>1, <1>2, <2>1, <2>q, <2>s, <2>u, RefCountAssumption, <2>m DEF WeakInv, LoopInv, TypeOK, InFlightPCs, LoopPCs, ChangePCs, ResetLocals, LockInv, LockedPCs
  <2> QED
    BY <2>3, <2>4, <2>m, <2>5, <2>6, <2>7, <2>8 DEF IndInv
<1>6. side.count \in Nat
  BY <1>0, WordTypes
<1> QED
  BY <1>3, <1>4, <1>5, <1>6

\* A release that borrowed stores the borrowed half less one.
LEMMA BorrowStoreKeeps ==
  ASSUME IndInv, NEW t \in Threads, BorrowStore(t)
  PROVE  IndInv'
<1>0. TypeOK /\ LockInv /\ ClientInv /\ PhaseInv /\ DeallocInv /\ CountInv /\ WeakInv /\ LoopInv /\ ChangeInv
  BY DEF IndInv
<1>1. /\ pc[t] \in {"l_borrow", "l_borrow2"} /\ isa = oldisa[t]
      /\ isa.nonpointer /\ isa.has_sidetable_rc /\ lock = t
      /\ t \notin deallocators /\ deallocators = {} /\ ~freed /\ refs > 0
      /\ InFlight = RC_HALF
  BY <1>0, Consequences, InFlightType DEF BorrowStore, StoreSucceeds, At, LoopInv, LockInv, LockedPCs, InFlightPCs, InFlight, DeallocInv, DeallocPCs
<1>n. isa.extra_rc + RC_HALF - 1 \in 0..RC_MAX
  BY <1>0, <1>1, WordTypes, RefCountAssumption DEF BorrowStore, BorrowSum
<1>b. /\ isa' = [isa EXCEPT !.extra_rc = isa.extra_rc + RC_HALF - 1, !.has_sidetable_rc = (side.count # 0)]
      /\ UNCHANGED <<side, weakRef, freed, crashed>>
  BY <1>1 DEF BorrowStore, BorrowSum
<1>a. /\ isa' \in IsaWord
      /\ isa'.extra_rc = isa.extra_rc + RC_HALF - 1
      /\ isa'.has_sidetable_rc = (side.count # 0)
      /\ isa'.nonpointer = isa.nonpointer
      /\ isa'.weakly_referenced = isa.weakly_referenced
  BY <1>0, <1>b, <1>n, WordTypes, IsaUpdate, ZenonT(60) DEF IsaWord
<1>r. refs' = refs - 1 /\ UNCHANGED <<selfRefs, deallocators>>
  BY <1>1 DEF BorrowStore, DropRef, ReleaseDone
<1>m. refs > 1
  BY <1>0, <1>1, WordTypes, RefCountAssumption DEF CountInv
<1>p. refs' \in Nat /\ refs' > 0
  BY <1>0, <1>r, <1>m, WordTypes
<1>e. isa'.extra_rc + side.count = refs'
  BY <1>0, <1>1, <1>a, <1>r, WordTypes DEF CountInv
<1>2. CASE side.count = 0
  <2>z. side = NoSide
    BY <1>0, <1>1, <1>2, WordTypes DEF CountInv, NoSide, SideWord
  <2>q. PICK q \in {"l_clear"} :
          /\ pc' = [pc EXCEPT ![t] = q]
          /\ UNCHANGED <<lock, oldisa, newisa, newCls, full, sideTableLocked>>
    BY <1>2 DEF BorrowStore, Goto, locals
  <2>3. TypeOK'
    BY <1>0, <1>1, <1>b, <1>a, <1>r, <1>p, <1>e, <1>2, <2>q, <2>z, ZeroIsaType DEF TypeOK, ResetLocals, PCs, RetainPCs, TryPCs, ReleasePCs, DeallocPCs
  <2>4. LockInv'
    BY <1>0, <1>1, <1>b, <1>a, <1>r, <1>p, <1>e, <1>2, <2>q, <2>z DEF LockInv, TypeOK, LockedPCs, QuietPCs, ResetLocals
  <2>m. ChangeInv' /\ (Moving' <=> Moving)
    BY <1>0, <1>1, <1>b, <1>a, <1>r, <1>p, <1>e, <1>2, <2>q, <2>z, MoverAlone, ChangeKept DEF ChangeInv, ResetLocals, ChangePCs, TypeOK
  <2>5. ClientInv'
    <3>1. /\ Cardinality(Releasing) \in Nat /\ Cardinality(Releasing)' = Cardinality(Releasing) - 1
          /\ Cardinality(Retaining) \in Nat /\ Cardinality(Retaining)' = Cardinality(Retaining)
          /\ Using' # {} => Using # {}
      BY <1>1, <1>r, <2>q, CallsStep DEF ReleasePCs, StartPCs, UsingPCs, RetainPCs, ChangePCs
    <3> QED
      BY <1>0, <1>1, <1>b, <1>a, <1>r, <1>p, <1>e, <1>2, <2>q, <2>z, <3>1, WordTypes, RefCountAssumption DEF ClientInv
  <2>6. PhaseInv' /\ DeallocInv'
    BY <1>0, <1>1, <1>b, <1>a, <1>r, <1>p, <1>e, <1>2, <2>q, <2>z, <2>m DEF PhaseInv, DeallocInv, TypeOK, DeallocPCs, Leaked
  <2>7. CountInv'
    <3>1. InFlight' = 0
      BY <1>1, <1>b, <1>a, <1>r, <1>p, <1>e, <1>2, <2>q, <2>z, InFlightType, InFlightChange DEF InFlightPCs
    <3> QED
      BY <1>0, <1>1, <1>b, <1>a, <1>r, <1>p, <1>e, <1>2, <2>q, <2>z, <3>1, WordTypes, RefCountAssumption, <2>m DEF CountInv, Leaked
  <2>8. WeakInv' /\ LoopInv'
    BY <1>0, <1>1, <1>b, <1>a, <1>r, <1>p, <1>e, <1>2, <2>q, <2>z, RefCountAssumption, ZenonT(60), <2>m DEF WeakInv, LoopInv, TypeOK, InFlightPCs, LoopPCs, ChangePCs, ResetLocals, LockInv, LockedPCs
  <2> QED
    BY <2>3, <2>4, <2>m, <2>5, <2>6, <2>7, <2>8 DEF IndInv
<1>3. CASE side.count # 0
  <2>h. /\ Halves(side'.count) /\ side'.count > 0 /\ side'.count \in Nat
        /\ ~side'.deallocating /\ ~side'.weakly_referenced
        /\ isa'.has_sidetable_rc /\ isa'.nonpointer /\ ~freed' /\ deallocators' = {}
        /\ isa'.extra_rc \in Nat /\ isa'.extra_rc + side'.count = refs'
    BY <1>0, <1>1, <1>3, <1>a, <1>b, <1>e, <1>r, WordTypes DEF CountInv, IsaWord
  <2>q. PICK q \in {"idle"} :
          /\ pc' = [pc EXCEPT ![t] = q]
          /\ lock' = NoThread
          /\ ResetLocals(t)
    BY <1>1, <1>3 DEF BorrowStore, ReleaseDone, Goto, UnlockIf
  <2>3. TypeOK'
    BY <1>0, <1>1, <1>b, <1>a, <1>r, <1>p, <1>e, <1>3, <2>q, <2>h, ZeroIsaType DEF TypeOK, ResetLocals, PCs, RetainPCs, TryPCs, ReleasePCs, DeallocPCs
  <2>4. LockInv'
    BY <1>0, <1>1, <1>b, <1>a, <1>r, <1>p, <1>e, <1>3, <2>q, <2>h DEF LockInv, TypeOK, LockedPCs, QuietPCs, ResetLocals
  <2>m. ChangeInv' /\ (Moving' <=> Moving)
    BY <1>0, <1>1, <1>b, <1>a, <1>r, <1>p, <1>e, <1>3, <2>q, <2>h, MoverAlone, ChangeKept DEF ChangeInv, ResetLocals, ChangePCs, TypeOK
  <2>5. ClientInv'
    <3>1. /\ Cardinality(Releasing) \in Nat /\ Cardinality(Releasing)' = Cardinality(Releasing) - 1
          /\ Cardinality(Retaining) \in Nat /\ Cardinality(Retaining)' = Cardinality(Retaining)
          /\ Using' # {} => Using # {}
      BY <1>1, <1>r, <2>q, CallsStep DEF ReleasePCs, StartPCs, UsingPCs, RetainPCs, ChangePCs
    <3> QED
      BY <1>0, <1>1, <1>b, <1>a, <1>r, <1>p, <1>e, <1>3, <2>q, <2>h, <3>1, WordTypes, RefCountAssumption DEF ClientInv
  <2>6. PhaseInv' /\ DeallocInv'
    BY <1>0, <1>1, <1>b, <1>a, <1>r, <1>p, <1>e, <1>3, <2>q, <2>h, <2>m DEF PhaseInv, DeallocInv, TypeOK, DeallocPCs, Leaked
  <2>7. CountInv'
    <3>1. InFlight' = 0
      BY <1>1, <1>b, <1>a, <1>r, <1>p, <1>e, <1>3, <2>q, <2>h, InFlightType, InFlightChange DEF InFlightPCs
    <3> QED
      BY <2>h, <3>1, WordTypes, RefCountAssumption, <2>m DEF CountInv, Leaked
  <2>8. WeakInv' /\ LoopInv'
    BY <1>0, <1>1, <1>b, <1>a, <1>r, <1>p, <1>e, <1>3, <2>q, <2>h, RefCountAssumption, ZenonT(60), <2>m DEF WeakInv, LoopInv, TypeOK, InFlightPCs, LoopPCs, ChangePCs, ResetLocals, LockInv, LockedPCs
  <2> QED
    BY <2>3, <2>4, <2>m, <2>5, <2>6, <2>7, <2>8 DEF IndInv
<1> QED
  BY <1>2, <1>3

\* The first store-exclusive with the borrowed half failed.
LEMMA BorrowFailKeeps ==
  ASSUME IndInv, NEW t \in Threads, BorrowFail(t)
  PROVE  IndInv'
<1>0. TypeOK /\ LockInv /\ ClientInv /\ PhaseInv /\ DeallocInv /\ CountInv /\ WeakInv /\ LoopInv /\ ChangeInv
  BY DEF IndInv
<1>1. /\ pc[t] = "l_borrow"
      /\ isa.nonpointer /\ isa.has_sidetable_rc /\ lock = t
      /\ t \notin deallocators /\ deallocators = {} /\ ~freed /\ refs > 0
      /\ InFlight = RC_HALF
  BY <1>0, Consequences, InFlightType DEF BorrowFail, At, LoopInv, LockInv, LockedPCs, InFlightPCs, InFlight, DeallocInv, DeallocPCs
<1>q. PICK q \in {"l_borrow2"} :
        /\ pc' = [pc EXCEPT ![t] = q]
        /\ oldisa' = [oldisa EXCEPT ![t] = isa]
        /\ UNCHANGED <<isa, side, weakRef, freed, crashed>>
        /\ UNCHANGED <<refs, selfRefs, deallocators>>
        /\ UNCHANGED <<lock, newisa, newCls, full, sideTableLocked>>
  BY <1>1 DEF BorrowFail, Goto, LoadIsa, heap, ghost
<1>3. TypeOK'
  BY <1>0, <1>1, <1>q, ZeroIsaType DEF TypeOK, ResetLocals, PCs, RetainPCs, TryPCs, ReleasePCs, DeallocPCs
<1>4. LockInv'
  BY <1>0, <1>1, <1>q DEF LockInv, TypeOK, LockedPCs, QuietPCs, ResetLocals
<1>m. ChangeInv' /\ (Moving' <=> Moving)
  BY <1>0, <1>1, <1>q, MoverAlone, ChangeKept DEF ChangeInv, ResetLocals, ChangePCs, TypeOK
<1>5. ClientInv'
  <2>1. /\ Cardinality(Releasing) \in Nat /\ Cardinality(Releasing)' = Cardinality(Releasing)
        /\ Cardinality(Retaining) \in Nat /\ Cardinality(Retaining)' = Cardinality(Retaining)
        /\ Using' # {} => Using # {}
    BY <1>1, <1>q, CallsStep DEF ReleasePCs, StartPCs, UsingPCs, RetainPCs, ChangePCs
  <2> QED
    BY <1>0, <1>1, <1>q, <2>1, WordTypes, RefCountAssumption DEF ClientInv
<1>6. PhaseInv' /\ DeallocInv'
  BY <1>0, <1>1, <1>q, <1>m DEF PhaseInv, DeallocInv, TypeOK, DeallocPCs, Leaked
<1>7. CountInv'
  <2>1. InFlight' = InFlight /\ InFlight \in Nat
    BY <1>1, <1>q, InFlightType, InFlightChange DEF InFlightPCs
  <2> QED
    BY <1>0, <1>1, <1>q, <2>1, WordTypes, RefCountAssumption, <1>m DEF CountInv, Leaked
<1>8. WeakInv' /\ LoopInv'
  BY <1>0, <1>1, <1>q, <1>m DEF WeakInv, LoopInv, TypeOK, InFlightPCs, LoopPCs, ChangePCs, ResetLocals
<1> QED
  BY <1>3, <1>4, <1>m, <1>5, <1>6, <1>7, <1>8 DEF IndInv

\* The second attempt failed too: the half is going back.
LEMMA BorrowFailAgainKeeps ==
  ASSUME IndInv, NEW t \in Threads, BorrowFailAgain(t)
  PROVE  IndInv'
<1>0. TypeOK /\ LockInv /\ ClientInv /\ PhaseInv /\ DeallocInv /\ CountInv /\ WeakInv /\ LoopInv /\ ChangeInv
  BY DEF IndInv
<1>1. /\ pc[t] = "l_borrow2"
      /\ isa.nonpointer /\ isa.has_sidetable_rc /\ lock = t
      /\ t \notin deallocators /\ deallocators = {} /\ ~freed /\ refs > 0
      /\ InFlight = RC_HALF
  BY <1>0, Consequences, InFlightType DEF BorrowFailAgain, At, LoopInv, LockInv, LockedPCs, InFlightPCs, InFlight, DeallocInv, DeallocPCs
<1>q. PICK q \in {"l_putback"} :
        /\ pc' = [pc EXCEPT ![t] = q]
        /\ UNCHANGED <<isa, side, weakRef, freed, crashed>>
        /\ UNCHANGED <<refs, selfRefs, deallocators>>
        /\ UNCHANGED <<lock, oldisa, newisa, newCls, full, sideTableLocked>>
  BY <1>1 DEF BorrowFailAgain, Goto, locals, heap, ghost
<1>3. TypeOK'
  BY <1>0, <1>1, <1>q, ZeroIsaType DEF TypeOK, ResetLocals, PCs, RetainPCs, TryPCs, ReleasePCs, DeallocPCs
<1>4. LockInv'
  BY <1>0, <1>1, <1>q DEF LockInv, TypeOK, LockedPCs, QuietPCs, ResetLocals
<1>m. ChangeInv' /\ (Moving' <=> Moving)
  BY <1>0, <1>1, <1>q, MoverAlone, ChangeKept DEF ChangeInv, ResetLocals, ChangePCs, TypeOK
<1>5. ClientInv'
  <2>1. /\ Cardinality(Releasing) \in Nat /\ Cardinality(Releasing)' = Cardinality(Releasing)
        /\ Cardinality(Retaining) \in Nat /\ Cardinality(Retaining)' = Cardinality(Retaining)
        /\ Using' # {} => Using # {}
    BY <1>1, <1>q, CallsStep DEF ReleasePCs, StartPCs, UsingPCs, RetainPCs, ChangePCs
  <2> QED
    BY <1>0, <1>1, <1>q, <2>1, WordTypes, RefCountAssumption DEF ClientInv
<1>6. PhaseInv' /\ DeallocInv'
  BY <1>0, <1>1, <1>q, <1>m DEF PhaseInv, DeallocInv, TypeOK, DeallocPCs, Leaked
<1>7. CountInv'
  <2>1. InFlight' = InFlight /\ InFlight \in Nat
    BY <1>1, <1>q, InFlightType, InFlightChange DEF InFlightPCs
  <2> QED
    BY <1>0, <1>1, <1>q, <2>1, WordTypes, RefCountAssumption, <1>m DEF CountInv, Leaked
<1>8. WeakInv' /\ LoopInv'
  BY <1>0, <1>1, <1>q, <1>m DEF WeakInv, LoopInv, TypeOK, InFlightPCs, LoopPCs, ChangePCs, ResetLocals
<1> QED
  BY <1>3, <1>4, <1>m, <1>5, <1>6, <1>7, <1>8 DEF IndInv

\* The borrowed half is put back and the release starts over, still under the lock.
LEMMA ReleasePutBackKeeps ==
  ASSUME IndInv, NEW t \in Threads, ReleasePutBack(t)
  PROVE  IndInv'
<1>0. TypeOK /\ LockInv /\ ClientInv /\ PhaseInv /\ DeallocInv /\ CountInv /\ WeakInv /\ LoopInv /\ ChangeInv
  BY DEF IndInv
<1>1. /\ pc[t] = "l_putback"
      /\ isa.nonpointer /\ isa.has_sidetable_rc /\ lock = t
      /\ t \notin deallocators /\ deallocators = {} /\ ~freed /\ refs > 0
      /\ InFlight = RC_HALF
  BY <1>0, Consequences, InFlightType DEF ReleasePutBack, At, LoopInv, LockInv, LockedPCs, InFlightPCs, InFlight, DeallocInv, DeallocPCs
<1>2. ~Pinned(side) /\ side.count + RC_HALF < SideLimit
  BY <1>0, <1>1, CallsFinite, WordTypes, SideLimits DEF ClientInv, Pinned, CountInv
<1>r. /\ side' = [side EXCEPT !.count = side.count + RC_HALF]
      /\ side.count + RC_HALF \in 0..(SideLimit - 1)
  BY <1>0, <1>2, WordTypes, SideLimits DEF ReleasePutBack, SidetableAddExtraRC
<1>s. /\ side' \in SideWord
      /\ side'.count = side.count + RC_HALF
      /\ side'.deallocating = side.deallocating
      /\ side'.weakly_referenced = side.weakly_referenced
  BY <1>0, <1>r, WordTypes, SideUpdate
<1>q. PICK q \in {"l_loop"} :
        /\ pc' = [pc EXCEPT ![t] = q]
        /\ oldisa' = [oldisa EXCEPT ![t] = isa]
        /\ UNCHANGED <<refs, selfRefs, deallocators>>
        /\ UNCHANGED <<isa, weakRef, freed, crashed, lock, newisa, newCls, full, sideTableLocked>>
  BY <1>1 DEF ReleasePutBack, Goto, LoadIsa, ghost
<1>h. /\ Halves(side'.count)
      /\ ~IsDeallocating(isa)
  BY <1>0, <1>1, <1>s, HalvesAdd, WordTypes DEF CountInv, IsDeallocating
<1>3. TypeOK'
  BY <1>0, <1>1, <1>s, <1>q, <1>h, ZeroIsaType DEF TypeOK, ResetLocals, PCs, RetainPCs, TryPCs, ReleasePCs, DeallocPCs
<1>4. LockInv'
  BY <1>0, <1>1, <1>s, <1>q, <1>h DEF LockInv, TypeOK, LockedPCs, QuietPCs, ResetLocals
<1>m. ChangeInv' /\ (Moving' <=> Moving)
  BY <1>0, <1>1, <1>s, <1>q, <1>h, MoverAlone, ChangeKept DEF ChangeInv, ResetLocals, ChangePCs, TypeOK
<1>5. ClientInv'
  <2>1. /\ Cardinality(Releasing) \in Nat /\ Cardinality(Releasing)' = Cardinality(Releasing)
        /\ Cardinality(Retaining) \in Nat /\ Cardinality(Retaining)' = Cardinality(Retaining)
        /\ Using' # {} => Using # {}
    BY <1>1, <1>s, <1>q, <1>h, CallsStep DEF ReleasePCs, StartPCs, UsingPCs, RetainPCs, ChangePCs
  <2> QED
    BY <1>0, <1>1, <1>s, <1>q, <1>h, <2>1, WordTypes, RefCountAssumption DEF ClientInv
<1>6. PhaseInv' /\ DeallocInv'
  BY <1>0, <1>1, <1>s, <1>q, <1>h, <1>m DEF PhaseInv, DeallocInv, TypeOK, DeallocPCs, Leaked
<1>7. CountInv'
  <2>1. InFlight' = 0
    BY <1>1, <1>s, <1>q, <1>h, InFlightType, InFlightChange DEF InFlightPCs
  <2> QED
    BY <1>0, <1>1, <1>s, <1>q, <1>h, <2>1, WordTypes, RefCountAssumption, <1>m DEF CountInv, Leaked
<1>8. WeakInv' /\ LoopInv'
  BY <1>0, <1>1, <1>s, <1>q, <1>h, RefCountAssumption, <1>m DEF WeakInv, LoopInv, TypeOK, InFlightPCs, LoopPCs, ChangePCs, ResetLocals, LockInv, LockedPCs
<1> QED
  BY <1>3, <1>4, <1>m, <1>5, <1>6, <1>7, <1>8 DEF IndInv

\* The release that emptied the side table erases the word.
LEMMA ReleaseClearKeeps ==
  ASSUME IndInv, NEW t \in Threads, ReleaseClear(t)
  PROVE  IndInv'
<1>0. TypeOK /\ LockInv /\ ClientInv /\ PhaseInv /\ DeallocInv /\ CountInv /\ WeakInv /\ LoopInv /\ ChangeInv
  BY DEF IndInv
<1>1. pc[t] = "l_clear" /\ lock = t /\ t \notin deallocators /\ side = NoSide
  BY <1>0 DEF ReleaseClear, At, LoopInv, LockInv, LockedPCs, DeallocInv, DeallocPCs
<1>q. PICK q \in {"idle"} :
        /\ pc' = [pc EXCEPT ![t] = q]
        /\ ResetLocals(t)
        /\ lock' = NoThread
        /\ UNCHANGED <<refs, selfRefs, deallocators>>
        /\ UNCHANGED <<isa, side, weakRef, freed, crashed>>
  BY <1>1 DEF ReleaseClear, Goto, Return, ghost
<1>3. TypeOK'
  BY <1>0, <1>1, <1>q, ZeroIsaType DEF TypeOK, ResetLocals, PCs, RetainPCs, TryPCs, ReleasePCs, DeallocPCs
<1>4. LockInv'
  BY <1>0, <1>1, <1>q DEF LockInv, TypeOK, LockedPCs, QuietPCs, ResetLocals
<1>m. ChangeInv' /\ (Moving' <=> Moving)
  BY <1>0, <1>1, <1>q, MoverAlone, ChangeKept DEF ChangeInv, ResetLocals, ChangePCs, TypeOK
<1>5. ClientInv'
  <2>1. /\ Cardinality(Releasing) \in Nat /\ Cardinality(Releasing)' = Cardinality(Releasing)
        /\ Cardinality(Retaining) \in Nat /\ Cardinality(Retaining)' = Cardinality(Retaining)
        /\ Using' # {} => Using # {}
    BY <1>1, <1>q, CallsStep DEF ReleasePCs, StartPCs, UsingPCs, RetainPCs, ChangePCs
  <2> QED
    BY <1>0, <1>1, <1>q, <2>1, WordTypes, RefCountAssumption DEF ClientInv
<1>6. PhaseInv' /\ DeallocInv'
  BY <1>0, <1>1, <1>q, <1>m DEF PhaseInv, DeallocInv, TypeOK, DeallocPCs, Leaked
<1>7. CountInv'
  <2>1. InFlight' = InFlight /\ InFlight \in Nat
    BY <1>1, <1>q, InFlightType, InFlightChange DEF InFlightPCs
  <2> QED
    BY <1>0, <1>1, <1>q, <2>1, WordTypes, RefCountAssumption, <1>m DEF CountInv, Leaked
<1>8. WeakInv' /\ LoopInv'
  BY <1>0, <1>1, <1>q, RefCountAssumption, <1>m DEF WeakInv, LoopInv, TypeOK, InFlightPCs, LoopPCs, ChangePCs, ResetLocals, LockInv, LockedPCs
<1> QED
  BY <1>3, <1>4, <1>m, <1>5, <1>6, <1>7, <1>8 DEF IndInv

\* A thread that leaves -dealloc was not among the calls.
LEMMA CallsFree ==
  ASSUME IndInv, NEW t \in Threads, NEW p, pc' = [pc EXCEPT ![t] = p], p = "idle",
         t \in deallocators, deallocators' = deallocators \ {t}
  PROVE  /\ Cardinality(Releasing) \in Nat /\ Cardinality(Releasing)' = Cardinality(Releasing)
         /\ Cardinality(Retaining) \in Nat /\ Cardinality(Retaining)' = Cardinality(Retaining)
         /\ Using' # {} => Using # {}
<1>0. pc \in [Threads -> PCs] /\ pc'[t] = p /\ \A u \in Threads \ {t} : pc'[u] = pc[u]
  BY DEF IndInv, TypeOK
<1>1. Releasing' = Releasing /\ Retaining' = Retaining /\ Using' = Using
  BY <1>0 DEF Releasing, Retaining, Using, ReleasePCs, RetainPCs, ChangePCs
<1> QED
  BY <1>1, CallsFinite DEF IndInv

\* Freed memory has no call under way that would look at it.
LEMMA FreedQuiet ==
  ASSUME IndInv, freed
  PROVE  /\ \A u \in Threads : pc[u] \in {"idle", "l_clear", "w_unlock"}
         /\ Releasing = {} /\ Using = {} /\ Retaining = {} /\ InFlight = 0
         /\ Cardinality(Releasing) = 0 /\ Cardinality(Retaining) = 0
<1>1. ASSUME NEW u \in Threads
      PROVE  pc[u] \in {"idle", "l_clear", "w_unlock"}
  <2>1. pc[u] \in PCs /\ deallocators = {} /\ u \notin deallocators /\ pc[u] \notin DeallocPCs
    BY <1>1 DEF IndInv, TypeOK, PhaseInv, DeallocInv
  <2> QED
    BY <1>1, <2>1, Consequences DEF PCs, RetainPCs, TryPCs, ReleasePCs, ChangePCs
<1>2. Releasing = {} /\ Using = {} /\ Retaining = {} /\ InFlight = 0
  BY <1>1 DEF Releasing, Using, Retaining, InFlight, ReleasePCs, RetainPCs, ChangePCs, InFlightPCs
<1>3. Cardinality({}) = 0
  BY FS_EmptySet
<1> QED
  BY <1>1, <1>2, <1>3

\* Freeing the memory of an object that is forgotten preserves the invariant.
LEMMA FreeMemoryKeeps ==
  ASSUME IndInv, NEW t \in Threads, pc[t] \in {"d_body", "d_free"}, FreeMemory(t),
         side = NoSide, ~weakRef, selfRefs = 0,
         UNCHANGED <<isa, side, weakRef, lock, crashed, refs, selfRefs, oldisa, newisa, newCls, full, sideTableLocked>>
  PROVE  IndInv'
<1>0. TypeOK /\ LockInv /\ ClientInv /\ PhaseInv /\ DeallocInv /\ CountInv /\ WeakInv /\ LoopInv /\ ChangeInv
  BY DEF IndInv
<1>1. t \in deallocators /\ deallocators = {t} /\ refs = 0
  BY <1>0 DEF PhaseInv, DeallocInv, DeallocPCs, TypeOK
<1>q. PICK q \in {"idle"} :
        /\ pc' = [pc EXCEPT ![t] = q]
        /\ freed' = TRUE
        /\ deallocators' = deallocators \ {t}
        /\ deallocators' = {}
  BY <1>1 DEF FreeMemory, Goto
<1>3. TypeOK'
  BY <1>0, <1>1, <1>q, ZeroIsaType DEF TypeOK, ResetLocals, PCs, RetainPCs, TryPCs, ReleasePCs, DeallocPCs
<1>4. LockInv'
  BY <1>0, <1>1, <1>q DEF LockInv, TypeOK, LockedPCs, QuietPCs, ResetLocals
<1>m. ChangeInv' /\ (Moving' <=> Moving)
  BY <1>0, <1>1, <1>q, MoverAlone, ChangeKept DEF ChangeInv, ResetLocals, ChangePCs, TypeOK
<1>5. ClientInv'
  <2>1. /\ Cardinality(Releasing) \in Nat /\ Cardinality(Releasing)' = Cardinality(Releasing)
        /\ Cardinality(Retaining) \in Nat /\ Cardinality(Retaining)' = Cardinality(Retaining)
        /\ Using' # {} => Using # {}
    BY <1>1, <1>q, CallsFree DEF ReleasePCs, StartPCs, UsingPCs, RetainPCs, ChangePCs
  <2> QED
    BY <1>0, <1>1, <1>q, <2>1, WordTypes, RefCountAssumption DEF ClientInv
<1>6. PhaseInv' /\ DeallocInv'
  BY <1>0, <1>1, <1>q, <1>m DEF PhaseInv, DeallocInv, TypeOK, DeallocPCs, Leaked
<1>7. CountInv'
  <2>1. InFlight' = InFlight /\ InFlight \in Nat
    BY <1>1, <1>q, InFlightType, InFlightChange DEF InFlightPCs
  <2> QED
    BY <1>0, <1>1, <1>q, <2>1, WordTypes, RefCountAssumption, <1>m DEF CountInv, Leaked
<1>8. WeakInv' /\ LoopInv'
  BY <1>0, <1>1, <1>q, <1>m DEF WeakInv, LoopInv, TypeOK, InFlightPCs, LoopPCs, ChangePCs, ResetLocals
<1> QED
  BY <1>3, <1>4, <1>m, <1>5, <1>6, <1>7, <1>8 DEF IndInv

\* The root -dealloc frees at once an object that neither table knows.
LEMMA RootDeallocKeeps ==
  ASSUME IndInv, NEW t \in Threads, RootDealloc(t)
  PROVE  IndInv'
<1>0. TypeOK /\ LockInv /\ ClientInv /\ PhaseInv /\ DeallocInv /\ CountInv /\ WeakInv /\ LoopInv /\ ChangeInv
  BY DEF IndInv
<1>1. pc[t] = "d_body" /\ t \in deallocators /\ selfRefs = 0 /\ ~freed /\ refs = 0
  BY <1>0 DEF RootDealloc, At, DeallocInv, DeallocPCs, PhaseInv
<1>2. UNCHANGED <<isa, side, weakRef, lock, crashed, refs, selfRefs, oldisa, newisa, newCls, full, sideTableLocked>>
  BY DEF RootDealloc, locals
<1>3. CASE isa.nonpointer /\ ~isa.weakly_referenced /\ ~isa.has_sidetable_rc
  <2>1. FreeMemory(t)
    BY <1>3 DEF RootDealloc
  <2>2. side = NoSide /\ ~weakRef
    BY <1>0, <1>1, <1>3, WordTypes, MoverAlone DEF CountInv, WeakInv, NoSide, SideWord
  <2> QED
    BY <1>1, <1>2, <2>1, <2>2, FreeMemoryKeeps
<1>4. CASE ~(isa.nonpointer /\ ~isa.weakly_referenced /\ ~isa.has_sidetable_rc)
  <2>q. PICK q \in {"d_clear"} :
          /\ pc' = [pc EXCEPT ![t] = q]
          /\ UNCHANGED <<freed, deallocators>>
    BY <1>4 DEF RootDealloc, Goto
  <2>3. TypeOK'
    BY <1>0, <1>1, <1>2, <2>q, ZeroIsaType DEF TypeOK, ResetLocals, PCs, RetainPCs, TryPCs, ReleasePCs, DeallocPCs
  <2>4. LockInv'
    BY <1>0, <1>1, <1>2, <2>q DEF LockInv, TypeOK, LockedPCs, QuietPCs, ResetLocals
  <2>m. ChangeInv' /\ (Moving' <=> Moving)
    BY <1>0, <1>1, <1>2, <2>q, MoverAlone, ChangeKept DEF ChangeInv, ResetLocals, ChangePCs, TypeOK
  <2>5. ClientInv'
    <3>1. /\ Cardinality(Releasing) \in Nat /\ Cardinality(Releasing)' = Cardinality(Releasing)
          /\ Cardinality(Retaining) \in Nat /\ Cardinality(Retaining)' = Cardinality(Retaining)
          /\ Using' # {} => Using # {}
      BY <1>1, <2>q, CallsDealloc
    <3> QED
      BY <1>0, <1>1, <1>2, <2>q, <3>1, WordTypes, RefCountAssumption DEF ClientInv
  <2>6. PhaseInv' /\ DeallocInv'
    BY <1>0, <1>1, <1>2, <2>q, <2>m DEF PhaseInv, DeallocInv, TypeOK, DeallocPCs, Leaked
  <2>7. CountInv'
    <3>1. InFlight' = InFlight /\ InFlight \in Nat
      BY <1>1, <1>2, <2>q, InFlightType, InFlightChange DEF InFlightPCs
    <3> QED
      BY <1>0, <1>1, <1>2, <2>q, <3>1, WordTypes, RefCountAssumption, <2>m DEF CountInv, Leaked
  <2>8. WeakInv' /\ LoopInv'
    BY <1>0, <1>1, <1>2, <2>q, <2>m DEF WeakInv, LoopInv, TypeOK, InFlightPCs, LoopPCs, ChangePCs, ResetLocals
  <2> QED
    BY <2>3, <2>4, <2>m, <2>5, <2>6, <2>7, <2>8 DEF IndInv
<1> QED
  BY <1>3, <1>4

\* Clearing leaves neither a weak variable nor a word in the side table.
LEMMA ClearDeallocatingKeeps ==
  ASSUME IndInv, NEW t \in Threads, ClearDeallocating(t)
  PROVE  IndInv'
<1>0. TypeOK /\ LockInv /\ ClientInv /\ PhaseInv /\ DeallocInv /\ CountInv /\ WeakInv /\ LoopInv /\ ChangeInv
  BY DEF IndInv
<1>1. pc[t] = "d_clear" /\ t \in deallocators /\ selfRefs = 0 /\ ~freed /\ refs = 0 /\ lock = NoThread
  BY <1>0 DEF ClearDeallocating, At, DeallocInv, DeallocPCs, PhaseInv
<1>q. PICK q \in {"d_free"} :
        /\ pc' = [pc EXCEPT ![t] = q]
        /\ UNCHANGED <<isa, freed, lock, crashed, refs, selfRefs, deallocators, oldisa, newisa, newCls, full, sideTableLocked>>
  BY DEF ClearDeallocating, Goto, locals, ghost
<1>b2. isa.nonpointer => ~isa.has_sidetable_rc /\ side = NoSide
  BY <1>0, <1>1, LiveIsa, WordTypes DEF IsDeallocating, CountInv, NoSide, SideWord
<1>b3. side' = NoSide /\ weakRef' = FALSE
  BY <1>0, <1>1, <1>b2, MoverAlone DEF ClearDeallocating, WeakInv
<1>b4. /\ side' \in SideWord /\ side'.count = 0 /\ ~side'.deallocating /\ ~side'.weakly_referenced
       /\ Halves(side'.count)
  BY <1>b3, HalvesZero, SideLimits DEF NoSide, SideWord
<1>b5. isa.nonpointer => side.count = 0
  BY <1>b2 DEF NoSide
<1>d. pc'[t] = "d_free"
  BY <1>0, <1>q DEF TypeOK
<1>3. TypeOK'
  BY <1>0, <1>1, <1>q, <1>b3, <1>b4, <1>b5, ZeroIsaType DEF TypeOK, ResetLocals, PCs, RetainPCs, TryPCs, ReleasePCs, DeallocPCs
<1>4. LockInv'
  BY <1>0, <1>1, <1>q, <1>b3, <1>b4, <1>b5 DEF LockInv, TypeOK, LockedPCs, QuietPCs, ResetLocals
<1>m. ChangeInv' /\ (Moving' <=> Moving)
  BY <1>0, <1>1, <1>q, <1>b3, <1>b4, <1>b5, MoverAlone, ChangeKept DEF ChangeInv, ResetLocals, ChangePCs, TypeOK
<1>5. ClientInv'
  <2>1. /\ Cardinality(Releasing) \in Nat /\ Cardinality(Releasing)' = Cardinality(Releasing)
        /\ Cardinality(Retaining) \in Nat /\ Cardinality(Retaining)' = Cardinality(Retaining)
        /\ Using' # {} => Using # {}
    BY <1>1, <1>q, CallsDealloc
  <2> QED
    BY <1>0, <1>1, <1>q, <1>b3, <1>b4, <1>b5, <2>1, WordTypes, RefCountAssumption DEF ClientInv
<1>6. PhaseInv' /\ DeallocInv'
  BY <1>0, <1>1, <1>q, <1>b3, <1>b4, <1>b5, <1>m DEF PhaseInv, DeallocInv, TypeOK, DeallocPCs, Leaked
<1>7. CountInv'
  <2>1. InFlight' = InFlight /\ InFlight \in Nat
    BY <1>1, <1>q, InFlightType, InFlightChange DEF InFlightPCs
  <2> QED
    BY <1>0, <1>1, <1>q, <1>b4, <1>b5, <1>d, <2>1, WordTypes, RefCountAssumption, <1>m DEF CountInv, Leaked
<1>8. WeakInv' /\ LoopInv'
  BY <1>0, <1>1, <1>q, <1>b3, <1>b4, <1>b5, RefCountAssumption, <1>m DEF WeakInv, LoopInv, TypeOK, InFlightPCs, LoopPCs, ChangePCs, ResetLocals, LockInv, LockedPCs
<1> QED
  BY <1>3, <1>4, <1>m, <1>5, <1>6, <1>7, <1>8 DEF IndInv

\* The slow path of -dealloc frees the object after clearing.
LEMMA DisposeKeeps ==
  ASSUME IndInv, NEW t \in Threads, Dispose(t)
  PROVE  IndInv'
<1>0. TypeOK /\ LockInv /\ ClientInv /\ PhaseInv /\ DeallocInv /\ CountInv /\ WeakInv /\ LoopInv /\ ChangeInv
  BY DEF IndInv
<1>1. pc[t] = "d_free" /\ side = NoSide /\ ~weakRef /\ selfRefs = 0
  BY <1>0 DEF Dispose, At, DeallocInv, DeallocPCs
<1>2. /\ UNCHANGED <<isa, side, weakRef, lock, crashed, refs, selfRefs, oldisa, newisa, newCls, full, sideTableLocked>>
      /\ FreeMemory(t)
  BY DEF Dispose, locals
<1> QED
  BY <1>1, <1>2, FreeMemoryKeeps

\* Starting to store into a weak variable.
LEMMA StoreWeakKeeps ==
  ASSUME IndInv, NEW t \in Threads, StoreWeak(t)
  PROVE  IndInv'
<1>0. TypeOK /\ LockInv /\ ClientInv /\ PhaseInv /\ DeallocInv /\ CountInv /\ WeakInv /\ LoopInv /\ ChangeInv
  BY DEF IndInv
<1>s. Spare \in Int
  BY <1>0, CallsFinite, WordTypes DEF Spare
<1>1. pc[t] = "idle" /\ Spare >= 1 /\ lock = NoThread /\ t \notin deallocators
  BY Consequences DEF StoreWeak, MayUse, Idle
<1>2. PICK q \in {"s_loop"} :
        /\ pc' = [pc EXCEPT ![t] = q]
        /\ oldisa' = [oldisa EXCEPT ![t] = isa]
        /\ UNCHANGED <<isa, side, weakRef, freed, crashed>>
        /\ UNCHANGED <<refs, selfRefs, deallocators>>
        /\ lock' = t
        /\ UNCHANGED <<newisa, newCls, full, sideTableLocked>>
  BY DEF StoreWeak, heap, ghost, LoadIsa, Goto
<1>3. TypeOK'
  BY <1>0, <1>1, <1>2, ZeroIsaType DEF TypeOK, ResetLocals, PCs, RetainPCs, TryPCs, ReleasePCs, DeallocPCs
<1>4. LockInv'
  BY <1>0, <1>1, <1>2, RefCountAssumption DEF LockInv, TypeOK, LockedPCs, QuietPCs, ResetLocals
<1>m. ChangeInv' /\ (Moving' <=> Moving)
  BY <1>0, <1>1, <1>2, RefCountAssumption, MoverAlone, ChangeKept DEF ChangeInv, ResetLocals, ChangePCs, TypeOK
<1>5. ClientInv'
  <2>1. /\ Cardinality(Releasing) \in Nat /\ Cardinality(Releasing)' = Cardinality(Releasing)
        /\ Cardinality(Retaining) \in Nat /\ Cardinality(Retaining)' = Cardinality(Retaining)
    BY <1>1, <1>2, CallsStep DEF ReleasePCs, StartPCs
  <2> QED
    BY <1>0, <1>1, <1>2, <2>1, WordTypes, RefCountAssumption DEF ClientInv, Spare
<1>6. PhaseInv' /\ DeallocInv'
  BY <1>0, <1>1, <1>2, <1>m DEF PhaseInv, DeallocInv, TypeOK, DeallocPCs, Leaked
<1>7. CountInv'
  <2>1. InFlight' = InFlight /\ InFlight \in Nat
    BY <1>1, <1>2, InFlightType, InFlightChange DEF InFlightPCs
  <2> QED
    BY <1>0, <1>1, <1>2, <2>1, WordTypes, RefCountAssumption, <1>m DEF CountInv, Leaked
<1>8. WeakInv' /\ LoopInv'
  BY <1>0, <1>1, <1>2, <1>m DEF WeakInv, LoopInv, TypeOK, InFlightPCs, LoopPCs, ChangePCs, ResetLocals
<1> QED
  BY <1>3, <1>4, <1>m, <1>5, <1>6, <1>7, <1>8 DEF IndInv

\* The weakly-referenced bit is set in isa or in the side table, whichever holds the count.
LEMMA SetWeaklyReferencedKeeps ==
  ASSUME IndInv, NEW t \in Threads, SetWeaklyReferenced(t)
  PROVE  IndInv'
<1>0. TypeOK /\ LockInv /\ ClientInv /\ PhaseInv /\ DeallocInv /\ CountInv /\ WeakInv /\ LoopInv /\ ChangeInv
  BY DEF IndInv
<1>1. /\ pc[t] = "s_loop" /\ lock = t /\ t \notin deallocators /\ ~freed /\ refs > 0 /\ deallocators = {}
      /\ oldisa[t].nonpointer <=> isa.nonpointer
      /\ \A u \in Threads : pc[u] \in LockedPCs => u = t
  BY <1>0, Consequences DEF SetWeaklyReferenced, At, LoopInv, LoopPCs, LockInv, LockedPCs, DeallocInv, DeallocPCs
<1>q. PICK q \in {"idle"} :
        /\ pc' = [pc EXCEPT ![t] = q]
        /\ ResetLocals(t)
        /\ UNCHANGED <<refs, selfRefs, deallocators>>
        /\ lock' = NoThread /\ weakRef' = TRUE
        /\ UNCHANGED <<freed, crashed>>
  BY <1>1 DEF SetWeaklyReferenced, Goto, Return, ghost
<1>2. CASE isa.nonpointer
  <2>1. /\ side' = side
        /\ isa' = isa \/ isa' = [isa EXCEPT !.weakly_referenced = TRUE]
    BY <1>1, <1>2 DEF SetWeaklyReferenced
  <2>w. oldisa[t].weakly_referenced => isa.weakly_referenced
    BY <1>0, <1>1, <1>2 DEF LoopInv
  <2>2. /\ isa' \in IsaWord /\ isa'.extra_rc = isa.extra_rc /\ isa'.nonpointer = isa.nonpointer
        /\ isa'.has_sidetable_rc = isa.has_sidetable_rc
        /\ isa'.weakly_referenced
    BY <1>0, <1>1, <1>2, <2>1, <2>w, WordTypes DEF SetWeaklyReferenced, IsaWord
  <2>3. TypeOK'
    BY <1>0, <1>1, <1>q, <1>2, <2>1, <2>2, ZeroIsaType DEF TypeOK, ResetLocals, PCs, RetainPCs, TryPCs, ReleasePCs, DeallocPCs
  <2>4. LockInv'
    BY <1>0, <1>1, <1>q, <1>2, <2>1, <2>2 DEF LockInv, TypeOK, LockedPCs, QuietPCs, ResetLocals
  <2>m. ChangeInv' /\ (Moving' <=> Moving)
    BY <1>0, <1>1, <1>q, <1>2, <2>1, <2>2, MoverAlone, ChangeKept DEF ChangeInv, ResetLocals, ChangePCs, TypeOK
  <2>5. ClientInv'
    <3>1. /\ Cardinality(Releasing) \in Nat /\ Cardinality(Releasing)' = Cardinality(Releasing)
          /\ Cardinality(Retaining) \in Nat /\ Cardinality(Retaining)' = Cardinality(Retaining)
          /\ Using' # {} => Using # {}
      BY <1>1, <1>q, CallsStep DEF ReleasePCs, StartPCs, UsingPCs, RetainPCs, ChangePCs
    <3> QED
      BY <1>0, <1>1, <1>q, <1>2, <2>1, <2>2, <3>1, WordTypes, RefCountAssumption DEF ClientInv
  <2>6. PhaseInv' /\ DeallocInv'
    BY <1>0, <1>1, <1>q, <1>2, <2>1, <2>2, <2>m DEF PhaseInv, DeallocInv, TypeOK, DeallocPCs, Leaked
  <2>7. CountInv'
    <3>1. InFlight' = InFlight /\ InFlight \in Nat
      BY <1>1, <1>q, <1>2, <2>1, <2>2, InFlightType, InFlightChange DEF InFlightPCs
    <3> QED
      BY <1>0, <1>1, <1>q, <1>2, <2>1, <2>2, <3>1, WordTypes, RefCountAssumption, <2>m DEF CountInv, Leaked
  <2>8. WeakInv' /\ LoopInv'
    BY <1>0, <1>1, <1>q, <1>2, <2>1, <2>2, <2>m DEF WeakInv, LoopInv, TypeOK, InFlightPCs, LoopPCs, ChangePCs, ResetLocals, LockInv, LockedPCs
  <2> QED
    BY <2>3, <2>4, <2>m, <2>5, <2>6, <2>7, <2>8 DEF IndInv
<1>3. CASE ~isa.nonpointer
  <2>1. /\ side' = [side EXCEPT !.weakly_referenced = TRUE]
        /\ isa' = isa
    BY <1>1, <1>3 DEF SetWeaklyReferenced
  <2>2. /\ side' \in SideWord /\ side'.count = side.count /\ side'.deallocating = side.deallocating
        /\ side'.weakly_referenced
    BY <1>0, <2>1, WordTypes DEF SideWord
  <2>3. TypeOK'
    BY <1>0, <1>1, <1>q, <1>3, <2>1, <2>2, ZeroIsaType DEF TypeOK, ResetLocals, PCs, RetainPCs, TryPCs, ReleasePCs, DeallocPCs
  <2>4. LockInv'
    BY <1>0, <1>1, <1>q, <1>3, <2>1, <2>2 DEF LockInv, TypeOK, LockedPCs, QuietPCs, ResetLocals
  <2>m. ChangeInv' /\ (Moving' <=> Moving)
    BY <1>0, <1>1, <1>q, <1>3, <2>1, <2>2, MoverAlone, ChangeKept DEF ChangeInv, ResetLocals, ChangePCs, TypeOK
  <2>5. ClientInv'
    <3>1. /\ Cardinality(Releasing) \in Nat /\ Cardinality(Releasing)' = Cardinality(Releasing)
          /\ Cardinality(Retaining) \in Nat /\ Cardinality(Retaining)' = Cardinality(Retaining)
          /\ Using' # {} => Using # {}
      BY <1>1, <1>q, CallsStep DEF ReleasePCs, StartPCs, UsingPCs, RetainPCs, ChangePCs
    <3> QED
      BY <1>0, <1>1, <1>q, <1>3, <2>1, <2>2, <3>1, WordTypes, RefCountAssumption DEF ClientInv
  <2>6. PhaseInv' /\ DeallocInv'
    BY <1>0, <1>1, <1>q, <1>3, <2>1, <2>2, <2>m DEF PhaseInv, DeallocInv, TypeOK, DeallocPCs, Leaked
  <2>7. CountInv'
    <3>1. InFlight' = InFlight /\ InFlight \in Nat
      BY <1>1, <1>q, <1>3, <2>1, <2>2, InFlightType, InFlightChange DEF InFlightPCs
    <3> QED
      BY <1>0, <1>1, <1>q, <1>3, <2>1, <2>2, <3>1, WordTypes, RefCountAssumption, <2>m DEF CountInv, Leaked
  <2>8. WeakInv' /\ LoopInv'
    BY <1>0, <1>1, <1>q, <1>3, <2>1, <2>2, <2>m DEF WeakInv, LoopInv, TypeOK, InFlightPCs, LoopPCs, ChangePCs, ResetLocals, LockInv, LockedPCs
  <2> QED
    BY <2>3, <2>4, <2>m, <2>5, <2>6, <2>7, <2>8 DEF IndInv
<1> QED
  BY <1>2, <1>3

\* A failed store of the bit leaves a fresh isa in hand.
LEMMA SetWeaklyRetryKeeps ==
  ASSUME IndInv, NEW t \in Threads, SetWeaklyRetry(t)
  PROVE  IndInv'
<1>0. TypeOK /\ LockInv /\ ClientInv /\ PhaseInv /\ DeallocInv /\ CountInv /\ WeakInv /\ LoopInv /\ ChangeInv
  BY DEF IndInv
<1>1. pc[t] = "s_loop"
  BY <1>0 DEF SetWeaklyRetry, At
<1>q. /\ oldisa' = [oldisa EXCEPT ![t] = isa]
      /\ UNCHANGED <<isa, side, weakRef, freed, crashed>>
      /\ UNCHANGED <<refs, selfRefs, deallocators>>
      /\ UNCHANGED <<lock, newisa, newCls, full, sideTableLocked, pc>>
      /\ pc' = [pc EXCEPT ![t] = pc[t]]
  BY <1>0 DEF SetWeaklyRetry, heap, ghost, LoadIsa, TypeOK
<1>3. TypeOK'
  BY <1>0, <1>1, <1>q, ZeroIsaType DEF TypeOK, ResetLocals, PCs, RetainPCs, TryPCs, ReleasePCs, DeallocPCs
<1>4. LockInv'
  BY <1>0, <1>1, <1>q DEF LockInv, TypeOK, LockedPCs, QuietPCs, ResetLocals
<1>m. ChangeInv' /\ (Moving' <=> Moving)
  BY <1>0, <1>1, <1>q, MoverAlone, ChangeKept DEF ChangeInv, ResetLocals, ChangePCs, TypeOK
<1>5. ClientInv'
  <2>1. /\ Cardinality(Releasing) \in Nat /\ Cardinality(Releasing)' = Cardinality(Releasing)
        /\ Cardinality(Retaining) \in Nat /\ Cardinality(Retaining)' = Cardinality(Retaining)
        /\ Using' # {} => Using # {}
    BY <1>q, CallsSame
  <2> QED
    BY <1>0, <1>1, <1>q, <2>1, WordTypes, RefCountAssumption DEF ClientInv
<1>6. PhaseInv' /\ DeallocInv'
  BY <1>0, <1>1, <1>q, <1>m DEF PhaseInv, DeallocInv, TypeOK, DeallocPCs, Leaked
<1>7. CountInv'
  <2>1. InFlight' = InFlight /\ InFlight \in Nat
    BY <1>1, <1>q, InFlightType, InFlightChange DEF InFlightPCs
  <2> QED
    BY <1>0, <1>1, <1>q, <2>1, WordTypes, RefCountAssumption, <1>m DEF CountInv, Leaked
<1>8. WeakInv' /\ LoopInv'
  BY <1>0, <1>1, <1>q, <1>m DEF WeakInv, LoopInv, TypeOK, InFlightPCs, LoopPCs, ChangePCs, ResetLocals
<1> QED
  BY <1>3, <1>4, <1>m, <1>5, <1>6, <1>7, <1>8 DEF IndInv

\* Unregistering the weak variable.
LEMMA DestroyWeakKeeps ==
  ASSUME IndInv, NEW t \in Threads, DestroyWeak(t)
  PROVE  IndInv'
<1>0. TypeOK /\ LockInv /\ ClientInv /\ PhaseInv /\ DeallocInv /\ CountInv /\ WeakInv /\ LoopInv /\ ChangeInv
  BY DEF IndInv
<1>1. lock = NoThread /\ pc[t] = "idle"
  BY DEF DestroyWeak, Idle
<1>q. /\ weakRef' = FALSE
      /\ UNCHANGED <<isa, side, freed, lock, crashed, refs, selfRefs, deallocators, oldisa, newisa, newCls, full, sideTableLocked, pc>>
      /\ pc' = [pc EXCEPT ![t] = pc[t]]
  BY <1>0 DEF DestroyWeak, ghost, locals, TypeOK
<1>3. TypeOK'
  BY <1>0, <1>1, <1>q, ZeroIsaType DEF TypeOK, ResetLocals, PCs, RetainPCs, TryPCs, ReleasePCs, DeallocPCs
<1>4. LockInv'
  BY <1>0, <1>1, <1>q DEF LockInv, TypeOK, LockedPCs, QuietPCs, ResetLocals
<1>m. ChangeInv' /\ (Moving' <=> Moving)
  BY <1>0, <1>1, <1>q, MoverAlone, ChangeKept DEF ChangeInv, ResetLocals, ChangePCs, TypeOK
<1>5. ClientInv'
  <2>1. /\ Cardinality(Releasing) \in Nat /\ Cardinality(Releasing)' = Cardinality(Releasing)
        /\ Cardinality(Retaining) \in Nat /\ Cardinality(Retaining)' = Cardinality(Retaining)
        /\ Using' # {} => Using # {}
    BY <1>q, CallsSame
  <2> QED
    BY <1>0, <1>1, <1>q, <2>1, WordTypes, RefCountAssumption DEF ClientInv
<1>6. PhaseInv' /\ DeallocInv'
  BY <1>0, <1>1, <1>q, <1>m DEF PhaseInv, DeallocInv, TypeOK, DeallocPCs, Leaked
<1>7. CountInv'
  <2>1. InFlight' = InFlight /\ InFlight \in Nat
    BY <1>1, <1>q, InFlightType, InFlightChange DEF InFlightPCs
  <2> QED
    BY <1>0, <1>1, <1>q, <2>1, WordTypes, RefCountAssumption, <1>m DEF CountInv, Leaked
<1>8. WeakInv' /\ LoopInv'
  BY <1>0, <1>1, <1>q, RefCountAssumption, <1>m DEF WeakInv, LoopInv, TypeOK, InFlightPCs, LoopPCs, ChangePCs, ResetLocals, LockInv, LockedPCs
<1> QED
  BY <1>3, <1>4, <1>m, <1>5, <1>6, <1>7, <1>8 DEF IndInv

\* The isa of a new instance: the count is inline, or there is none to keep.
LEMMA InitIsaType ==
  ASSUME NEW c \in Classes
  PROVE  /\ InitIsa(c) \in IsaWord /\ ~InitIsa(c).has_sidetable_rc
         /\ InitIsa(c).nonpointer => InitIsa(c).extra_rc = 1
<1>1. RC_MAX \in Nat /\ RC_MAX >= 1 /\ RawClasses \subseteq Classes
  BY RefCountAssumption DEF RC_MAX
<1>2. CASE c \in RawClasses
  <2>1. InitIsa(c) = [cls |-> c, nonpointer |-> FALSE, extra_rc |-> 0, has_sidetable_rc |-> FALSE, weakly_referenced |-> FALSE]
    BY <1>2 DEF InitIsa, ZeroIsa
  <2>2. InitIsa(c) \in IsaWord
    BY <1>1, <2>1 DEF IsaWord
  <2> QED
    BY <2>1, <2>2
<1>3. CASE c \notin RawClasses
  <2>1. InitIsa(c) = [cls |-> c, nonpointer |-> TRUE, extra_rc |-> 1, has_sidetable_rc |-> FALSE, weakly_referenced |-> FALSE]
    BY <1>3 DEF InitIsa, ZeroIsa
  <2>2. InitIsa(c) \in IsaWord
    BY <1>1, <2>1 DEF IsaWord
  <2> QED
    BY <2>1, <2>2
<1> QED
  BY <1>2, <1>3

\* A new object starts with one reference and nothing left over from the memory's last user.
LEMMA AllocKeeps ==
  ASSUME IndInv, NEW t \in Threads, NEW c \in Classes, Alloc(t, c)
  PROVE  IndInv'
<1>0. TypeOK /\ LockInv /\ ClientInv /\ PhaseInv /\ DeallocInv /\ CountInv /\ WeakInv /\ LoopInv /\ ChangeInv
  BY DEF IndInv
<1>1. /\ pc[t] = "idle" /\ freed
      /\ deallocators = {} /\ side = NoSide /\ ~weakRef /\ selfRefs = 0
  BY <1>0 DEF Alloc, Idle, PhaseInv
<1>q. /\ freed' = FALSE /\ refs' = 1 /\ isa' = InitIsa(c)
      /\ UNCHANGED <<side, weakRef, lock, crashed, selfRefs, deallocators, oldisa, newisa, newCls, full, sideTableLocked, pc>>
      /\ pc' = [pc EXCEPT ![t] = pc[t]]
  BY <1>0 DEF Alloc, locals, TypeOK
<1>b2. /\ \A u \in Threads : pc[u] \in {"idle", "l_clear", "w_unlock"}
       /\ Cardinality(Releasing) = 0 /\ Cardinality(Retaining) = 0 /\ Using = {} /\ InFlight = 0
  BY <1>1, FreedQuiet
<1>b3. /\ isa' \in IsaWord /\ ~isa'.has_sidetable_rc
       /\ isa'.nonpointer => isa'.extra_rc = 1
  BY <1>q, InitIsaType
<1>b4. side.count = 0 /\ ~side.deallocating /\ ~side.weakly_referenced /\ Halves(side.count)
  BY <1>1, HalvesZero DEF NoSide
<1>3. TypeOK'
  BY <1>0, <1>1, <1>q, <1>b2, <1>b3, <1>b4, ZeroIsaType DEF TypeOK, ResetLocals, PCs, RetainPCs, TryPCs, ReleasePCs, DeallocPCs
<1>4. LockInv'
  BY <1>0, <1>1, <1>q, <1>b2, <1>b3, <1>b4 DEF LockInv, TypeOK, LockedPCs, QuietPCs, ResetLocals
<1>m. ChangeInv' /\ (Moving' <=> Moving)
  BY <1>0, <1>q, <1>b2 DEF ChangeInv, Moving, ChangePCs
<1>5. ClientInv'
  <2>1. /\ Cardinality(Releasing) \in Nat /\ Cardinality(Releasing)' = Cardinality(Releasing)
        /\ Cardinality(Retaining) \in Nat /\ Cardinality(Retaining)' = Cardinality(Retaining)
        /\ Using' # {} => Using # {}
    BY <1>q, CallsSame
  <2> QED
    BY <1>0, <1>1, <1>q, <1>b2, <1>b3, <1>b4, <2>1, WordTypes, RefCountAssumption DEF ClientInv
<1>6. PhaseInv' /\ DeallocInv'
  BY <1>0, <1>1, <1>q, <1>b2, <1>b3, <1>b4, RefCountAssumption, <1>m DEF PhaseInv, DeallocInv, TypeOK, DeallocPCs, Leaked
<1>7. CountInv'
  <2>1. InFlight' = 0
    BY <1>1, <1>q, <1>b2, <1>b3, <1>b4, InFlightType, InFlightChange DEF InFlightPCs
  <2> QED
    BY <1>0, <1>1, <1>q, <1>b2, <1>b3, <1>b4, <2>1, WordTypes, RefCountAssumption, <1>m DEF CountInv, Leaked
<1>8. WeakInv' /\ LoopInv'
  BY <1>0, <1>1, <1>q, <1>b2, <1>b3, <1>b4, <1>m DEF WeakInv, LoopInv, TypeOK, InFlightPCs, LoopPCs, ChangePCs, ResetLocals
<1> QED
  BY <1>3, <1>4, <1>m, <1>5, <1>6, <1>7, <1>8 DEF IndInv

----------------------------------------------------------------------------
(* The steps of changeIsa, where at most one thread makes them.            *)

\* object_setClass is not called on one object by two threads.
OneChanger == \A t, u \in Changers : t = u

\* No second class change is under way.
LEMMA SoleChanger ==
  ASSUME OneChanger, IndInv, NEW t \in Threads, pc[t] \in ChangePCs
  PROVE  /\ \A u \in Threads : u # t => pc[u] \notin ChangePCs
         /\ t \notin deallocators /\ deallocators = {} /\ ~freed /\ refs > 0
         /\ pc[t] = "c_loop" => ~Moving
<1>1. \A u \in Threads : u # t => pc[u] \notin ChangePCs
  BY DEF OneChanger, IndInv, ChangeInv
<1>2. t \notin deallocators
  BY DEF IndInv, DeallocInv, DeallocPCs, ChangePCs
<1>3. deallocators = {} /\ ~freed /\ refs > 0
  BY <1>2, Consequences DEF ChangePCs
<1> QED
  BY <1>1, <1>2, <1>3 DEF Moving, ChangePCs

\* Where the change starts from newisa, newisa has nothing but a class.
LEMMA ChangedIsaWord ==
  ASSUME IndInv, NEW t \in Threads, pc[t] = "c_loop"
  PROVE  /\ ChangedIsa(t) \in IsaWord
         /\ oldisa[t].nonpointer <=> isa.nonpointer
         /\ isa.nonpointer /\ newCls[t] \notin RawClasses =>
              /\ ChangedIsa(t).nonpointer /\ ChangedIsa(t).extra_rc = oldisa[t].extra_rc
              /\ ChangedIsa(t).has_sidetable_rc = oldisa[t].has_sidetable_rc
              /\ ChangedIsa(t).weakly_referenced = oldisa[t].weakly_referenced
         /\ ~isa.nonpointer \/ newCls[t] \in RawClasses => ClassOnly(ChangedIsa(t))
<1>1. /\ oldisa[t] \in IsaWord /\ newisa[t] \in IsaWord /\ newCls[t] \in Classes \cup {NoClass}
      /\ oldisa[t].nonpointer = isa.nonpointer
      /\ newCls[t] \in RawClasses \/ ~isa.nonpointer => ClassOnly(newisa[t])
  BY DEF IndInv, TypeOK, ChangeInv
<1>2. CASE isa.nonpointer /\ newCls[t] \notin RawClasses
  <2>1. ChangedIsa(t) = [oldisa[t] EXCEPT !.cls = newCls[t]]
    BY <1>1, <1>2 DEF ChangedIsa
  <2> QED
    BY <1>1, <1>2, <2>1 DEF IsaWord
<1>3. CASE ~isa.nonpointer \/ newCls[t] \in RawClasses
  <2>1. ChangedIsa(t) = [newisa[t] EXCEPT !.cls = newCls[t]] /\ ClassOnly(newisa[t])
    BY <1>1, <1>3 DEF ChangedIsa
  <2> QED
    BY <1>1, <1>3, <2>1 DEF IsaWord, ClassOnly
<1> QED
  BY <1>2, <1>3

\* object_setClass is called by someone who holds a reference.
LEMMA ChangeIsaKeeps ==
  ASSUME OneChanger, IndInv, NEW t \in Threads, NEW c \in Classes, ChangeIsa(t, c)
  PROVE  IndInv'
<1>0. TypeOK /\ LockInv /\ ClientInv /\ PhaseInv /\ DeallocInv /\ CountInv /\ WeakInv /\ LoopInv /\ ChangeInv
  BY DEF IndInv
<1>1. pc[t] = "idle" /\ t \in Changers /\ Spare >= 1 /\ t \notin deallocators
  BY Consequences DEF ChangeIsa, MayUse, Idle
<1>q. PICK q \in {"c_loop"} :
        /\ pc' = [pc EXCEPT ![t] = q]
        /\ oldisa' = [oldisa EXCEPT ![t] = isa]
        /\ newCls' = [newCls EXCEPT ![t] = c]
        /\ UNCHANGED <<isa, side, weakRef, freed, crashed, lock, refs, selfRefs, deallocators, newisa, full, sideTableLocked>>
  BY DEF ChangeIsa, LoadIsa, Goto, heap, ghost
<1>3. TypeOK'
  BY <1>0, <1>1, <1>q DEF TypeOK, PCs, ChangePCs
<1>4. LockInv'
  BY <1>0, <1>1, <1>q DEF LockInv, TypeOK, LockedPCs, QuietPCs
<1>m. ChangeInv' /\ (Moving' <=> Moving)
  <2>1. newisa[t] = ZeroIsa /\ ClassOnly(ZeroIsa)
    BY <1>0, <1>1 DEF ChangeInv, ChangePCs, ClassOnly, ZeroIsa
  <2>2. ChangeInv'
    BY <1>0, <1>1, <1>q, <2>1 DEF ChangeInv, ChangePCs, TypeOK
  <2> QED
    BY <1>0, <1>1, <1>q, <2>2 DEF Moving, TypeOK
<1>5. ClientInv'
  <2>1. /\ Cardinality(Releasing) \in Nat /\ Cardinality(Releasing)' = Cardinality(Releasing)
        /\ Cardinality(Retaining) \in Nat /\ Cardinality(Retaining)' = Cardinality(Retaining)
    BY <1>1, <1>q, CallsStep DEF ReleasePCs, StartPCs
  <2> QED
    BY <1>0, <1>1, <1>q, <2>1, WordTypes, RefCountAssumption DEF ClientInv, Spare
<1>6. PhaseInv' /\ DeallocInv'
  BY <1>0, <1>1, <1>q DEF PhaseInv, DeallocInv, TypeOK, DeallocPCs, Leaked
<1>7. CountInv'
  <2>1. InFlight' = InFlight /\ InFlight \in Nat
    BY <1>1, <1>q, InFlightType, InFlightChange DEF InFlightPCs
  <2>2. (\A u \in Threads : pc'[u] # "d_free") => \A u \in Threads : pc[u] # "d_free"
    BY <1>0, <1>1, <1>q DEF TypeOK
  <2> QED
    BY <1>0, <1>q, <1>m, <2>1, <2>2 DEF CountInv, Leaked
<1>8. WeakInv' /\ LoopInv'
  BY <1>0, <1>1, <1>q, <1>m DEF WeakInv, LoopInv, TypeOK, InFlightPCs, LoopPCs
<1> QED
  BY <1>3, <1>4, <1>m, <1>5, <1>6, <1>7, <1>8 DEF IndInv

\* A change to a raw class takes the side table's lock before it stores isa.
LEMMA ChangeLockKeeps ==
  ASSUME OneChanger, IndInv, NEW t \in Threads, ChangeLock(t)
  PROVE  IndInv'
<1>0. TypeOK /\ LockInv /\ ClientInv /\ PhaseInv /\ DeallocInv /\ CountInv /\ WeakInv /\ LoopInv /\ ChangeInv
  BY DEF IndInv
<1>1. pc[t] = "c_loop" /\ lock = NoThread
  BY DEF ChangeLock, At
<1>q. /\ UNCHANGED <<isa, side, weakRef, freed, crashed, refs, selfRefs, deallocators>>
      /\ lock' = t
      /\ sideTableLocked' = [sideTableLocked EXCEPT ![t] = TRUE]
      /\ UNCHANGED <<pc, oldisa, newisa, newCls, full>>
  BY DEF ChangeLock, heap, ghost
<1>3. TypeOK'
  BY <1>0, <1>q DEF TypeOK
<1>4. LockInv'
  BY <1>0, <1>1, <1>q, RefCountAssumption DEF LockInv, TypeOK, LockedPCs, QuietPCs
<1>m. ChangeInv' /\ (Moving' <=> Moving)
  BY <1>0, <1>q DEF ChangeInv, Moving
<1>5. ClientInv'
  BY <1>0, <1>q DEF ClientInv, Releasing, Using, Retaining
<1>6. PhaseInv' /\ DeallocInv'
  BY <1>0, <1>q DEF PhaseInv, DeallocInv, Leaked
<1>7. CountInv'
  BY <1>0, <1>q, <1>m DEF CountInv, Leaked, InFlight
<1>8. WeakInv' /\ LoopInv'
  BY <1>0, <1>1, <1>q, <1>m DEF WeakInv, LoopInv, TypeOK
<1> QED
  BY <1>3, <1>4, <1>m, <1>5, <1>6, <1>7, <1>8 DEF IndInv

\* A change whose store-exclusive failed reads isa again; newisa keeps its bits.
LEMMA ChangeRetryKeeps ==
  ASSUME OneChanger, IndInv, NEW t \in Threads, ChangeRetry(t)
  PROVE  IndInv'
<1>0. TypeOK /\ LockInv /\ ClientInv /\ PhaseInv /\ DeallocInv /\ CountInv /\ WeakInv /\ LoopInv /\ ChangeInv
  BY DEF IndInv
<1>1. pc[t] = "c_loop"
  BY DEF ChangeRetry, ChangeReady, At
<1>q. /\ UNCHANGED <<isa, side, weakRef, freed, crashed, lock, refs, selfRefs, deallocators>>
      /\ oldisa' = [oldisa EXCEPT ![t] = isa]
      /\ newisa' = [newisa EXCEPT ![t] = ChangedIsa(t)]
      /\ UNCHANGED <<pc, newCls, full, sideTableLocked>>
  BY DEF ChangeRetry, LoadIsa, heap, ghost
<1>c. /\ ChangedIsa(t) \in IsaWord
      /\ ~isa.nonpointer \/ newCls[t] \in RawClasses => ClassOnly(ChangedIsa(t))
  BY <1>1, ChangedIsaWord
<1>3. TypeOK'
  BY <1>0, <1>q, <1>c DEF TypeOK
<1>4. LockInv'
  BY <1>0, <1>q DEF LockInv
<1>m. ChangeInv' /\ (Moving' <=> Moving)
  BY <1>0, <1>1, <1>q, <1>c DEF ChangeInv, Moving, TypeOK, ChangePCs
<1>5. ClientInv'
  BY <1>0, <1>q DEF ClientInv, Releasing, Using, Retaining
<1>6. PhaseInv' /\ DeallocInv'
  BY <1>0, <1>q DEF PhaseInv, DeallocInv, Leaked
<1>7. CountInv'
  BY <1>0, <1>q, <1>m DEF CountInv, Leaked, InFlight
<1>8. WeakInv' /\ LoopInv'
  BY <1>0, <1>1, <1>q, <1>m DEF WeakInv, LoopInv, TypeOK, LoopPCs, InFlightPCs
<1> QED
  BY <1>3, <1>4, <1>m, <1>5, <1>6, <1>7, <1>8 DEF IndInv

\* The store of a change that stays nonpointer, or raw, only replaces the class;
\* one that makes isa raw leaves the count to be moved, with the lock in hand.
LEMMA ChangeStoreKeeps ==
  ASSUME OneChanger, IndInv, NEW t \in Threads, ChangeStore(t)
  PROVE  IndInv'
<1>0. TypeOK /\ LockInv /\ ClientInv /\ PhaseInv /\ DeallocInv /\ CountInv /\ WeakInv /\ LoopInv /\ ChangeInv
  BY DEF IndInv
<1>1. /\ pc[t] = "c_loop" /\ isa = oldisa[t] /\ isa' = ChangedIsa(t)
      /\ UNCHANGED <<side, weakRef, freed, crashed, refs, selfRefs, deallocators>>
      /\ ToRaw(t) => lock = t
      /\ sideTableLocked[t] => lock = t
  BY <1>0 DEF ChangeStore, ChangeReady, StoreSucceeds, At, ghost, LockInv
<1>2. /\ \A u \in Threads : u # t => pc[u] \notin ChangePCs
      /\ t \notin deallocators /\ deallocators = {} /\ ~freed /\ refs > 0 /\ ~Moving
  BY <1>1, SoleChanger DEF ChangePCs
<1>c. /\ isa' \in IsaWord
      /\ isa.nonpointer /\ newCls[t] \notin RawClasses =>
           /\ isa'.nonpointer /\ isa'.extra_rc = isa.extra_rc
           /\ isa'.has_sidetable_rc = isa.has_sidetable_rc /\ isa'.weakly_referenced = isa.weakly_referenced
      /\ ~isa.nonpointer \/ newCls[t] \in RawClasses => ClassOnly(isa')
  BY <1>1, ChangedIsaWord
<1>d. \A u \in Threads : pc[u] # "d_free" /\ pc[u] \notin DeallocPCs
  BY <1>0, <1>2 DEF DeallocInv, DeallocPCs
<1>a. CASE ToRaw(t)
  <2>1. isa.nonpointer /\ newCls[t] \in RawClasses /\ lock = t
    BY <1>1, <1>a DEF ToRaw
  <2>q. PICK q \in {"c_move"} :
          /\ pc' = [pc EXCEPT ![t] = q]
          /\ UNCHANGED <<lock, oldisa, newisa, newCls, full, sideTableLocked>>
    BY <1>a DEF ChangeStore, Goto, locals
  <2>2. InFlight = 0
    BY <1>1, <2>1, <2>q, InFlightChange DEF InFlightPCs
  <2>p. /\ pc'[t] = "c_move" /\ \A u \in Threads : u # t => pc'[u] = pc[u]
        /\ Moving'
    BY <1>0, <2>q DEF TypeOK, Moving
  <2>n. ~isa'.nonpointer
    BY <1>c, <2>1 DEF ClassOnly
  <2>3. TypeOK'
    BY <1>0, <1>1, <1>c, <2>q DEF TypeOK, PCs, ChangePCs
  <2>4. LockInv'
    BY <1>0, <2>1, <2>p, <2>q DEF LockInv, LockedPCs, QuietPCs
  <2>m. ChangeInv'
    <3>1. /\ isa.extra_rc + side.count = refs /\ Halves(side.count)
          /\ isa.has_sidetable_rc <=> side.count > 0
          /\ ~side.deallocating /\ ~side.weakly_referenced
          /\ weakRef => isa.weakly_referenced
      BY <1>0, <1>2, <2>1, <2>2, WordTypes DEF CountInv, WeakInv
    <3>2. t \in Changers
      BY <1>0, <1>1 DEF ChangeInv, ChangePCs
    <3> QED
      BY <1>0, <1>1, <1>2, <2>1, <2>n, <2>p, <2>q, <3>1, <3>2 DEF ChangeInv, ChangePCs
  <2>5. ClientInv'
    <3>1. /\ Cardinality(Releasing) \in Nat /\ Cardinality(Releasing)' = Cardinality(Releasing)
          /\ Cardinality(Retaining) \in Nat /\ Cardinality(Retaining)' = Cardinality(Retaining)
      BY <1>1, <1>2, <2>q, CallsStep DEF ReleasePCs, StartPCs
    <3>2. Using # {}
      BY <1>1, <1>2 DEF Using, ChangePCs
    <3> QED
      BY <1>0, <1>1, <3>1, <3>2 DEF ClientInv
  <2>6. PhaseInv' /\ DeallocInv'
    BY <1>0, <1>1, <1>2, <1>d, <2>p DEF PhaseInv, DeallocInv, DeallocPCs
  <2>7. CountInv'
    BY <2>n, <2>p DEF CountInv
  <2>8. WeakInv' /\ LoopInv'
    <3>1. \A u \in Threads : u # t => pc[u] \notin LockedPCs
      BY <1>0, <2>1 DEF LockInv
    <3>2. \A u \in Threads : u # t /\ pc[u] = "l_loop" => ~sideTableLocked[u]
      BY <1>0, <2>1 DEF LockInv
    <3> QED
      BY <1>0, <1>1, <1>2, <2>n, <2>p, <2>q, <3>1, <3>2 DEF WeakInv, LoopInv, LoopPCs, InFlightPCs, LockedPCs
  <2> QED
    BY <2>3, <2>4, <2>m, <2>5, <2>6, <2>7, <2>8 DEF IndInv
<1>b. CASE ~ToRaw(t)
  <2>1. isa.nonpointer => newCls[t] \notin RawClasses
    BY <1>1, <1>b DEF ToRaw
  <2>q. PICK q \in {"idle"} :
          /\ pc' = [pc EXCEPT ![t] = q]
          /\ ResetLocals(t)
          /\ lock' = IF sideTableLocked[t] THEN NoThread ELSE lock
    BY <1>2, <1>b DEF ChangeStore, Goto, Return, UnlockIf
  <2>2. InFlight' = InFlight /\ InFlight \in Nat
    BY <1>1, <2>q, InFlightType, InFlightChange DEF InFlightPCs
  <2>p. /\ pc'[t] = "idle" /\ \A u \in Threads : u # t => pc'[u] = pc[u]
        /\ ~Moving'
    BY <1>0, <1>2, <2>q DEF TypeOK, Moving, ChangePCs
  <2>n. /\ isa'.nonpointer <=> isa.nonpointer
        /\ isa.nonpointer => /\ isa'.extra_rc = isa.extra_rc
                             /\ isa'.has_sidetable_rc = isa.has_sidetable_rc
                             /\ isa'.weakly_referenced = isa.weakly_referenced
    BY <1>c, <2>1 DEF ClassOnly
  <2>3. TypeOK'
    BY <1>0, <1>1, <1>c, <2>q, ZeroIsaType DEF TypeOK, PCs, ResetLocals
  <2>4. LockInv'
    BY <1>0, <1>1, <2>q DEF LockInv, LockedPCs, QuietPCs, ResetLocals, TypeOK
  <2>m. ChangeInv'
    BY <1>0, <1>2, <2>p, <2>q DEF ChangeInv, ChangePCs, ResetLocals, TypeOK
  <2>5. ClientInv'
    <3>1. /\ Cardinality(Releasing) \in Nat /\ Cardinality(Releasing)' = Cardinality(Releasing)
          /\ Cardinality(Retaining) \in Nat /\ Cardinality(Retaining)' = Cardinality(Retaining)
          /\ Using' # {} => Using # {}
      BY <1>1, <1>2, <2>q, CallsStep DEF ReleasePCs, StartPCs, UsingPCs, RetainPCs, ChangePCs
    <3> QED
      BY <1>0, <1>1, <3>1 DEF ClientInv
  <2>6. PhaseInv' /\ DeallocInv'
    BY <1>0, <1>1, <1>2, <1>d, <2>p DEF PhaseInv, DeallocInv, DeallocPCs
  <2>7. CountInv'
    BY <1>0, <1>1, <1>2, <2>2, <2>n, <2>p DEF CountInv, Leaked
  <2>8. WeakInv' /\ LoopInv'
    BY <1>0, <1>1, <1>2, <2>n, <2>p, <2>q DEF WeakInv, LoopInv, LoopPCs, InFlightPCs, ResetLocals, TypeOK
  <2> QED
    BY <2>3, <2>4, <2>m, <2>5, <2>6, <2>7, <2>8 DEF IndInv
<1> QED
  BY <1>a, <1>b

\* (0 - 1) in the width of the side table's count.
LEMMA MinusOne == (0 - 1) % SideLimit = SideLimit - 1
  BY SideLimits

\* A number that fits into the side table's count.
LEMMA InWidth ==
  ASSUME NEW n \in 0..(SideLimit - 1)
  PROVE  n % SideLimit = n
  BY SideLimits

\* What the move makes of the side table's word: the count less the one that a
\* raw isa stands for, or the pinned count when the inline count was zero.
LEMMA MovedWord ==
  ASSUME IndInv, NEW t \in Threads, pc[t] = "c_move", NEW w, w = SidetableMoveExtraRC(side, oldisa[t])
  PROVE  /\ w \in SideWord /\ ~w.deallocating
         /\ w.count + 1 = refs \/ w.count = SIDE_TABLE_RC_PINNED
         /\ weakRef => w.weakly_referenced
<1>0. TypeOK /\ ClientInv
  BY DEF IndInv
<1>1. /\ oldisa[t].extra_rc + side.count = refs
      /\ oldisa[t].has_sidetable_rc <=> side.count > 0
      /\ ~side.deallocating /\ ~side.weakly_referenced
      /\ weakRef => oldisa[t].weakly_referenced
  BY DEF IndInv, ChangeInv
<1>2. t \notin deallocators /\ refs > 0
  BY Consequences DEF IndInv, DeallocInv, DeallocPCs
<1>3. refs < SideLimit
  BY <1>0, CallsFinite, WordTypes, SideLimits DEF ClientInv
<1>4. /\ oldisa[t] \in IsaWord /\ oldisa[t].extra_rc \in Nat
      /\ oldisa[t].has_sidetable_rc \in BOOLEAN /\ oldisa[t].weakly_referenced \in BOOLEAN
  BY <1>0, RefCountAssumption DEF TypeOK, IsaWord, RC_MAX
<1>5. ~IsDeallocating(oldisa[t])
  BY <1>0, <1>1, <1>2, <1>4, WordTypes DEF IsDeallocating
<1>6. CASE oldisa[t].extra_rc > 0
  <2>0. oldisa[t].extra_rc - 1 \in 0..(SideLimit - 1)
    BY <1>0, <1>1, <1>3, <1>4, <1>6, WordTypes, SideLimits
  <2>1. (oldisa[t].extra_rc - 1) % SideLimit = oldisa[t].extra_rc - 1
    BY <2>0, InWidth
  <2>2. /\ side.count + (oldisa[t].extra_rc - 1) = refs - 1 /\ refs - 1 \in 0..(SideLimit - 1)
    BY <1>0, <1>1, <1>2, <1>3, <1>4, WordTypes, SideLimits
  <2>3. w = [count |-> refs - 1,
             deallocating |-> side.deallocating \/ IsDeallocating(oldisa[t]),
             weakly_referenced |-> side.weakly_referenced \/ oldisa[t].weakly_referenced]
    BY <1>3, <2>1, <2>2, SideLimits DEF SidetableMoveExtraRC
  <2> QED
    BY <1>0, <1>1, <1>4, <1>5, <2>2, <2>3, WordTypes DEF SideWord
<1>7. CASE oldisa[t].extra_rc = 0
  <2>1. side.count + ((oldisa[t].extra_rc - 1) % SideLimit) >= SideLimit
    BY <1>0, <1>1, <1>2, <1>7, WordTypes, SideLimits, MinusOne
  <2>2. w = [count |-> SIDE_TABLE_RC_PINNED,
             deallocating |-> IsDeallocating(oldisa[t]),
             weakly_referenced |-> oldisa[t].weakly_referenced]
    BY <1>0, <1>7, <2>1, WordTypes, SideLimits, MinusOne DEF SidetableMoveExtraRC
  <2>3. SIDE_TABLE_RC_PINNED \in 0..(SideLimit - 1)
    BY SideLimits
  <2>4. /\ w.count = SIDE_TABLE_RC_PINNED /\ ~w.deallocating
        /\ weakRef => w.weakly_referenced
    BY <1>1, <1>5, <2>2
  <2>5. w = [count |-> SIDE_TABLE_RC_PINNED, deallocating |-> FALSE, weakly_referenced |-> oldisa[t].weakly_referenced]
    BY <1>5, <2>2 DEF IsDeallocating
  <2>6. w \in SideWord
    BY <1>4, <2>3, <2>5 DEF SideWord
  <2> QED
    BY <2>4, <2>6
<1> QED
  BY <1>4, <1>6, <1>7

\* The move puts every reference into the side table, or pins its count.
LEMMA ChangeMoveKeeps ==
  ASSUME OneChanger, IndInv, NEW t \in Threads, ChangeMove(t)
  PROVE  IndInv'
<1>0. TypeOK /\ LockInv /\ ClientInv /\ PhaseInv /\ DeallocInv /\ CountInv /\ WeakInv /\ LoopInv /\ ChangeInv
  BY DEF IndInv
<1>1. /\ pc[t] = "c_move" /\ side' = SidetableMoveExtraRC(side, oldisa[t]) /\ lock' = NoThread /\ lock = t
      /\ UNCHANGED <<isa, weakRef, freed, crashed, refs, selfRefs, deallocators>>
      /\ ~isa.nonpointer
      /\ t \in Changers
  BY <1>0 DEF ChangeMove, At, ghost, LockInv, LockedPCs, ChangeInv, ChangePCs
<1>2. /\ \A u \in Threads : u # t => pc[u] \notin ChangePCs
      /\ t \notin deallocators /\ deallocators = {} /\ ~freed /\ refs > 0
  BY <1>1, SoleChanger DEF ChangePCs
<1>q. PICK q \in {"idle"} :
        /\ pc' = [pc EXCEPT ![t] = q]
        /\ ResetLocals(t)
  BY <1>2 DEF ChangeMove, Goto, Return
<1>p. /\ pc'[t] = "idle" /\ \A u \in Threads : u # t => pc'[u] = pc[u]
      /\ ~Moving'
  BY <1>0, <1>2, <1>q DEF TypeOK, Moving, ChangePCs
<1>s. /\ side' \in SideWord /\ ~side'.deallocating
      /\ side'.count + 1 = refs \/ side'.count = SIDE_TABLE_RC_PINNED
      /\ weakRef => side'.weakly_referenced
  BY <1>1, MovedWord
<1>d. \A u \in Threads : pc[u] # "d_free" /\ pc[u] \notin DeallocPCs
  BY <1>0, <1>2 DEF DeallocInv, DeallocPCs
<1>u. \A u \in Threads : u # t => pc[u] \notin LockedPCs
  BY <1>0, <1>1 DEF LockInv
<1>3. TypeOK'
  BY <1>0, <1>1, <1>q, <1>s, ZeroIsaType DEF TypeOK, PCs, ResetLocals
<1>4. LockInv'
  BY <1>0, <1>1, <1>q, <1>u DEF LockInv, LockedPCs, QuietPCs, ResetLocals, TypeOK
<1>m. ChangeInv'
  BY <1>0, <1>2, <1>p, <1>q DEF ChangeInv, ChangePCs, ResetLocals, TypeOK
<1>5. ClientInv'
  <2>1. /\ Cardinality(Releasing) \in Nat /\ Cardinality(Releasing)' = Cardinality(Releasing)
        /\ Cardinality(Retaining) \in Nat /\ Cardinality(Retaining)' = Cardinality(Retaining)
        /\ Using' # {} => Using # {}
    BY <1>1, <1>2, <1>q, CallsStep DEF ReleasePCs, StartPCs, UsingPCs, RetainPCs, ChangePCs
  <2> QED
    BY <1>0, <1>1, <2>1 DEF ClientInv
<1>6. PhaseInv' /\ DeallocInv'
  BY <1>0, <1>1, <1>2, <1>d, <1>p DEF PhaseInv, DeallocInv, DeallocPCs
<1>7. CountInv'
  BY <1>1, <1>2, <1>p, <1>s DEF CountInv, Leaked
<1>8. WeakInv' /\ LoopInv'
  BY <1>0, <1>1, <1>2, <1>p, <1>q, <1>s, <1>u DEF WeakInv, LoopInv, LoopPCs, InFlightPCs, LockedPCs, ResetLocals, TypeOK
<1> QED
  BY <1>3, <1>4, <1>m, <1>5, <1>6, <1>7, <1>8 DEF IndInv

----------------------------------------------------------------------------
(* The invariant.                                                          *)

\* The program starts in the invariant: no object, nobody in a call.
LEMMA InitKeeps == Init => IndInv
<1> SUFFICES ASSUME Init PROVE IndInv
  OBVIOUS
<1>0. side \in SideWord /\ RC_MAX \in Nat
  BY SideLimits, RefCountAssumption DEF Init, NoSide, SideWord, RC_MAX
<1>a. /\ isa \in IsaWord /\ refs \in Nat /\ selfRefs \in Int
      /\ lock \in Threads \cup {NoThread} /\ deallocators \in SUBSET Threads
      /\ pc \in [Threads -> PCs] /\ oldisa \in [Threads -> IsaWord] /\ newisa \in [Threads -> IsaWord]
  BY ZeroIsaType DEF Init, PCs
<1>b. /\ weakRef \in BOOLEAN /\ freed \in BOOLEAN /\ crashed \in BOOLEAN
      /\ newCls \in [Threads -> Classes \cup {NoClass}]
      /\ full \in [Threads -> BOOLEAN] /\ sideTableLocked \in [Threads -> BOOLEAN]
  BY DEF Init
<1>1. TypeOK
  BY <1>0, <1>a, <1>b DEF TypeOK
<1>2. Releasing = {} /\ Using = {} /\ Retaining = {}
  BY DEF Init, Releasing, Using, Retaining, ReleasePCs, RetainPCs, ChangePCs
<1>3. ClientInv
  BY <1>2, FS_EmptySet, RefCountAssumption DEF Init, ClientInv
<1>4. LockInv /\ DeallocInv /\ WeakInv /\ LoopInv
  BY DEF Init, LockInv, DeallocInv, WeakInv, LoopInv, LockedPCs, QuietPCs,
         DeallocPCs, ChangePCs, LoopPCs, InFlightPCs
<1>5. PhaseInv /\ CountInv
  BY DEF Init, PhaseInv, CountInv
<1>6. ChangeInv
  BY DEF Init, ChangeInv, ChangePCs
<1> QED
  BY <1>1, <1>3, <1>4, <1>5, <1>6 DEF IndInv

\* Every step of the program preserves the invariant.
LEMMA NextKeeps ==
  ASSUME OneChanger, IndInv, [Next]_vars
  PROVE  IndInv'
<1>1. CASE UNCHANGED vars
  <2>1. UNCHANGED <<isa, side, weakRef, freed, lock, crashed, refs, selfRefs, deallocators, pc, oldisa, newisa, newCls, full, sideTableLocked>>
    BY <1>1 DEF vars, heap, ghost, locals
  <2> QED
    BY <2>1 DEF IndInv, TypeOK, LockInv, ClientInv, PhaseInv, DeallocInv, CountInv, WeakInv, LoopInv, ChangeInv,
                Releasing, Using, Retaining, InFlight, Moving, Leaked
<1>2. CASE Next
  <2>1. PICK t \in Threads : Call(t) \/ Step(t)
    BY <1>2 DEF Next
  <2>2. CASE Call(t)
    BY <2>2, ChangeIsaKeeps, AllocKeeps, RetainKeeps, ReleaseKeeps, LoadWeakRetainedKeeps, StoreWeakKeeps, DestroyWeakKeeps DEF Call
  <2>3. CASE RetainStep(t)
    BY <2>3, SidetableRetainKeeps, SidetableTryRetainKeeps, RetainDeallocatingKeeps, RetainOverflowKeeps, RetainLockKeeps, RetainStoreKeeps, RetainRetryKeeps, RetainAddKeeps, LoadWeakUnlockKeeps DEF RetainStep
  <2>4. CASE ReleaseStep(t)
    BY <2>4, SidetableReleaseKeeps, ReleaseDeallocatingKeeps, ReleaseStoreKeeps, ReleaseRetryKeeps, ReleaseUnderflowKeeps, ReleaseLockKeeps, ReleaseBorrowKeeps, BorrowStoreKeeps, BorrowFailKeeps, BorrowFailAgainKeeps, ReleasePutBackKeeps, ReleaseClearKeeps DEF ReleaseStep
  <2>5. CASE DeallocStep(t) \/ WeakStep(t)
    BY <2>5, RootDeallocKeeps, ClearDeallocatingKeeps, DisposeKeeps, SetWeaklyReferencedKeeps, SetWeaklyRetryKeeps DEF DeallocStep, WeakStep
  <2>6. CASE ChangeStep(t)
    BY <2>6, ChangeLockKeeps, ChangeStoreKeeps, ChangeRetryKeeps, ChangeMoveKeeps DEF ChangeStep
  <2> QED
    BY <2>1, <2>2, <2>3, <2>4, <2>5, <2>6 DEF Step
<1> QED
  BY <1>1, <1>2

\* rootRetain, rootRelease, objc_loadWeakRetained, storeWeak, rootDealloc and
\* the changeIsa of one thread keep the inductive invariant, and with it the
\* types of all the variables, for every number of threads and every width of extra_rc.
THEOREM Invariance ==
  ASSUME OneChanger
  PROVE  Spec => []IndInv
<1>1. Init => IndInv
  BY InitKeeps
<1>2. IndInv /\ [Next]_vars => IndInv'
  BY NextKeeps
<1> QED
  BY <1>1, <1>2, PTL DEF Spec

\* The isa fields and the side table word stay in their bit widths.
THEOREM TypeCorrect ==
  ASSUME OneChanger
  PROVE  Spec => []TypeOK
<1>1. IndInv => TypeOK
  BY DEF IndInv
<1> QED
  BY <1>1, Invariance, PTL

\* Nobody is inside changeIsa.
LEMMA NoChange ==
  ASSUME Changers = {}, IndInv, NEW t \in Threads
  PROVE  ~ChangeStep(t) /\ \A c \in Classes : ~ChangeIsa(t, c)
  BY DEF IndInv, ChangeInv, ChangePCs, ChangeStep, ChangeLock, ChangeStore, ChangeRetry, ChangeMove,
         ChangeReady, ChangeIsa, At

\* The retain count is exact whenever the side table's lock is free: what the
\* overflow, borrow and put-back paths move between the words is never lost.
THEOREM CountIsExact ==
  ASSUME Changers = {}
  PROVE  Spec => []RetainCountExact
<1>1. ASSUME IndInv, lock = NoThread, ~freed, deallocators = {}
      PROVE  RetainCount = refs
  <2>1. TypeOK /\ LockInv /\ CountInv
    BY <1>1 DEF IndInv
  <2>2. InFlight = 0
    BY <1>1, <2>1, RefCountAssumption DEF InFlight, InFlightPCs, LockInv, LockedPCs
  <2>3. ~Moving /\ ~Leaked
    BY <1>1 DEF IndInv, ChangeInv, ChangePCs, Moving, Leaked
  <2> QED
    BY <1>1, <2>1, <2>2, <2>3, WordTypes DEF CountInv, RetainCount
<1>2. IndInv => RetainCountExact
  BY <1>1 DEF RetainCountExact
<1>3. OneChanger
  BY DEF OneChanger
<1> QED
  BY <1>2, <1>3, Invariance, PTL

\* With one thread that changes the class, the count is never low: the move from
\* isa to the side table loses no reference, and what it pins stays pinned.
THEOREM CountCovers ==
  ASSUME OneChanger
  PROVE  Spec => []RetainCountCovers
<1>1. ASSUME IndInv, lock = NoThread, ~freed, deallocators = {}
      PROVE  RetainCount >= refs
  <2>1. TypeOK /\ LockInv /\ CountInv /\ ClientInv
    BY <1>1 DEF IndInv
  <2>2. InFlight = 0
    BY <1>1, <2>1, RefCountAssumption DEF InFlight, InFlightPCs, LockInv, LockedPCs
  <2>3. ~Moving
    BY <1>1, MoverAlone
  <2>4. CASE isa.nonpointer
    BY <1>1, <2>1, <2>2, <2>4, WordTypes DEF CountInv, RetainCount
  <2>5. CASE ~isa.nonpointer
    <3>1. side.count + 1 = refs \/ side.count = SIDE_TABLE_RC_PINNED
      BY <1>1, <2>1, <2>3, <2>5 DEF CountInv, Leaked
    <3>2. refs <= SIDE_TABLE_RC_PINNED
      BY <2>1, CallsFinite, WordTypes, SideLimits DEF ClientInv
    <3> QED
      BY <2>1, <2>5, <3>1, <3>2, WordTypes, SideLimits DEF RetainCount
  <2> QED
    BY <2>4, <2>5
<1>2. IndInv => RetainCountCovers
  BY <1>1 DEF RetainCountCovers
<1> QED
  BY <1>2, Invariance, PTL

\* -dealloc begins when the last strong reference is gone, on one thread.
THEOREM DeallocOnce ==
  ASSUME OneChanger
  PROVE  Spec => []NoPrematureDealloc
<1>1. ASSUME IndInv
      PROVE  NoPrematureDealloc
  <2>1. deallocators \subseteq Threads /\ (deallocators # {} => refs = 0) /\ \A t, u \in deallocators : t = u
    BY <1>1 DEF IndInv, TypeOK, PhaseInv
  <2>2. CASE deallocators = {}
    BY <2>1, <2>2, FS_EmptySet DEF NoPrematureDealloc
  <2>3. CASE deallocators # {}
    <3>1. PICK t \in deallocators : deallocators = {t}
      BY <2>1, <2>3
    <3>2. Cardinality(deallocators) = 1
      BY <3>1, FS_Singleton
    <3> QED
      BY <2>1, <3>2 DEF NoPrematureDealloc
  <2> QED
    BY <2>2, <2>3
<1> QED
  BY <1>1, Invariance, PTL

\* Once the memory is freed no retain, release, weak load or weak store that
\* would read isa again is under way.
THEOREM FreedSafely ==
  ASSUME OneChanger
  PROVE  Spec => []NoUseAfterFree
<1>1. IndInv => NoUseAfterFree
  BY FreedQuiet DEF NoUseAfterFree
<1> QED
  BY <1>1, Invariance, PTL

\* Once the memory is freed no weak variable holds the address and the side
\* table has no word for it, so a new object there starts clean.
THEOREM FreedForgotten ==
  ASSUME OneChanger
  PROVE  Spec => []FreedIsForgotten
<1>1. IndInv => FreedIsForgotten
  BY DEF IndInv, PhaseInv, FreedIsForgotten
<1> QED
  BY <1>1, Invariance, PTL

\* A release that underflows with the lock in hand always finds a half to
\* borrow, so it never takes the path that deallocates in its place.
THEOREM BorrowSucceeds ==
  ASSUME OneChanger
  PROVE  Spec => []BorrowFindsCount
<1>1. ASSUME IndInv, NEW t \in Threads, Underflows(t), sideTableLocked[t]
      PROVE  side.count >= RC_HALF
  <2>1. isa.has_sidetable_rc /\ InFlight = 0 /\ pc[t] = "l_loop" /\ isa.nonpointer /\ TypeOK /\ CountInv
    BY <1>1, BorrowFinds DEF IndInv, Underflows, At, LoopInv, LoopPCs
  <2>2. t \notin deallocators
    BY <1>1, <2>1 DEF IndInv, LoopInv, Underflows, IsDeallocating
  <2>3. ~freed
    BY <1>1, <2>1, <2>2, Consequences
  <2>4. side.count > 0 /\ Halves(side.count)
    BY <2>1, <2>3, WordTypes DEF CountInv
  <2> QED
    BY <2>1, <2>4, WordTypes, HalvesSub
<1>2. IndInv => BorrowFindsCount
  BY <1>1 DEF BorrowFindsCount
<1> QED
  BY <1>2, Invariance, PTL

----------------------------------------------------------------------------
(* The refinement: each step is one of the abstract object, or a stutter.  *)

\* A step that does not touch what the abstract object is made of.
LEMMA AbstractStutter ==
  ASSUME UNCHANGED <<freed, deallocators, refs, weakRef>>
  PROVE  [Lifetime!Next]_(Lifetime!vars)
  BY DEF Lifetime!vars, phase

\* A reference gained outside -dealloc is gained by a live object.
LEMMA AbstractRetain ==
  ASSUME Changers = {}, IndInv, IndInv', NEW t \in Threads, GainRef(t), UNCHANGED <<freed, weakRef>>
  PROVE  [Lifetime!Next]_(Lifetime!vars)
<1>1. CASE t \in deallocators
  BY <1>1, AbstractStutter DEF GainRef
<1>2. CASE t \notin deallocators
  <2>1. refs' = refs + 1 /\ deallocators' = deallocators /\ refs \in Nat
    BY <1>2 DEF GainRef, IndInv, TypeOK
  <2>2. deallocators = {} /\ ~freed
    BY <2>1 DEF IndInv, PhaseInv, Leaked
  <2>3. refs > 0
    BY <2>2 DEF IndInv, PhaseInv, Leaked
  <2> QED
    BY <2>1, <2>2, <2>3 DEF Lifetime!Next, Lifetime!Retain, phase
<1> QED
  BY <1>1, <1>2

\* A reference dropped outside -dealloc is the last one exactly when -dealloc
\* begins in the same step.
LEMMA AbstractRelease ==
  ASSUME Changers = {}, IndInv, IndInv', NEW t \in Threads, NEW d, DropRef(t, d), UNCHANGED <<freed, weakRef>>,
         t \notin deallocators => deallocators = {} /\ ~freed /\ refs > 0
  PROVE  [Lifetime!Next]_(Lifetime!vars)
<1>1. CASE t \in deallocators
  <2>1. UNCHANGED <<refs, deallocators>>
    BY <1>1 DEF DropRef
  <2> QED
    BY <2>1, AbstractStutter
<1>2. CASE t \notin deallocators
  <2>1. refs' = refs - 1 /\ refs \in Nat /\ refs > 0 /\ deallocators = {} /\ ~freed /\ ~freed'
    BY <1>2 DEF DropRef, IndInv, TypeOK
  <2>2. (deallocators' # {} => refs' = 0) /\ (deallocators' = {} => refs' > 0)
    BY <2>1 DEF IndInv, PhaseInv, Leaked
  <2>3. CASE deallocators' = {}
    BY <2>1, <2>2, <2>3 DEF Lifetime!Next, Lifetime!Release, phase
  <2>4. CASE deallocators' # {}
    BY <2>1, <2>2, <2>4 DEF Lifetime!Next, Lifetime!LastRelease, phase
  <2> QED
    BY <2>3, <2>4
<1> QED
  BY <1>1, <1>2

\* Memory is freed by the thread in -dealloc, after the weak variable is clear.
LEMMA AbstractFree ==
  ASSUME IndInv, IndInv', NEW t \in Threads, pc[t] \in DeallocPCs, FreeMemory(t), UNCHANGED <<refs, weakRef>>
  PROVE  [Lifetime!Next]_(Lifetime!vars)
<1>1. t \in deallocators /\ ~freed /\ freed' /\ ~weakRef
  BY DEF IndInv, DeallocInv, PhaseInv, FreeMemory
<1> QED
  BY <1>1 DEF Lifetime!Next, Lifetime!Free, phase

\* Calls that begin, retries, and moves between the words are stutters.
LEMMA QuietSteps ==
  ASSUME NEW t \in Threads,
         \/ Retain(t) \/ Release(t) \/ LoadWeakRetained(t) \/ StoreWeak(t) \/ RetainOverflow(t)
         \/ RetainLock(t) \/ RetainRetry(t) \/ RetainAdd(t) \/ LoadWeakUnlock(t) \/ ReleaseRetry(t)
         \/ ReleaseUnderflow(t) \/ ReleaseLock(t) \/ BorrowFail(t) \/ BorrowFailAgain(t) \/ ReleasePutBack(t)
         \/ ReleaseClear(t) \/ SetWeaklyRetry(t)
  PROVE  [Lifetime!Next]_(Lifetime!vars)
<1>1. UNCHANGED <<freed, deallocators, refs, weakRef>>
  BY DEF heap, ghost, Retain, Release, LoadWeakRetained, StoreWeak, RetainOverflow, RetainLock, RetainRetry, RetainAdd, LoadWeakUnlock, ReleaseRetry, ReleaseUnderflow, ReleaseLock, BorrowFail, BorrowFailAgain, ReleasePutBack, ReleaseClear, SetWeaklyRetry
<1> QED
  BY <1>1, AbstractStutter

\* The steps of a retain that gain a reference.
LEMMA RetainSteps ==
  ASSUME Changers = {}, IndInv, IndInv', NEW t \in Threads,
         SidetableRetain(t) \/ SidetableTryRetain(t) \/ RetainDeallocating(t) \/ RetainStore(t)
  PROVE  [Lifetime!Next]_(Lifetime!vars)
<1>1. UNCHANGED <<freed, weakRef>>
  BY DEF SidetableRetain, SidetableTryRetain, RetainDeallocating, RetainStore, heap
<1>2. GainRef(t) \/ UNCHANGED <<deallocators, refs>>
  BY DEF SidetableRetain, SidetableTryRetain, RetainDeallocating, RetainStore, ghost
<1> QED
  BY <1>1, <1>2, AbstractRetain, AbstractStutter

\* The steps of a release that drop one.
LEMMA ReleaseSteps ==
  ASSUME Changers = {}, IndInv, IndInv', NEW t \in Threads,
         \/ SidetableRelease(t) \/ ReleaseDeallocating(t) \/ ReleaseStore(t)
         \/ ReleaseBorrow(t) \/ BorrowStore(t)
  PROVE  [Lifetime!Next]_(Lifetime!vars)
<1>1. UNCHANGED <<freed, weakRef>>
  BY DEF SidetableRelease, ReleaseDeallocating, ReleaseStore, ReleaseBorrow, BorrowStore, heap
<1>2. (\E d \in {TRUE, FALSE} : DropRef(t, d)) \/ UNCHANGED <<deallocators, refs>>
  <2>1. CASE SidetableRelease(t)
    <3>1. DropRef(t, side.count = 0 /\ ~side.deallocating)
      BY <2>1 DEF SidetableRelease, ReleaseDone
    <3> QED
      BY <3>1 DEF DropRef
  <2>2. CASE ReleaseStore(t)
    <3>1. DropRef(t, IsDeallocating(isa'))
      BY <2>2 DEF ReleaseStore, ReleaseDone
    <3> QED
      BY <3>1 DEF DropRef
  <2>3. CASE ReleaseDeallocating(t) \/ ReleaseBorrow(t) \/ BorrowStore(t)
    BY <2>3 DEF ReleaseDeallocating, ReleaseBorrow, BorrowStore, ReleaseDone, ghost
  <2> QED
    BY <2>1, <2>2, <2>3
<1>3. pc[t] \in {"l_loop", "l_borrow", "l_borrow2"}
  BY DEF SidetableRelease, ReleaseDeallocating, ReleaseStore, ReleaseBorrow, Underflows, BorrowStore, At
<1>4. t \notin deallocators => deallocators = {} /\ ~freed /\ refs > 0
  BY <1>3, Consequences
<1> QED
  BY <1>1, <1>2, <1>4, AbstractRelease, AbstractStutter

\* The steps of -dealloc and of the weak variable.
LEMMA DeallocAndWeakSteps ==
  ASSUME IndInv, IndInv', NEW t \in Threads,
         DeallocStep(t) \/ SetWeaklyReferenced(t) \/ DestroyWeak(t)
  PROVE  [Lifetime!Next]_(Lifetime!vars)
<1>1. CASE RootDealloc(t) \/ Dispose(t)
  <2>1. pc[t] \in DeallocPCs /\ UNCHANGED <<refs, weakRef>>
    BY <1>1 DEF RootDealloc, Dispose, At, DeallocPCs
  <2>2. FreeMemory(t) \/ UNCHANGED <<freed, deallocators>>
    BY <1>1 DEF RootDealloc, Dispose
  <2> QED
    BY <2>1, <2>2, AbstractFree, AbstractStutter
<1>2. CASE ClearDeallocating(t) \/ DestroyWeak(t)
  <2>0. weakRef \in BOOLEAN /\ weakRef' \in BOOLEAN
    BY DEF IndInv, TypeOK
  <2>a. UNCHANGED <<freed, deallocators, refs>> /\ (weakRef' => weakRef)
    BY <1>2, <2>0 DEF ClearDeallocating, DestroyWeak, ghost
  <2>1. UNCHANGED <<freed, deallocators, refs>> /\ (weakRef' = weakRef \/ (weakRef /\ weakRef' = FALSE))
    BY <2>0, <2>a
  <2>2. CASE weakRef' = weakRef
    BY <2>1, <2>2, AbstractStutter
  <2>3. CASE weakRef /\ weakRef' = FALSE
    BY <2>1, <2>3 DEF Lifetime!Next, Lifetime!ClearWeak, phase
  <2> QED
    BY <2>1, <2>2, <2>3
<1>3. CASE SetWeaklyReferenced(t)
  <2>1. UNCHANGED <<freed, deallocators, refs>> /\ weakRef' = TRUE /\ pc[t] = "s_loop"
    BY <1>3 DEF SetWeaklyReferenced, ghost, At
  <2>2. t \notin deallocators
    BY <2>1 DEF IndInv, DeallocInv, DeallocPCs
  <2>3. refs > 0 /\ deallocators = {} /\ ~freed
    BY <2>1, <2>2, Consequences
  <2> QED
    BY <2>1, <2>3 DEF Lifetime!Next, Lifetime!FormWeak, phase
<1> QED
  BY <1>1, <1>2, <1>3 DEF DeallocStep

\* A new object.
LEMMA AllocSteps ==
  ASSUME IndInv, IndInv', NEW t \in Threads, NEW c \in Classes, Alloc(t, c)
  PROVE  [Lifetime!Next]_(Lifetime!vars)
<1>1. freed /\ ~freed' /\ refs' = 1 /\ UNCHANGED <<weakRef, deallocators>>
  BY DEF Alloc
<1>2. deallocators = {} /\ ~weakRef
  BY <1>1 DEF IndInv, PhaseInv
<1> QED
  BY <1>1, <1>2 DEF Lifetime!Next, Lifetime!Create, phase

\* The packed isa, the side table, the lock and the compare-and-swap loops
\* implement an atomic reference count with a zeroing weak variable.
THEOREM Refinement ==
  ASSUME Changers = {}
  PROVE  Spec => ImplementsLifetime
<1>1. Init => Lifetime!Init
  BY DEF Init, Lifetime!Init, phase
<1>2. ASSUME IndInv, IndInv', [Next]_vars
      PROVE  [Lifetime!Next]_(Lifetime!vars)
  <2>1. CASE UNCHANGED vars
    BY <2>1, AbstractStutter DEF vars, heap, ghost
  <2>2. CASE Next
    <3>1. PICK t \in Threads : Call(t) \/ Step(t)
      BY <2>2 DEF Next
    <3>2. CASE Call(t)
      BY <1>2, <3>2, NoChange, AllocSteps, QuietSteps, DeallocAndWeakSteps DEF Call
    <3>3. CASE RetainStep(t)
      BY <1>2, <3>3, QuietSteps, RetainSteps DEF RetainStep
    <3>4. CASE ReleaseStep(t)
      BY <1>2, <3>4, QuietSteps, ReleaseSteps DEF ReleaseStep
    <3>5. CASE DeallocStep(t) \/ WeakStep(t)
      BY <1>2, <3>5, QuietSteps, DeallocAndWeakSteps DEF WeakStep
    <3> QED
      BY <1>2, <3>1, <3>2, <3>3, <3>4, <3>5, NoChange DEF Step
  <2> QED
    BY <1>2, <2>1, <2>2
<1>3. OneChanger
  BY DEF OneChanger
<1> QED
  BY <1>1, <1>2, <1>3, Invariance, PTL DEF Spec, ImplementsLifetime, Lifetime!Spec
=============================================================================
