---------------------------- MODULE MethodCache -----------------------------
(***************************************************************************)
(* The method cache of one class (objc-cache.mm) and its readers.          *)
(* objc_msgSend and cache_getImp read it without a lock, one load at a     *)
(* time; cache_t::insert, eraseNolock and collectNolock change it under    *)
(* runtimeLock, one store at a time.  Dropped buckets wait in the garbage  *)
(* until no reader can be using them: either the kernel sends the readers  *)
(* to their cache-miss path, or the program counters of the threads are    *)
(* sampled one after the other.  Two kinds of build: i386 and x86_64 keep  *)
(* mask and buckets in two words and end the buckets with a marker; arm64  *)
(* packs them into one word and may fill small caches completely.          *)
(***************************************************************************)
EXTENDS Integers, Sequences, FiniteSets, FiniteSetsExt

CONSTANTS
  Readers,
  Sels,               \* selectors: numbers above 1, which cache_hash masks
  Replaceable,        \* selectors whose method gets another implementation
  Blocks,             \* heap blocks for buckets: the bound on garbage
  NoBlock, EmptyCache,
  EmptyBuckets,       \* the shared empty block for each capacity above EMPTY_SIZE
  Builds,             \* records [packed, restartable]
  MAX_CACHE_SIZE,
  FULL_UTILIZATION_CACHE_SIZE,
  EMPTY_SIZE,         \* buckets in _objc_empty_cache
  garbage_threshold   \* in buckets

\* The empty buckets that the caches of all classes share.
Shared == {EmptyCache} \cup {EmptyBuckets[c] : c \in 1..MAX_CACHE_SIZE}

ASSUME MethodCacheAssumption ==
  /\ Sels \subseteq Nat \ {0, 1} /\ Replaceable \subseteq Sels
  /\ Builds \subseteq [packed : BOOLEAN, restartable : BOOLEAN]
  /\ DOMAIN EmptyBuckets = 1..MAX_CACHE_SIZE /\ \A c \in 1..MAX_CACHE_SIZE : EmptyBuckets[c] # EmptyCache
  /\ Shared \cap Blocks = {} /\ NoBlock \notin Blocks \cup Shared
  /\ EMPTY_SIZE \in Nat \ {0} /\ MAX_CACHE_SIZE \in Nat /\ MAX_CACHE_SIZE >= 4

VARIABLES
  build,
  method,     \* the current implementation of each selector, in the method lists
  content,    \* the buckets of each block; none once it is free
  buckets, mask, occupied,   \* the fields of cache_t
  garbage,    \* garbage_refs
  w,          \* the thread that holds runtimeLock, if any
  reader,     \* each thread in CacheLookup
  stale       \* ghost: replaced implementations that an interrupted flush left in the buckets

vars == <<build, method, content, buckets, mask, occupied, garbage, w, reader, stale>>
cache == <<buckets, mask, occupied>>

Empty == [sel |-> 0, imp |-> <<0, 0>>]
EndMarker == [sel |-> 1, imp |-> <<1, 0>>]
Imps(s) == {<<s, 1>>, <<s, 2>>}
Other(imp) == <<imp[1], 3 - imp[2]>>

Unlocked == [pc |-> "idle", op |-> "none", sel |-> 0, imp |-> <<0, 0>>, new |-> NoBlock, size |-> 0,
             old |-> NoBlock, slot |-> 0, unchecked |-> {}]
Outside == [pc |-> "idle", sel |-> 0, mask |-> 0, block |-> NoBlock, i |-> 0,
            wrapped |-> FALSE, imp |-> <<0, 0>>, fresh |-> {}]

cache_hash(sel, m) == sel % (m + 1)
\* How often cache_next is applied from slot i to slot j: it goes up, on arm64 down.
cache_next(i, j, m) == (IF build.packed THEN i - j ELSE j - i) % (m + 1)
cache_fill_ratio(cap) == IF build.packed THEN (cap * 7) \div 8 ELSE (cap * 3) \div 4
INIT_CACHE_SIZE == IF build.packed THEN 2 ELSE 4
Marker == IF build.packed THEN 0 ELSE 1
capacity == IF mask = 0 THEN 0 ELSE mask + 1

\* A block has the size of the largest capacity that shares it.
emptyBuckets(b) ==
  IF b = EmptyCache THEN [i \in 0..(EMPTY_SIZE - 1) |-> Empty]
  ELSE [i \in {j \in 0..(MAX_CACHE_SIZE - 1) : \E c \in 1..MAX_CACHE_SIZE : j < c /\ EmptyBuckets[c] = b} |-> Empty]

Init ==
  /\ build \in Builds
  /\ method = [s \in Sels |-> <<s, 1>>]
  /\ content = [b \in Blocks \cup Shared |-> IF b \in Blocks THEN <<>> ELSE emptyBuckets(b)]
  /\ buckets = EmptyCache /\ mask = 0 /\ occupied = 0
  /\ garbage = {}
  /\ w = Unlocked
  /\ reader = [r \in Readers |-> Outside]
  /\ stale = {}

(***************************************************************************)
(* Readers.                                                                *)
(***************************************************************************)
Critical(r) == reader[r].pc \in {"mask", "buckets", "scan", "next", "hit"}
Reader(r, changed) == reader' = [reader EXCEPT ![r] = changed]
Miss(r) == Reader(r, Outside)
Quiet == UNCHANGED <<build, method, content, cache, garbage, w, stale>>

\* An implementation may be called until the call that replaced it has returned; one
\* that the flush of that call left behind, until the cache gets other buckets.
Valid(s) ==
  {method[s]} \cup (IF w.op = "set" /\ w.sel = s THEN {w.imp} ELSE {}) \cup (stale \cap Imps(s))

Send(r) ==
  \E s \in Sels :
    /\ reader[r].pc = "idle"
    /\ Reader(r, [Outside EXCEPT !.pc = "mask", !.sel = s, !.fresh = Valid(s)])
    /\ Quiet

LoadMask(r) ==
  LET hashed == [reader[r] EXCEPT !.i = cache_hash(reader[r].sel, mask)]
  IN /\ reader[r].pc = "mask"
     /\ Reader(r, IF build.packed THEN [hashed EXCEPT !.mask = mask, !.block = buckets, !.pc = "scan"]
                  ELSE [hashed EXCEPT !.pc = "buckets"])
     /\ Quiet

LoadBuckets(r) ==
  /\ reader[r].pc = "buckets"
  /\ Reader(r, [reader[r] EXCEPT !.block = buckets, !.pc = "scan"])
  /\ Quiet

\* Mutant: the scan does not remember that it has wrapped.
MutNextProbe(r) ==
  LET me == reader[r]
  IN IF ~build.packed THEN {IF content[me.block][me.i].sel = 1 THEN 0 ELSE me.i + 1}
     ELSE {IF me.i > 0 THEN me.i - 1 ELSE me.mask}

\* The next bucket to look at, or none: the scan wraps once.
NextProbe(r) ==
  LET me == reader[r]
      atEnd == content[me.block][me.i].sel = 1
  IN IF ~build.packed
     THEN IF atEnd /\ me.wrapped THEN {} ELSE {IF atEnd THEN 0 ELSE me.i + 1}
     ELSE IF ~me.wrapped THEN {IF me.i > 0 THEN me.i - 1 ELSE me.mask}
     ELSE {me.i - 1} \ 0..cache_hash(me.sel, me.mask)

Wraps(r) == IF build.packed THEN reader[r].i = 0 ELSE content[reader[r].block][reader[r].i].sel = 1

GoOn(r) ==
  LET me == reader[r]
      next == IF content[me.block][me.i].sel = 0 THEN {} ELSE NextProbe(r)
  IN /\ next = {} => Miss(r)
     /\ \A i \in next : Reader(r, [me EXCEPT !.pc = "scan", !.i = i, !.wrapped = me.wrapped \/ Wraps(r)])

Found(me, imp) == [Outside EXCEPT !.pc = "found", !.sel = me.sel, !.imp = imp, !.fresh = me.fresh]

\* arm64 loads selector and implementation at once.  The others load the selector,
\* load it again to see whether to go on, or load the implementation.
Scan(r) ==
  LET me == reader[r]
      b == content[me.block][me.i]
  IN /\ me.pc = "scan" /\ me.i \in DOMAIN content[me.block]
     /\ \/ b.sel = me.sel /\ Reader(r, IF build.packed THEN Found(me, b.imp) ELSE [me EXCEPT !.pc = "hit"])
        \/ b.sel # me.sel /\ build.packed /\ GoOn(r)
        \/ b.sel # me.sel /\ ~build.packed /\ Reader(r, [me EXCEPT !.pc = "next"])
     /\ Quiet

ScanMore(r) ==
  /\ reader[r].pc = "next" /\ reader[r].i \in DOMAIN content[reader[r].block]
  /\ GoOn(r) /\ Quiet

CacheHit(r) ==
  LET me == reader[r]
  IN /\ me.pc = "hit" /\ me.i \in DOMAIN content[me.block]
     /\ Reader(r, Found(me, content[me.block][me.i].imp))
     /\ Quiet

CallImp(r) == reader[r].pc = "found" /\ Miss(r) /\ Quiet

\* sigreturn resets the program counter of a thread in a restartable range.
Signal(r) == build.restartable /\ Critical(r) /\ Miss(r) /\ Quiet

(***************************************************************************)
(* Storing buckets and mask.  allocateBuckets writes the end marker before *)
(* anybody can see the buckets.                                            *)
(***************************************************************************)
allocateBuckets(size) ==
  [i \in 0..(size - 1) |-> IF i = size - 1 /\ ~build.packed THEN EndMarker ELSE Empty]
emptyBucketsForCapacity(cap) == IF cap <= EMPTY_SIZE THEN EmptyCache ELSE EmptyBuckets[cap]
isConstantEmptyCache == occupied = 0 /\ buckets = emptyBucketsForCapacity(capacity)

\* What the lock holder does once the cache has its new buckets.
Resume(v) == IF v.op = "insert" THEN [v EXCEPT !.pc = "insert"] ELSE Unlocked

reallocate(v, size, freeOld) ==
  \E b \in Blocks :
    /\ content[b] = <<>>
    /\ content' = [content EXCEPT ![b] = allocateBuckets(size)]
    /\ w' = [v EXCEPT !.pc = "buckets", !.new = b, !.size = size,
                      !.old = IF freeOld THEN buckets ELSE NoBlock]

AfterMask(v) == IF v.old = NoBlock THEN Resume(v) ELSE [v EXCEPT !.pc = "garbage"]

StoreBuckets ==
  /\ w.pc = "buckets"
  /\ buckets' = w.new /\ stale' = {}
  /\ IF build.packed THEN mask' = w.size - 1 /\ occupied' = 0 /\ w' = AfterMask(w)
     ELSE w' = [w EXCEPT !.pc = "mask"] /\ UNCHANGED <<mask, occupied>>
  /\ UNCHANGED <<build, method, content, garbage, reader>>

StoreMask ==
  /\ w.pc = "mask"
  /\ mask' = w.size - 1 /\ occupied' = 0
  /\ w' = AfterMask(w)
  /\ UNCHANGED <<build, method, content, buckets, garbage, reader, stale>>

(***************************************************************************)
(* The garbage.                                                            *)
(***************************************************************************)
Size(b) == Cardinality(DOMAIN content[b])
ByteSize(refs) == MapThenSumSet(Size, refs)
Collect(v) == [v EXCEPT !.pc = "collect", !.unchecked = Readers]

collect_free ==
  /\ w.pc = "garbage"
  /\ garbage' = garbage \cup {w.old}
  /\ w' = IF ByteSize(garbage') >= garbage_threshold THEN Collect(w) ELSE Resume(w)
  /\ UNCHANGED <<build, method, content, cache, reader, stale>>

FreeGarbage ==
  /\ content' = [b \in DOMAIN content |-> IF b \in garbage THEN <<>> ELSE content[b]]
  /\ garbage' = {}
  /\ w' = Resume(w)
  /\ UNCHANGED <<build, method, cache, stale>>

\* task_restartable_ranges_synchronize: no reader is in its critical section after it.
Synchronize ==
  /\ w.pc = "collect" /\ build.restartable
  /\ reader' = [r \in Readers |-> IF Critical(r) THEN Outside ELSE reader[r]]
  /\ FreeGarbage

\* The program counter of one more thread.  A thread in CacheLookup ends the
\* collection, or makes collectALot start over.
SampleThread(r) ==
  /\ w.pc = "collect" /\ ~build.restartable /\ r \in w.unchecked
  /\ IF Critical(r)
     THEN w' = IF w.op = "collectALot" THEN Collect(w) ELSE Resume(w)
     ELSE w' = [w EXCEPT !.unchecked = @ \ {r}]
  /\ UNCHANGED <<build, method, content, cache, garbage, reader, stale>>

CollectSampled ==
  /\ w.pc = "collect" /\ ~build.restartable /\ w.unchecked = {}
  /\ FreeGarbage /\ UNCHANGED reader

(***************************************************************************)
(* Filling: lookUpImpOrForward found the method under runtimeLock.         *)
(***************************************************************************)
\* Mutant: one entry too many, counted before the insertion.
MutFits(newOccupied) == newOccupied - 1 + Marker <= capacity

Fits(newOccupied) ==
  \/ newOccupied + Marker <= cache_fill_ratio(capacity)
  \/ build.packed /\ capacity <= FULL_UTILIZATION_CACHE_SIZE /\ newOccupied + Marker <= capacity

Grown ==
  IF capacity = 0 THEN INIT_CACHE_SIZE
  ELSE IF 2 * capacity > MAX_CACHE_SIZE THEN MAX_CACHE_SIZE ELSE 2 * capacity

insert(s) ==
  LET v == [Unlocked EXCEPT !.op = "insert", !.sel = s, !.imp = method[s]]
  IN /\ w = Unlocked
     /\ \/ /\ isConstantEmptyCache
           /\ reallocate(v, IF capacity = 0 THEN INIT_CACHE_SIZE ELSE capacity, FALSE)
        \/ /\ ~isConstantEmptyCache /\ Fits(occupied + 1)
           /\ w' = Resume(v) /\ UNCHANGED content
        \/ /\ ~isConstantEmptyCache /\ ~Fits(occupied + 1)
           /\ reallocate(v, Grown, TRUE)
     /\ UNCHANGED <<build, method, cache, garbage, reader, stale>>

\* The first slot from begin on that is unused or holds the selector.
FreeSlot ==
  LET begin == cache_hash(w.sel, mask)
      Suits(i) == content[buckets][i].sel \in {0, w.sel}
  IN {i \in 0..mask : Suits(i) /\ \A j \in 0..mask :
        Suits(j) => cache_next(begin, i, mask) <= cache_next(begin, j, mask)}

\* Mutant: the selector is stored without its implementation.
MutSetImp ==
  /\ w.pc = "insert"
  /\ \A i \in FreeSlot :
       IF content[buckets][i].sel = w.sel
       THEN w' = Unlocked /\ UNCHANGED <<content, occupied>>
       ELSE /\ occupied' = occupied + 1
            /\ content' = [content EXCEPT ![buckets][i].sel = w.sel]
            /\ w' = [w EXCEPT !.pc = "sel", !.slot = i]
  /\ UNCHANGED <<build, method, buckets, mask, garbage, reader, stale>>

\* bucket_t::set stores the implementation first and the selector last.
SetImp ==
  /\ w.pc = "insert"
  /\ \A i \in FreeSlot :
       IF content[buckets][i].sel = w.sel
       THEN w' = Unlocked /\ UNCHANGED <<content, occupied>>
       ELSE /\ occupied' = occupied + 1
            /\ content' = [content EXCEPT ![buckets][i] =
                 [sel |-> IF build.packed THEN w.sel ELSE 0, imp |-> w.imp]]
            /\ w' = IF build.packed THEN Unlocked ELSE [w EXCEPT !.pc = "sel", !.slot = i]
  /\ FreeSlot = {} => w' = [w EXCEPT !.pc = "bad_cache"] /\ UNCHANGED <<content, occupied>>
  /\ UNCHANGED <<build, method, buckets, mask, garbage, reader, stale>>

SetSel ==
  /\ w.pc = "sel"
  /\ content' = [content EXCEPT ![buckets][w.slot].sel = w.sel]
  /\ w' = Unlocked
  /\ UNCHANGED <<build, method, cache, garbage, reader, stale>>

(***************************************************************************)
(* Flushing: method_setImplementation erases the caches where cache_getImp *)
(* still finds the old implementation; _objc_flush_caches(nil) erases all, *)
(* lets the lock go, takes it again and collects until it succeeds.        *)
(***************************************************************************)
\* What the lookup of the lock holder finds.
cache_getImp(s) == {content[buckets][i].imp : i \in {j \in 0..mask : content[buckets][j].sel = s}}

\* Mutant: the cache shrinks, and the mask that readers have may exceed it.
MuteraseNolock(v) ==
  [v EXCEPT !.pc = "buckets", !.new = emptyBucketsForCapacity(INIT_CACHE_SIZE), !.size = INIT_CACHE_SIZE, !.old = buckets]

\* The cache keeps its size.
eraseNolock(v) ==
  [v EXCEPT !.pc = "buckets", !.new = emptyBucketsForCapacity(capacity), !.size = capacity, !.old = buckets]

\* The answers of shouldFlush: a signal sends its lookup, too, to the miss path.
shouldFlush(s, imp) == {imp \in cache_getImp(s)} \cup (IF build.restartable THEN {FALSE} ELSE {})

setImplementation(s) ==
  LET old == method[s]
      v == [Unlocked EXCEPT !.op = "set", !.sel = s, !.imp = old]
  IN /\ w = Unlocked
     /\ method' = [method EXCEPT ![s] = Other(old)]
     /\ \E flush \in shouldFlush(s, old) :
          /\ w' = IF flush /\ occupied > 0 THEN eraseNolock(v) ELSE Unlocked
          /\ stale' = IF flush THEN stale ELSE stale \cup ({old} \cap cache_getImp(s))
     /\ reader' = [r \in Readers |->
          IF reader[r].sel = s THEN [reader[r] EXCEPT !.fresh = @ \cup {Other(old)}] ELSE reader[r]]
     /\ UNCHANGED <<build, content, cache, garbage>>

flushCaches ==
  /\ w = Unlocked /\ occupied > 0
  /\ w' = eraseNolock([Unlocked EXCEPT !.op = "flush"])
  /\ UNCHANGED <<build, method, content, cache, garbage, reader, stale>>

collectALot ==
  /\ w = Unlocked
  /\ w' = Collect([Unlocked EXCEPT !.op = "collectALot"])
  /\ UNCHANGED <<build, method, content, cache, garbage, reader, stale>>

ReaderStep(r) ==
  LoadMask(r) \/ LoadBuckets(r) \/ Scan(r) \/ ScanMore(r) \/ CacheHit(r) \/ CallImp(r)

Next ==
  \/ \E r \in Readers : Send(r) \/ ReaderStep(r) \/ Signal(r) \/ SampleThread(r)
  \/ StoreBuckets \/ StoreMask \/ collect_free \/ Synchronize \/ CollectSampled \/ SetImp \/ SetSel
  \/ \E s \in Sels : insert(s)
  \/ \E s \in Replaceable : setImplementation(s)
  \/ flushCaches \/ collectALot

Spec == Init /\ [][Next]_vars
FairSpec == Spec /\ \A r \in Readers : WF_vars(ReaderStep(r))

(***************************************************************************)
(* Properties.                                                             *)
(***************************************************************************)
\* No lookup ever reads buckets that were freed, nor past the end of the buckets it
\* loaded, whatever mask it loaded before: setBucketsAndMask, eraseNolock and the two
\* ways of collecting leave no such reader behind.
ReadersStayInside ==
  \A r \in Readers :
    reader[r].pc \in {"scan", "next", "hit"} => reader[r].i \in DOMAIN content[reader[r].block]

\* What a hit calls is an implementation of that very selector, never a half-written
\* bucket, and one that was current at some time since the message was sent: not one
\* from before a method_setImplementation that had already returned.  The exception is
\* what shouldFlush missed because a signal hit its lookup, which only restartable
\* builds do, and that only until the cache gets other buckets.
HitIsCurrent == \A r \in Readers : reader[r].pc = "found" => reader[r].imp \in reader[r].fresh

\* The shape insert relies on: the words fit the block they point to, occupied counts
\* the used buckets, an insertion finds a slot (bad_cache is not reached), and the
\* shared empty buckets are never written nor freed.
CacheIsWellFormed ==
  /\ buckets \in DOMAIN content /\ mask \in Nat /\ garbage \subseteq Blocks
  /\ mask \in DOMAIN content[buckets] /\ buckets \notin garbage
  /\ w.pc \notin {"mask", "sel"} =>
       occupied = Cardinality({i \in 0..mask : content[buckets][i].sel \notin {0, 1}})
  /\ w.pc = "insert" => FreeSlot # {}
  /\ \A b \in Shared : content[b] # <<>> /\ \A i \in DOMAIN content[b] : content[b][i] = Empty

\* A lookup that has begun ends, even in a cache filled completely and while other
\* threads fill, grow and flush it.
LookupEnds == \A r \in Readers : Critical(r) ~> ~Critical(r)
=============================================================================
