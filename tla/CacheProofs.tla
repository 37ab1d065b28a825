----------------------------- MODULE CacheProofs -----------------------------
(***************************************************************************)
(* Proofs about MethodCache for any number of readers, selectors and heap  *)
(* blocks, every size of the caches and each kind of build.                *)
(***************************************************************************)
EXTENDS MethodCache, FiniteSetTheorems, NaturalsInduction, WellFoundedInduction, TLAPS

----------------------------------------------------------------------------
(* The inductive invariant.                                                *)

Imp == Int \X Int
Bucket == [sel : Nat, imp : Imp]
Looking == {"scan", "next", "hit"}
Reading == [pc : {"idle", "mask", "buckets", "found"} \cup Looking, sel : Nat, mask : Nat,
            block : Blocks \cup Shared \cup {NoBlock}, i : Int, wrapped : BOOLEAN, imp : Imp, fresh : SUBSET Imp]
Writing == [pc : {"idle", "buckets", "mask", "garbage", "collect", "insert", "sel"},
            op : {"none", "insert", "set", "flush", "collectALot"}, sel : Nat, imp : Imp,
            new : Blocks \cup Shared \cup {NoBlock}, size : Nat, old : Blocks \cup Shared \cup {NoBlock},
            slot : Nat, unchecked : SUBSET Readers]

TypeInv ==
  /\ build \in Builds /\ method \in [Sels -> Imp] /\ \A s \in Sels : method[s] \in Imps(s)
  /\ DOMAIN content = Blocks \cup Shared /\ content = [b \in Blocks \cup Shared |-> content[b]]
  /\ buckets \in Blocks \cup Shared /\ mask \in Nat /\ occupied \in Nat /\ garbage \subseteq Blocks
  /\ w \in Writing /\ reader \in [Readers -> Reading]

\* n buckets, the last one of them the end marker where there is one.
Sized(bs, n) ==
  /\ n \in Nat \ {0} /\ bs \in [0..(n - 1) -> Bucket]
  /\ \A i \in 0..(n - 1) : bs[i].sel = 1 <=> ~build.packed /\ i = n - 1
Used(bs) == {i \in DOMAIN bs : bs[i].sel \notin {0, 1}}
ContentInv ==
  /\ \A b \in Blocks : content[b] = <<>> \/ \E n \in Nat : Sized(content[b], n)
  /\ \A b \in Shared : content[b] = emptyBuckets(b)

\* The block that block b and a mask of n - 1 make a cache.
Holds(b, n) ==
  /\ n \in Nat \ {0} /\ n <= MAX_CACHE_SIZE
  /\ \/ b \in Blocks /\ Sized(content[b], n) /\ n >= 2
     \/ b \in Shared /\ n - 1 \in DOMAIN content[b] /\ b = emptyBucketsForCapacity(IF n = 1 THEN 0 ELSE n)

\* The fields of the cache fit together; between the two stores of setBucketsAndMask
\* the mask is that of the smaller one.
CurrentInv ==
  /\ w.pc # "mask" => Holds(buckets, mask + 1)
  /\ w.pc = "mask" => ~build.packed /\ buckets = w.new /\ mask < w.size
  /\ w.pc = "buckets" => mask < w.size /\ w.new # buckets
  /\ w.pc \in {"buckets", "mask"} => Holds(w.new, w.size) /\ Used(content[w.new]) = {} /\ w.new \notin garbage

\* What is dropped goes to the garbage once, and only blocks from the heap.
GarbageInv ==
  /\ buckets \notin garbage /\ \A b \in garbage : content[b] # <<>>
  /\ w.pc = "buckets" => w.old = buckets \/ (w.old = NoBlock /\ buckets \in Shared)
  /\ w.pc \in {"mask", "garbage"} => w.old # buckets
  /\ w.pc = "garbage" => w.old # NoBlock
  /\ w.pc \in {"buckets", "mask", "garbage"} /\ w.old # NoBlock =>
       w.old \in Blocks /\ w.old \notin garbage /\ content[w.old] # <<>>

\* occupied counts, and only heap blocks are filled.
CountInv ==
  /\ w.pc \notin {"mask", "sel"} => occupied = Cardinality(Used(content[buckets]))
  /\ w.pc = "sel" => occupied = Cardinality(Used(content[buckets])) + 1

\* The thread with the lock.
Room == \E i \in DOMAIN content[buckets] : content[buckets][i].sel = 0
WriterInv ==
  /\ w.pc = "idle" => w = Unlocked
  /\ w.op = "insert" => w.sel \in Sels /\ w.imp = method[w.sel]
  /\ w.pc \in {"insert", "sel"} => w.op = "insert" /\ buckets \in Blocks
  /\ w.pc = "insert" => Room
  /\ w.pc \in {"mask", "garbage", "collect"} /\ w.op = "insert" => Used(content[buckets]) = {} /\ buckets \in Blocks /\ Room
  /\ w.pc = "buckets" /\ w.op = "insert" => w.new \in Blocks
  /\ w.pc \in {"mask", "garbage", "collect"} /\ w.op = "set" => Used(content[buckets]) = {}
  /\ w.pc = "sel" => /\ ~build.packed /\ w.slot \in DOMAIN content[buckets]
                     /\ content[buckets][w.slot].sel = 0 /\ content[buckets][w.slot].imp = w.imp

\* What is cached is valid.
EntryInv == \A i \in Used(content[buckets]) :
  content[buckets][i].sel \in Sels /\ content[buckets][i].imp \in Valid(content[buckets][i].sel)

\* A lookup looks at a bucket of a block that is not free, and finds nothing stale there.
Inside(me) ==
  /\ me.block \in Blocks \cup Shared /\ me.i \in DOMAIN content[me.block]
  /\ build.packed => /\ me.pc = "scan" /\ me.mask \in DOMAIN content[me.block]
                     /\ me.block \in Blocks => me.mask > 0
                     /\ me.wrapped => me.i > 0
  /\ me.pc = "hit" => content[me.block][me.i].sel = me.sel
  /\ \A j \in DOMAIN content[me.block] : content[me.block][j].sel = me.sel => content[me.block][j].imp \in me.fresh
Reachable(b) == b \in Shared \cup garbage \cup {buckets} \/ (w.pc \in {"mask", "garbage"} /\ b = w.old)
Good(me) ==
  /\ me.pc # "idle" => me.sel \in Sels /\ Valid(me.sel) \subseteq me.fresh
  /\ me.pc = "idle" => me.sel = 0
  /\ me.pc = "mask" => ~me.wrapped
  /\ me.pc = "buckets" => ~build.packed /\ me.i \in 0..mask
  /\ me.pc \in Looking => Inside(me) /\ Reachable(me.block)
  /\ me.pc = "found" => me.imp \in me.fresh
ReaderInv == \A r \in Readers : Good(reader[r])

\* A thread whose program counter was sampled has not come back to the garbage.
SampleInv ==
  w.pc = "collect" => \A r \in Readers :
    r \notin w.unchecked /\ reader[r].pc \in Looking => reader[r].block \notin garbage

IndInv ==
  /\ TypeInv /\ ContentInv /\ CurrentInv /\ GarbageInv /\ CountInv
  /\ WriterInv /\ EntryInv /\ ReaderInv /\ SampleInv

----------------------------------------------------------------------------
(* Blocks.                                                                 *)

LEMMA Constants ==
  /\ Sels \subseteq Nat /\ 0 \notin Sels /\ 1 \notin Sels
  /\ EmptyCache \in Shared /\ \A c \in 1..MAX_CACHE_SIZE : EmptyBuckets[c] \in Shared /\ EmptyBuckets[c] # EmptyCache
  /\ (\A b \in Shared : b \notin Blocks /\ b # NoBlock) /\ NoBlock \notin Blocks
  /\ EMPTY_SIZE \in Nat /\ EMPTY_SIZE >= 1 /\ MAX_CACHE_SIZE \in Nat /\ MAX_CACHE_SIZE >= 4
<1>1. EmptyCache \in Shared /\ \A c \in 1..MAX_CACHE_SIZE : EmptyBuckets[c] \in Shared
  BY DEF Shared
<1> QED
  BY <1>1, MethodCacheAssumption

\* The shared buckets for a capacity are at least that many, and all unused.
LEMMA emptyBucketsIs ==
  ASSUME NEW b \in Shared
  PROVE  /\ \A i \in DOMAIN emptyBuckets(b) :
              i \in Nat /\ emptyBuckets(b)[i] = Empty /\ \A j \in 0..i : j \in DOMAIN emptyBuckets(b)
         /\ 0 \in DOMAIN emptyBuckets(b)
         /\ b = EmptyCache => \A n \in 1..EMPTY_SIZE : n - 1 \in DOMAIN emptyBuckets(b)
         /\ \A c \in 1..MAX_CACHE_SIZE : b = EmptyBuckets[c] => c - 1 \in DOMAIN emptyBuckets(b)
<1>1. CASE b = EmptyCache
  <2>1. emptyBuckets(b) = [i \in 0..(EMPTY_SIZE - 1) |-> Empty]
    BY <1>1 DEF emptyBuckets
  <2>2. \A c \in 1..MAX_CACHE_SIZE : b # EmptyBuckets[c]
    BY <1>1, Constants
  <2> QED
    BY <2>1, <2>2, Constants
<1>2. CASE b # EmptyCache
  <2> DEFINE D == {j \in 0..(MAX_CACHE_SIZE - 1) : \E c \in 1..MAX_CACHE_SIZE : j < c /\ EmptyBuckets[c] = b}
  <2>1. emptyBuckets(b) = [i \in D |-> Empty]
    BY <1>2 DEF emptyBuckets
  <2>2. PICK c \in 1..MAX_CACHE_SIZE : b = EmptyBuckets[c]
    BY <1>2 DEF Shared
  <2>3. MAX_CACHE_SIZE \in Nat /\ 0 \in D
    BY <2>2, Constants
  <2>4. \A i \in D : i \in Nat /\ \A j \in 0..i : j \in D
    BY <2>3
  <2>5. \A d \in 1..MAX_CACHE_SIZE : b = EmptyBuckets[d] => d - 1 \in D
    BY <2>3
  <2> HIDE DEF D
  <2>6. DOMAIN emptyBuckets(b) = D /\ \A i \in D : emptyBuckets(b)[i] = Empty
    BY <2>1
  <2> QED
    BY <1>2, <2>3, <2>4, <2>5, <2>6
<1> QED
  BY <1>1, <1>2

LEMMA BuildType == ASSUME IndInv PROVE build.packed \in BOOLEAN /\ build.restartable \in BOOLEAN
  BY MethodCacheAssumption DEF IndInv, TypeInv

LEMMA SharedShape ==
  ASSUME IndInv, NEW b \in Shared, NEW i \in DOMAIN content[b]
  PROVE  i \in Nat /\ content[b][i] = Empty /\ content[b][i].sel = 0 /\ (\A j \in 0..i : j \in DOMAIN content[b])
<1>1. content[b] = emptyBuckets(b)
  BY DEF IndInv, ContentInv
<1> QED
  BY <1>1, emptyBucketsIs DEF Empty

\* A bucket of a block, and those before and after it.
LEMMA BlockShape ==
  ASSUME IndInv, NEW b \in Blocks \cup Shared, NEW i \in DOMAIN content[b]
  PROVE  /\ i \in Nat /\ \A j \in 0..i : j \in DOMAIN content[b]
         /\ content[b][i] \in Bucket
         /\ b \in Shared => content[b][i].sel = 0
         /\ build.packed => content[b][i].sel # 1
         /\ ~build.packed /\ content[b][i].sel \notin {0, 1} => i + 1 \in DOMAIN content[b]
<1>1. CASE b \in Shared
  <2>1. Empty \in Bucket
    BY DEF Empty, Bucket, Imp
  <2> QED
    BY <1>1, <2>1, SharedShape
<1>2. CASE b \in Blocks
  <2>1. content[b] # <<>>
    OBVIOUS
  <2>2. PICK n \in Nat : Sized(content[b], n)
    BY <1>2, <2>1 DEF IndInv, ContentInv
  <2>3. b \notin Shared
    BY <1>2, Constants
  <2> QED
    BY <2>2, <2>3 DEF Sized
<1> QED
  BY <1>1, <1>2

\* The mask fits the buckets.
LEMMA MaskInside ==
  ASSUME IndInv
  PROVE  /\ mask \in DOMAIN content[buckets] /\ buckets \in Blocks \cup Shared /\ mask \in Nat
         /\ \A j \in 0..mask : j \in DOMAIN content[buckets]
         /\ w.pc # "mask" /\ buckets \in Blocks => mask > 0 /\ DOMAIN content[buckets] = 0..mask
<1>0. mask \in Nat /\ buckets \in Blocks \cup Shared
  BY DEF IndInv, TypeInv
<1>1. CASE w.pc # "mask"
  <2>1. Holds(buckets, mask + 1)
    BY <1>1 DEF IndInv, CurrentInv
  <2>2. buckets \in Blocks => mask > 0 /\ DOMAIN content[buckets] = 0..mask
    <3>1. buckets \in Blocks => buckets \notin Shared
      BY Constants
    <3> QED
      BY <1>0, <2>1, <3>1 DEF Holds, Sized
  <2>3. mask \in DOMAIN content[buckets]
    BY <1>0, <2>1 DEF Holds, Sized
  <2> QED
    BY <1>0, <1>1, <2>2, <2>3, BlockShape
<1>2. CASE w.pc = "mask"
  <2>1. Holds(buckets, w.size) /\ mask < w.size
    BY <1>2 DEF IndInv, CurrentInv
  <2>2. w.size - 1 \in DOMAIN content[buckets] /\ w.size \in Nat
    BY <2>1 DEF Holds, Sized
  <2>3. mask \in 0..(w.size - 1)
    BY <1>0, <2>1, <2>2
  <2>4. mask \in DOMAIN content[buckets]
    BY <1>0, <2>2, <2>3, BlockShape
  <2> QED
    BY <1>0, <1>2, <2>4, BlockShape
<1> QED
  BY <1>1, <1>2

LEMMA HashInside == ASSUME NEW s \in Nat, NEW m \in Nat PROVE cache_hash(s, m) \in 0..m
<1>1. s % (m + 1) \in 0..m
  OBVIOUS
<1> QED
  BY <1>1 DEF cache_hash

\* What is in the current buckets is no older than what a lookup may call.
LEMMA CurrentIsFresh ==
  ASSUME IndInv, NEW me, me.sel \in Sels, Valid(me.sel) \subseteq me.fresh, NEW j \in DOMAIN content[buckets],
         content[buckets][j].sel = me.sel
  PROVE  content[buckets][j].imp \in me.fresh
<1>1. j \in Used(content[buckets])
  BY Constants DEF Used
<1> QED
  BY <1>1 DEF IndInv, EntryInv

----------------------------------------------------------------------------
(* Steps of the readers.                                                   *)

LEMMA OutsideIsGood == Outside \in Reading /\ Outside.pc = "idle" /\ Outside.sel = 0
  BY DEF Outside, Reading, Imp

LEMMA ReaderMoves ==
  ASSUME IndInv, NEW r \in Readers, NEW x \in Reading, Reader(r, x), Quiet, Good(x),
         x.pc \in Looking => x.block = buckets \/ (reader[r].pc \in Looking /\ x.block = reader[r].block)
  PROVE  IndInv'
<1>0. UNCHANGED <<build, method, content, buckets, mask, occupied, garbage, w, stale>> /\ reader' = [reader EXCEPT ![r] = x]
  BY DEF Quiet, Reader, cache
<1>1. reader' \in [Readers -> Reading] /\ reader'[r] = x /\ \A u \in Readers : u # r => reader'[u] = reader[u]
  BY <1>0 DEF IndInv, TypeInv
<1>2. TypeInv'
  BY <1>0, <1>1 DEF IndInv, TypeInv
<1>3. ContentInv' /\ CountInv'
  BY <1>0 DEF IndInv, ContentInv, Sized, CountInv, Used
<1>4. CurrentInv' /\ GarbageInv'
  BY <1>0 DEF IndInv, CurrentInv, Holds, Sized, emptyBucketsForCapacity, Used, GarbageInv
<1>5. WriterInv' /\ EntryInv'
  BY <1>0 DEF IndInv, WriterInv, Room, EntryInv, Used, Valid
<1>6. ReaderInv'
  <2>1. \A me : Good(me)' <=> Good(me)
    BY <1>0 DEF Good, Inside, Reachable, Valid
  <2>2. ASSUME NEW u \in Readers
        PROVE  Good(reader'[u])
    BY <1>1 DEF IndInv, ReaderInv
  <2> QED
    BY <1>0, <2>2 DEF ReaderInv, Good, Inside, Reachable, Valid
<1>7. SampleInv'
  <2>1. ASSUME NEW u \in Readers, w.pc = "collect", u \notin w.unchecked, reader'[u].pc \in Looking
        PROVE  reader'[u].block \notin garbage
    <3>1. CASE u = r
      BY <1>1, <2>1, <3>1 DEF IndInv, SampleInv, GarbageInv
    <3>2. CASE u # r
      BY <1>1, <2>1, <3>2 DEF IndInv, SampleInv
    <3> QED
      BY <3>1, <3>2
  <2> QED
    BY <1>0, <2>1 DEF SampleInv
<1> QED
  BY <1>2, <1>3, <1>4, <1>5, <1>6, <1>7 DEF IndInv

LEMMA MissKeeps == ASSUME IndInv, NEW r \in Readers, Miss(r), Quiet PROVE IndInv'
<1>1. Good(Outside) /\ Outside.pc \notin Looking
  BY OutsideIsGood DEF Good, Looking
<1> QED
  BY <1>1, OutsideIsGood, ReaderMoves DEF Miss

LEMMA SendKeeps == ASSUME IndInv, NEW r \in Readers, Send(r) PROVE IndInv'
<1>1. PICK s \in Sels : Reader(r, [Outside EXCEPT !.pc = "mask", !.sel = s, !.fresh = Valid(s)]) /\ Quiet
  BY DEF Send
<1> DEFINE x == [Outside EXCEPT !.pc = "mask", !.sel = s, !.fresh = Valid(s)]
<1>2. Valid(s) \subseteq Imp
  <2>1. Imps(s) \subseteq Imp
    BY Constants DEF Imps, Imp
  <2> QED
    BY <2>1 DEF Valid, IndInv, TypeInv, Writing
<1>3. x \in Reading
  <2>1. s \in Nat /\ Outside \in Reading
    BY Constants, OutsideIsGood
  <2> QED
    BY <1>2, <2>1 DEF Reading
<1>4. x.pc = "mask" /\ x.sel = s /\ x.fresh = Valid(s) /\ ~x.wrapped
  BY DEF Outside
<1> HIDE DEF x
<1>5. Good(x) /\ x.pc \notin Looking
  BY <1>4 DEF Good, Looking
<1> QED
  BY <1>1, <1>3, <1>5, ReaderMoves DEF x

\* A lookup that starts in the current buckets.
LEMMA EntersBuckets ==
  ASSUME IndInv, NEW r \in Readers, NEW x \in Reading, Reader(r, x), Quiet, x.pc = "scan", x.block = buckets,
         x.sel \in Sels, Valid(x.sel) \subseteq x.fresh, x.i \in 0..mask,
         build.packed => x.mask = mask /\ ~x.wrapped
  PROVE  IndInv'
<1>1. x.i \in DOMAIN content[buckets] /\ buckets \in Blocks \cup Shared /\ mask \in DOMAIN content[buckets]
  BY MaskInside
<1>2. build.packed /\ buckets \in Blocks => mask > 0
  BY MaskInside DEF IndInv, CurrentInv
<1>3. \A j \in DOMAIN content[x.block] : content[x.block][j].sel = x.sel => content[x.block][j].imp \in x.fresh
  BY CurrentIsFresh
<1>4. Inside(x)
  BY <1>1, <1>2, <1>3 DEF Inside
<1>5. Good(x)
  BY <1>4 DEF Good, Reachable
<1> QED
  BY <1>5, ReaderMoves

LEMMA LoadMaskKeeps == ASSUME IndInv, NEW r \in Readers, LoadMask(r) PROVE IndInv'
<1> DEFINE me == reader[r]
           h == cache_hash(me.sel, mask)
<1>0. me \in Reading /\ me.pc = "mask" /\ Good(me) /\ mask \in Nat /\ buckets \in Blocks \cup Shared /\ Quiet
  BY DEF LoadMask, IndInv, TypeInv, ReaderInv
<1>1. h \in 0..mask
  BY <1>0, HashInside DEF Reading
<1>2. me.sel \in Sels /\ Valid(me.sel) \subseteq me.fresh /\ ~me.wrapped
  BY <1>0 DEF Good
<1>3. CASE build.packed
  <2> DEFINE x == [[me EXCEPT !.i = h] EXCEPT !.mask = mask, !.block = buckets, !.pc = "scan"]
  <2>1. Reader(r, x)
    BY <1>3 DEF LoadMask
  <2>2. x \in Reading
    <3>1. [me EXCEPT !.i = h] \in Reading
      BY <1>0, <1>1 DEF Reading
    <3>2. ASSUME NEW y \in Reading
          PROVE  [y EXCEPT !.mask = mask, !.block = buckets, !.pc = "scan"] \in Reading
      BY <1>0 DEF Reading, Looking
    <3> QED
      BY <3>1, <3>2
  <2>3. /\ x.pc = "scan" /\ x.i = h /\ x.mask = mask /\ x.block = buckets /\ x.sel = me.sel /\ x.fresh = me.fresh
        /\ x.wrapped = me.wrapped
    BY <1>0 DEF Reading
  <2> HIDE DEF x, h, me
  <2> QED
    BY <1>0, <1>1, <1>2, <2>1, <2>2, <2>3, EntersBuckets
<1>4. CASE ~build.packed
  <2> DEFINE x == [[me EXCEPT !.i = h] EXCEPT !.pc = "buckets"]
  <2>1. Reader(r, x)
    BY <1>4 DEF LoadMask
  <2>2. x \in Reading
    <3>1. [me EXCEPT !.i = h] \in Reading
      BY <1>0, <1>1 DEF Reading
    <3>2. ASSUME NEW y \in Reading
          PROVE  [y EXCEPT !.pc = "buckets"] \in Reading
      BY DEF Reading
    <3> QED
      BY <3>1, <3>2
  <2>3. x.pc = "buckets" /\ x.i = h /\ x.sel = me.sel /\ x.fresh = me.fresh
    BY <1>0 DEF Reading
  <2> HIDE DEF x, h, me
  <2>4. Good(x) /\ x.pc \notin Looking
    BY <1>1, <1>2, <1>4, <2>3 DEF Good, Looking
  <2> QED
    BY <1>0, <2>1, <2>2, <2>4, ReaderMoves
<1> QED
  BY <1>3, <1>4

LEMMA LoadBucketsKeeps == ASSUME IndInv, NEW r \in Readers, LoadBuckets(r) PROVE IndInv'
<1> DEFINE me == reader[r]
           x == [me EXCEPT !.block = buckets, !.pc = "scan"]
<1>0. me \in Reading /\ me.pc = "buckets" /\ Good(me) /\ buckets \in Blocks \cup Shared /\ Quiet /\ Reader(r, x)
  BY DEF LoadBuckets, IndInv, TypeInv, ReaderInv
<1>1. x \in Reading
  BY <1>0 DEF Reading, Looking
<1>2. x.pc = "scan" /\ x.i = me.i /\ x.block = buckets /\ x.sel = me.sel /\ x.fresh = me.fresh
  BY <1>0 DEF Reading
<1> HIDE DEF x, me
<1>3. x.sel \in Sels /\ Valid(x.sel) \subseteq x.fresh /\ x.i \in 0..mask /\ ~build.packed
  BY <1>0, <1>2 DEF Good
<1> QED
  BY <1>0, <1>1, <1>2, <1>3, EntersBuckets

\* A lookup that goes on to bucket i of its block.
LEMMA StaysInside ==
  ASSUME IndInv, NEW r \in Readers, reader[r].pc \in Looking, NEW x \in Reading, Reader(r, x), Quiet, x.pc \in Looking,
         x.block = reader[r].block, x.sel = reader[r].sel, x.fresh = reader[r].fresh, x.mask = reader[r].mask,
         x.i \in DOMAIN content[x.block], build.packed => x.pc = "scan" /\ (x.wrapped => x.i > 0),
         x.pc = "hit" => content[x.block][x.i].sel = x.sel
  PROVE  IndInv'
<1>1. Good(reader[r])
  BY DEF IndInv, ReaderInv
<1>2. Inside(reader[r]) /\ Reachable(reader[r].block) /\ reader[r].pc # "idle"
  BY <1>1 DEF Good, Looking
<1>3. Inside(x)
  BY <1>2 DEF Inside
<1>4. x.pc \notin {"idle", "mask", "buckets", "found"}
  BY DEF Looking
<1>5. Good(x)
  BY <1>1, <1>2, <1>3, <1>4 DEF Good
<1> QED
  BY <1>5, ReaderMoves

\* The next probe is a bucket of the block, whichever way the scan goes.
LEMMA ProbesInside ==
  ASSUME IndInv, NEW r \in Readers, reader[r].pc \in Looking, content[reader[r].block][reader[r].i].sel # 0, NEW i \in NextProbe(r)
  PROVE  /\ i \in Int /\ i \in DOMAIN content[reader[r].block]
         /\ build.packed => (reader[r].wrapped \/ Wraps(r) => i > 0)
<1> DEFINE me == reader[r]
<1>0. me \in Reading /\ Inside(me) /\ me.pc # "idle"
  BY DEF IndInv, ReaderInv, TypeInv, Good, Looking
<1>1. /\ me.block \in Blocks \cup Shared /\ me.i \in DOMAIN content[me.block] /\ me.i \in Nat
      /\ \A j \in 0..me.i : j \in DOMAIN content[me.block]
      /\ me.block \notin Shared
  BY <1>0, BlockShape DEF Inside
<1>2. CASE ~build.packed
  <2>1. i = 0 \/ (content[me.block][me.i].sel # 1 /\ i = me.i + 1)
    BY <1>2 DEF NextProbe
  <2>2. content[me.block][me.i].sel # 1 => me.i + 1 \in DOMAIN content[me.block]
    BY <1>1, <1>2, BlockShape
  <2> QED
    BY <1>1, <1>2, <2>1, <2>2
<1>3. CASE build.packed
  <2>1. me.mask \in DOMAIN content[me.block] /\ me.mask > 0 /\ (me.wrapped => me.i > 0) /\ me.mask \in Nat
    BY <1>0, <1>1, <1>3 DEF Inside, Reading
  <2>2. CASE me.wrapped
    <3>1. i = me.i - 1 /\ i \notin 0..cache_hash(me.sel, me.mask)
      BY <1>3, <2>2 DEF NextProbe
    <3>2. cache_hash(me.sel, me.mask) \in 0..me.mask
      BY <1>0, HashInside DEF Reading
    <3>3. i \in 0..me.i /\ i > 0
      BY <1>1, <2>1, <2>2, <3>1, <3>2
    <3> QED
      BY <1>1, <3>3
  <2>3. CASE ~me.wrapped
    <3>1. i = IF me.i > 0 THEN me.i - 1 ELSE me.mask
      BY <1>3, <2>3 DEF NextProbe
    <3>2. CASE me.i > 0
      <4>1. ~Wraps(r)
        BY <1>3, <3>2 DEF Wraps
      <4>2. i \in 0..me.i
        BY <1>1, <3>1, <3>2
      <4> QED
        BY <1>1, <2>3, <4>1, <4>2
    <3>3. CASE ~(me.i > 0)
      BY <2>1, <3>1, <3>3
    <3> QED
      BY <3>2, <3>3
  <2> QED
    BY <2>2, <2>3
<1> QED
  BY <1>2, <1>3

LEMMA GoOnKeeps == ASSUME IndInv, NEW r \in Readers, reader[r].pc \in Looking, GoOn(r), Quiet PROVE IndInv'
<1> DEFINE me == reader[r]
           next == IF content[me.block][me.i].sel = 0 THEN {} ELSE NextProbe(r)
<1>0. me \in Reading
  BY DEF IndInv, TypeInv
<1>1. CASE next = {}
  BY <1>1, MissKeeps DEF GoOn
<1>2. CASE next # {}
  <2>1. PICK i : i \in next
    BY <1>2
  <2>2. content[me.block][me.i].sel # 0 /\ i \in NextProbe(r)
    BY <2>1
  <2> DEFINE b == me.wrapped \/ Wraps(r)
             x == [me EXCEPT !.pc = "scan", !.i = i, !.wrapped = b]
  <2>3. Reader(r, x)
    BY <2>1 DEF GoOn
  <2>4. i \in Int /\ i \in DOMAIN content[me.block] /\ (build.packed => (b => i > 0))
    BY <2>2, ProbesInside
  <2>5. b \in BOOLEAN
    OBVIOUS
  <2> HIDE DEF b
  <2>6. x \in Reading
    BY <1>0, <2>4, <2>5 DEF Reading, Looking
  <2>7. /\ x.pc = "scan" /\ x.i = i /\ x.wrapped = b /\ x.block = me.block /\ x.sel = me.sel /\ x.fresh = me.fresh
        /\ x.mask = me.mask
    BY <1>0 DEF Reading
  <2>8. x.pc \in Looking /\ x.pc # "hit"
    BY <2>7 DEF Looking
  <2> HIDE DEF x
  <2> QED
    BY <2>3, <2>4, <2>6, <2>7, <2>8, StaysInside
<1> QED
  BY <1>1, <1>2

\* The bucket has the selector, so its implementation may be called.
LEMMA FoundKeeps ==
  ASSUME IndInv, NEW r \in Readers, reader[r].pc \in Looking, Quiet,
         content[reader[r].block][reader[r].i].sel = reader[r].sel,
         Reader(r, Found(reader[r], content[reader[r].block][reader[r].i].imp))
  PROVE  IndInv'
<1> DEFINE me == reader[r]
           imp == content[me.block][me.i].imp
           x == Found(me, imp)
<1>0. me \in Reading /\ Good(me) /\ Inside(me) /\ me.pc # "idle"
  BY DEF IndInv, ReaderInv, TypeInv, Good, Looking
<1>1. imp \in me.fresh /\ me.fresh \subseteq Imp
  BY <1>0 DEF Inside, Reading
<1>2. x \in Reading
  <2>1. Outside \in Reading /\ me.sel \in Nat /\ me.fresh \in SUBSET Imp /\ imp \in Imp
    BY <1>0, <1>1, OutsideIsGood DEF Reading
  <2> HIDE DEF imp, me
  <2>2. x = [Outside EXCEPT !.pc = "found", !.sel = me.sel, !.imp = imp, !.fresh = me.fresh]
    BY DEF Found
  <2> QED
    BY <2>1, <2>2 DEF Reading
<1>3. x.pc = "found" /\ x.sel = me.sel /\ x.imp = imp /\ x.fresh = me.fresh
  BY DEF Found, Outside
<1>4. Reader(r, x)
  OBVIOUS
<1> HIDE DEF x, imp, me
<1>5. Good(x) /\ x.pc \notin Looking
  BY <1>0, <1>1, <1>3 DEF Good, Looking
<1> QED
  BY <1>2, <1>4, <1>5, ReaderMoves

LEMMA ScanKeeps == ASSUME IndInv, NEW r \in Readers, Scan(r) PROVE IndInv'
<1> DEFINE me == reader[r]
           b == content[me.block][me.i]
<1>0. me \in Reading /\ me.pc = "scan" /\ me.pc \in Looking /\ Quiet /\ me.i \in DOMAIN content[me.block]
  BY DEF Scan, IndInv, TypeInv, Looking
<1>1. CASE b.sel = me.sel /\ build.packed
  <2>1. Reader(r, Found(me, b.imp))
    BY <1>1 DEF Scan
  <2> QED
    BY <1>0, <1>1, <2>1, FoundKeeps
<1>2. ASSUME NEW p \in {"hit", "next"}, ~build.packed, p = "hit" => b.sel = me.sel, Reader(r, [me EXCEPT !.pc = p])
      PROVE  IndInv'
  <2> DEFINE x == [me EXCEPT !.pc = p]
  <2>1. x \in Reading
    BY <1>0, <1>2 DEF Reading, Looking
  <2>2. x.pc = p /\ x.i = me.i /\ x.block = me.block /\ x.sel = me.sel /\ x.fresh = me.fresh /\ x.mask = me.mask
    BY <1>0 DEF Reading
  <2>3. x.pc \in Looking
    BY <2>2 DEF Looking
  <2>4. Reader(r, x)
    BY <1>2
  <2> HIDE DEF x
  <2> QED
    BY <1>0, <1>2, <2>1, <2>2, <2>3, <2>4, StaysInside
<1>3. CASE b.sel = me.sel /\ ~build.packed
  <2>1. Reader(r, [me EXCEPT !.pc = "hit"])
    BY <1>3 DEF Scan
  <2> QED
    BY <1>2, <1>3, <2>1
<1>4. CASE b.sel # me.sel /\ build.packed
  <2>1. GoOn(r)
    BY <1>4 DEF Scan
  <2> QED
    BY <1>0, <2>1, GoOnKeeps
<1>5. CASE b.sel # me.sel /\ ~build.packed
  <2>1. Reader(r, [me EXCEPT !.pc = "next"])
    BY <1>5 DEF Scan
  <2> QED
    BY <1>2, <1>5, <2>1
<1> QED
  BY <1>1, <1>3, <1>4, <1>5

LEMMA ReaderStepKeeps == ASSUME IndInv, NEW r \in Readers, ReaderStep(r) PROVE IndInv'
<1>1. CASE LoadMask(r) \/ LoadBuckets(r) \/ Scan(r)
  BY <1>1, LoadMaskKeeps, LoadBucketsKeeps, ScanKeeps
<1>2. CASE ScanMore(r)
  BY <1>2, GoOnKeeps DEF ScanMore, Looking
<1>3. CASE CacheHit(r)
  <2>1. reader[r].pc = "hit" /\ reader[r].pc \in Looking /\ Quiet
    BY <1>3 DEF CacheHit, Looking
  <2>2. content[reader[r].block][reader[r].i].sel = reader[r].sel
    BY <2>1 DEF IndInv, ReaderInv, Good, Inside
  <2> QED
    BY <1>3, <2>1, <2>2, FoundKeeps DEF CacheHit
<1>4. CASE CallImp(r)
  BY <1>4, MissKeeps DEF CallImp
<1> QED
  BY <1>1, <1>2, <1>3, <1>4 DEF ReaderStep

LEMMA SignalKeeps == ASSUME IndInv, NEW r \in Readers, Signal(r) PROVE IndInv'
  BY MissKeeps DEF Signal

----------------------------------------------------------------------------
(* Steps of the thread that holds runtimeLock.                             *)

\* Lookups in progress: the blocks they look at stay reachable, and change only where an
\* unused bucket gets a valid implementation.
LEMMA ReadersStay ==
  ASSUME IndInv, UNCHANGED <<build, reader>>, mask' \in Nat, mask <= mask', \A s \in Sels : Valid(s)' \subseteq Valid(s),
         \A r \in Readers : reader[r].pc \in Looking => Reachable(reader[r].block)',
         \A r \in Readers : reader[r].pc \in Looking => DOMAIN content'[reader[r].block] = DOMAIN content[reader[r].block],
         \A r \in Readers : reader[r].pc \in Looking => \A j \in DOMAIN content[reader[r].block] :
           \/ content'[reader[r].block][j] = content[reader[r].block][j]
           \/ /\ content[reader[r].block][j].sel = 0
              /\ content'[reader[r].block][j].sel \in Sels =>
                   content'[reader[r].block][j].imp \in Valid(content'[reader[r].block][j].sel)
  PROVE  ReaderInv'
<1> SUFFICES ASSUME NEW r \in Readers
             PROVE  Good(reader[r])'
  BY DEF ReaderInv
<1> DEFINE me == reader[r]
<1>0. Good(me) /\ mask \in Nat /\ me \in Reading
  BY DEF IndInv, TypeInv, ReaderInv
<1>1. me.pc # "idle" => me.sel \in Sels /\ Valid(me.sel)' \subseteq me.fresh
  BY <1>0 DEF Good
<1>2. ASSUME me.pc \in Looking
      PROVE  Inside(me)'
  <2>1. Inside(me) /\ me.sel \in Sels /\ Valid(me.sel) \subseteq me.fresh /\ me.sel # 0
    BY <1>0, <1>2, Constants DEF Good, Looking
  <2>2. DOMAIN content'[me.block] = DOMAIN content[me.block]
    BY <1>2
  <2>3. ASSUME NEW j \in DOMAIN content[me.block], content'[me.block][j].sel = me.sel
        PROVE  content'[me.block][j].imp \in me.fresh
    BY <1>2, <2>1, <2>3 DEF Inside
  <2>4. me.pc = "hit" => content'[me.block][me.i].sel = me.sel
    BY <1>2, <2>1 DEF Inside
  <2> QED
    BY <2>1, <2>2, <2>3, <2>4 DEF Inside
<1>3. me.pc = "buckets" => ~build.packed /\ me.i \in 0..mask'
  BY <1>0 DEF Good
<1> QED
  BY <1>0, <1>1, <1>2, <1>3 DEF Good

\* The same where the contents and the blocks of the cache stay.
LEMMA ReadersSee ==
  ASSUME IndInv, UNCHANGED <<build, reader, content, buckets>>, mask' \in Nat, mask <= mask',
         \A s \in Sels : Valid(s)' \subseteq Valid(s), garbage \subseteq garbage',
         w.pc \in {"mask", "garbage"} => (w'.pc \in {"mask", "garbage"} /\ w'.old = w.old) \/ w.old \in garbage' \cup {NoBlock}
  PROVE  ReaderInv'
<1>1. ASSUME NEW r \in Readers, reader[r].pc \in Looking
      PROVE  Reachable(reader[r].block)'
  <2>1. Reachable(reader[r].block) /\ reader[r].block # NoBlock
    BY <1>1, Constants DEF IndInv, ReaderInv, Good, Inside
  <2> QED
    BY <2>1 DEF Reachable
<1> QED
  BY <1>1, ReadersStay

LEMMA UnlockedIsWriting ==
  /\ Unlocked \in Writing /\ Unlocked.pc = "idle" /\ Unlocked.op = "none"
  BY DEF Unlocked, Writing, Imp

\* While the cache itself stays, the thread goes on as v.
LEMMA WriterMoves ==
  ASSUME IndInv, NEW v \in Writing, w' = v, UNCHANGED <<build, method, content, cache, reader, stale>>,
         w.pc \notin {"mask", "sel"}, v.pc \notin {"mask", "sel"},
         garbage' \subseteq Blocks, buckets \notin garbage', \A b \in garbage' : content[b] # <<>>, garbage \subseteq garbage',
         w.pc = "garbage" => w.old \in garbage',
         GarbageInv', WriterInv', SampleInv',
         w.op # "set" \/ v.op = "set" \/ Used(content[buckets]) = {},
         v.op = "set" => w.op = "set" /\ v.sel = w.sel /\ v.imp = w.imp,
         v.pc = "buckets" => mask < v.size /\ v.new # buckets /\ Holds(v.new, v.size) /\ Used(content[v.new]) = {} /\ v.new \notin garbage'
  PROVE  IndInv'
<1>0. UNCHANGED <<build, method, content, buckets, mask, occupied, reader, stale>>
  BY DEF cache
<1>1. TypeInv'
  BY <1>0 DEF IndInv, TypeInv
<1>2. ContentInv' /\ CountInv'
  BY <1>0 DEF IndInv, ContentInv, Sized, CountInv, Used
<1>3. CurrentInv'
  BY <1>0 DEF IndInv, CurrentInv, Holds, Sized, emptyBucketsForCapacity, Used
<1>4. \A s \in Sels : Valid(s)' \subseteq Valid(s)
  BY <1>0 DEF Valid
<1>5. EntryInv'
  <2>1. Used(content[buckets])' = Used(content[buckets])
    BY <1>0 DEF Used
  <2>2. CASE Used(content[buckets]) = {}
    BY <2>1, <2>2 DEF EntryInv
  <2>3. CASE w.op # "set" \/ v.op = "set"
    <3>1. \A s \in Sels : Valid(s)' = Valid(s)
      BY <1>0, <2>3 DEF Valid
    <3> QED
      BY <1>0, <2>1, <3>1 DEF IndInv, EntryInv
  <2> QED
    BY <2>2, <2>3
<1>6. ReaderInv'
  <2>1. mask' \in Nat /\ mask <= mask'
    BY <1>0 DEF IndInv, TypeInv
  <2> QED
    BY <1>0, <1>4, <2>1, ReadersSee
<1> QED
  BY <1>1, <1>2, <1>3, <1>5, <1>6 DEF IndInv

\* The buckets of the cache, where no store is under way.
LEMMA Settled ==
  ASSUME IndInv, w.pc \notin {"mask", "sel"}
  PROVE  /\ occupied = Cardinality(Used(content[buckets])) /\ IsFiniteSet(Used(content[buckets])) /\ occupied \in Nat
         /\ (occupied = 0 <=> Used(content[buckets]) = {})
         /\ capacity = IF mask = 0 THEN 0 ELSE mask + 1
         /\ buckets \in Shared => buckets = emptyBucketsForCapacity(capacity) /\ occupied = 0
         /\ buckets \in Blocks => capacity = mask + 1 /\ Sized(content[buckets], capacity) /\ mask > 0
         /\ capacity \in Nat /\ capacity <= MAX_CACHE_SIZE /\ mask \in Nat
<1>0. Holds(buckets, mask + 1) /\ mask \in Nat /\ buckets \in Blocks \cup Shared /\ occupied \in Nat
  BY DEF IndInv, TypeInv, CurrentInv
<1>1. occupied = Cardinality(Used(content[buckets]))
  BY DEF IndInv, CountInv
<1>2. IsFiniteSet(Used(content[buckets]))
  <2>1. CASE buckets \in Shared
    <3>1. Used(content[buckets]) = {}
      BY <2>1, SharedShape DEF Used
    <3> QED
      BY <3>1, FS_EmptySet
  <2>2. CASE buckets \in Blocks
    <3>1. Used(content[buckets]) \in SUBSET (0..mask)
      BY <2>2, MaskInside DEF Used
    <3>2. IsFiniteSet(0..mask)
      BY <1>0, FS_Interval
    <3> QED
      BY <3>1, <3>2, FS_Subset
  <2> QED
    BY <1>0, <2>1, <2>2
<1>3. occupied = 0 <=> Used(content[buckets]) = {}
  BY <1>1, <1>2, FS_EmptySet
<1>4. capacity = IF mask = 0 THEN 0 ELSE mask + 1
  BY DEF capacity
<1>5. capacity \in Nat /\ capacity <= MAX_CACHE_SIZE
  BY <1>0, <1>4, Constants DEF Holds
<1>6. ASSUME buckets \in Shared
      PROVE  buckets = emptyBucketsForCapacity(capacity) /\ occupied = 0
  <2>1. Used(content[buckets]) = {} /\ buckets \notin Blocks
    BY <1>6, SharedShape, Constants DEF Used
  <2>2. buckets = emptyBucketsForCapacity(IF mask + 1 = 1 THEN 0 ELSE mask + 1)
    BY <1>0, <2>1 DEF Holds
  <2>3. capacity = IF mask + 1 = 1 THEN 0 ELSE mask + 1
    BY <1>0, <1>4
  <2> QED
    BY <1>3, <2>1, <2>2, <2>3
<1>7. ASSUME buckets \in Blocks
      PROVE  capacity = mask + 1 /\ Sized(content[buckets], capacity) /\ mask > 0
  <2>1. buckets \notin Shared
    BY <1>7, Constants
  <2>2. Sized(content[buckets], mask + 1) /\ mask + 1 >= 2
    BY <1>0, <2>1 DEF Holds
  <2>3. capacity = mask + 1
    BY <1>0, <1>4, <2>2
  <2> QED
    BY <1>0, <2>2, <2>3
<1> QED
  BY <1>0, <1>1, <1>2, <1>3, <1>4, <1>5, <1>6, <1>7

\* The shared empty buckets are long enough for what they stand for.
LEMMA EmptyHolds ==
  ASSUME IndInv, NEW n \in Nat, n >= 2, n <= MAX_CACHE_SIZE
  PROVE  /\ emptyBucketsForCapacity(n) \in Shared /\ Holds(emptyBucketsForCapacity(n), n)
         /\ Used(content[emptyBucketsForCapacity(n)]) = {}
<1> DEFINE e == emptyBucketsForCapacity(n)
<1>0. n \in 1..MAX_CACHE_SIZE
  BY Constants
<1>1. e \in Shared
  BY <1>0, Constants DEF emptyBucketsForCapacity
<1>2. n - 1 \in DOMAIN content[e]
  <2>0. content[e] = emptyBuckets(e)
    BY <1>1 DEF IndInv, ContentInv
  <2>1. CASE n <= EMPTY_SIZE
    <3>1. e = EmptyCache /\ n \in 1..EMPTY_SIZE
      BY <1>0, <2>1, Constants DEF emptyBucketsForCapacity
    <3> HIDE DEF e
    <3> QED
      BY <1>1, <2>0, <3>1, emptyBucketsIs
  <2>2. CASE ~(n <= EMPTY_SIZE)
    <3>1. e = EmptyBuckets[n]
      BY <2>2 DEF emptyBucketsForCapacity
    <3> HIDE DEF e
    <3> QED
      BY <1>0, <1>1, <2>0, <3>1, emptyBucketsIs
  <2> QED
    BY <2>1, <2>2
<1>3. e = emptyBucketsForCapacity(IF n = 1 THEN 0 ELSE n)
  OBVIOUS
<1> HIDE DEF e
<1>4. Used(content[e]) = {}
  BY <1>1, SharedShape DEF Used
<1>5. Holds(e, n)
  BY <1>1, <1>2, <1>3 DEF Holds
<1> QED
  BY <1>1, <1>4, <1>5 DEF e

\* Erasing a cache that has entries.
LEMMA Erases ==
  ASSUME IndInv, w = Unlocked, occupied > 0, NEW u \in Writing, u.op \in {"set", "flush"}
  PROVE  LET v == eraseNolock(u) IN
         /\ v \in Writing /\ v.pc = "buckets" /\ v.op = u.op /\ v.sel = u.sel /\ v.imp = u.imp /\ v.old = buckets
         /\ mask < v.size /\ v.new # buckets /\ Holds(v.new, v.size) /\ Used(content[v.new]) = {} /\ v.new \notin garbage
         /\ buckets \in Blocks /\ content[buckets] # <<>>
<1> DEFINE v == eraseNolock(u)
           e == emptyBucketsForCapacity(capacity)
<1>0. w.pc = "idle"
  BY UnlockedIsWriting
<1>1. buckets \in Blocks /\ capacity = mask + 1 /\ mask > 0 /\ mask \in Nat /\ capacity \in Nat /\ capacity <= MAX_CACHE_SIZE
  <2>1. buckets \notin Shared /\ buckets \in Blocks \cup Shared
    BY <1>0, Settled DEF IndInv, TypeInv
  <2> QED
    BY <1>0, <2>1, Settled
<1>2. e \in Shared /\ Holds(e, capacity) /\ Used(content[e]) = {}
  BY <1>1, EmptyHolds
<1>3. e \notin Blocks /\ e \notin garbage /\ e # buckets
  BY <1>1, <1>2, Constants DEF IndInv, TypeInv
<1>4. v = [u EXCEPT !.pc = "buckets", !.new = e, !.size = capacity, !.old = buckets]
  BY DEF eraseNolock
<1>5. v \in Writing
  BY <1>1, <1>2, <1>4 DEF Writing
<1>6. /\ v.pc = "buckets" /\ v.new = e /\ v.size = capacity /\ v.old = buckets /\ v.op = u.op /\ v.sel = u.sel
      /\ v.imp = u.imp
  BY <1>4 DEF Writing
<1>7. content[buckets] # <<>>
  BY MaskInside
<1> HIDE DEF v, e
<1> QED
  BY <1>1, <1>2, <1>3, <1>5, <1>6, <1>7 DEF v

LEMMA flushCachesKeeps == ASSUME IndInv, flushCaches PROVE IndInv'
<1> DEFINE u == [Unlocked EXCEPT !.op = "flush"]
           v == eraseNolock(u)
<1>0. /\ w = Unlocked /\ occupied > 0 /\ w' = v /\ UNCHANGED <<build, method, content, cache, garbage, reader, stale>>
      /\ w.pc = "idle" /\ w.op = "none"
  BY UnlockedIsWriting DEF flushCaches
<1>1. u \in Writing /\ u.op = "flush"
  BY UnlockedIsWriting DEF Writing
<1> HIDE DEF u
<1>2. /\ v \in Writing /\ v.pc = "buckets" /\ v.op = "flush" /\ v.old = buckets
      /\ mask < v.size /\ v.new # buckets /\ Holds(v.new, v.size) /\ Used(content[v.new]) = {} /\ v.new \notin garbage
      /\ buckets \in Blocks /\ content[buckets] # <<>>
  BY <1>0, <1>1, Erases
<1> HIDE DEF v
<1>3. GarbageInv'
  BY <1>0, <1>2 DEF IndInv, GarbageInv, cache
<1>4. WriterInv' /\ SampleInv'
  BY <1>0, <1>2 DEF WriterInv, SampleInv
<1>5. garbage \subseteq Blocks /\ buckets \notin garbage /\ \A b \in garbage : content[b] # <<>>
  BY DEF IndInv, TypeInv, GarbageInv
<1> QED
  BY <1>0, <1>2, <1>3, <1>4, <1>5, WriterMoves

\* Collecting begins, or begins again.
LEMMA CollectKeeps ==
  ASSUME IndInv, NEW u \in Writing, w' = Collect(u), UNCHANGED <<build, method, content, cache, reader, stale>>,
         w.pc \in {"idle", "garbage", "collect"},
         (u = w /\ w.pc # "idle") \/ (w.pc = "idle" /\ u.op = "collectALot"),
         garbage' \subseteq Blocks, buckets \notin garbage', \A b \in garbage' : content[b] # <<>>, garbage \subseteq garbage',
         w.pc = "garbage" => w.old \in garbage'
  PROVE  IndInv'
<1> DEFINE v == Collect(u)
<1>1. v \in Writing
  BY DEF Collect, Writing
<1>2. v.pc = "collect" /\ v.unchecked = Readers /\ v.op = u.op /\ v.sel = u.sel /\ v.imp = u.imp
  BY DEF Collect, Writing
<1> HIDE DEF v
<1>3. w' = v
  BY DEF v
<1>4. GarbageInv' /\ SampleInv'
  BY <1>2, <1>3 DEF GarbageInv, SampleInv, cache
<1>5. WriterInv'
  BY <1>2, <1>3 DEF IndInv, WriterInv, Room, Used, cache
<1>6. w.op # "set" \/ v.op = "set"
  <2>1. w.pc = "idle" => w.op = "none"
    BY UnlockedIsWriting DEF IndInv, WriterInv
  <2> QED
    BY <1>2, <2>1
<1> QED
  BY <1>1, <1>2, <1>3, <1>4, <1>5, <1>6, WriterMoves

LEMMA collectALotKeeps == ASSUME IndInv, collectALot PROVE IndInv'
<1> DEFINE u == [Unlocked EXCEPT !.op = "collectALot"]
<1>1. u \in Writing /\ u.op = "collectALot"
  BY UnlockedIsWriting DEF Writing
<1> HIDE DEF u
<1>2. w' = Collect(u) /\ UNCHANGED <<build, method, content, cache, reader, stale>> /\ w.pc = "idle" /\ garbage' = garbage
  BY UnlockedIsWriting DEF collectALot, u
<1>3. garbage \subseteq Blocks /\ buckets \notin garbage /\ \A b \in garbage : content[b] # <<>>
  BY DEF IndInv, TypeInv, GarbageInv
<1> QED
  BY <1>1, <1>2, <1>3, CollectKeeps

LEMMA ResumeIs ==
  ASSUME NEW v \in Writing
  PROVE  /\ Resume(v) \in Writing /\ Resume(v).pc \in {"insert", "idle"}
         /\ v.op # "insert" => Resume(v) = Unlocked
         /\ v.op = "insert" => /\ Resume(v).pc = "insert" /\ Resume(v).op = "insert"
                               /\ Resume(v).sel = v.sel /\ Resume(v).imp = v.imp
<1>1. CASE v.op # "insert"
  BY <1>1, UnlockedIsWriting DEF Resume
<1>2. CASE v.op = "insert"
  <2> DEFINE x == [v EXCEPT !.pc = "insert"]
  <2>1. Resume(v) = x
    BY <1>2 DEF Resume
  <2>2. x \in Writing
    BY DEF Writing
  <2>3. x.pc = "insert" /\ x.op = v.op /\ x.sel = v.sel /\ x.imp = v.imp
    BY DEF Writing
  <2> QED
    BY <1>2, <2>1, <2>2, <2>3
<1> QED
  BY <1>1, <1>2

\* The collection is over.
LEMMA ResumeKeeps ==
  ASSUME IndInv, w.pc \in {"garbage", "collect"}, w' = Resume(w), UNCHANGED <<build, method, content, cache, reader, stale>>,
         garbage' \subseteq Blocks, buckets \notin garbage', \A b \in garbage' : content[b] # <<>>, garbage \subseteq garbage',
         w.pc = "garbage" => w.old \in garbage'
  PROVE  IndInv'
<1> DEFINE v == Resume(w)
<1>0. w \in Writing
  BY DEF IndInv, TypeInv
<1>1. /\ v \in Writing /\ v.pc \in {"insert", "idle"} /\ (w.op # "insert" => v = Unlocked)
      /\ (w.op = "insert" => v.pc = "insert" /\ v.op = "insert" /\ v.sel = w.sel /\ v.imp = w.imp)
  BY <1>0, ResumeIs
<1>2. w' = v
  OBVIOUS
<1> HIDE DEF v
<1>3. GarbageInv' /\ SampleInv'
  BY <1>1, <1>2 DEF GarbageInv, SampleInv, cache
<1>4. WriterInv'
  <2>1. CASE w.op = "insert"
    BY <1>1, <1>2, <2>1 DEF IndInv, WriterInv, Room, Used, cache
  <2>2. CASE w.op # "insert"
    BY <1>1, <1>2, <2>2, UnlockedIsWriting DEF WriterInv
  <2> QED
    BY <2>1, <2>2
<1>5. w.op # "set" \/ Used(content[buckets]) = {}
  BY DEF IndInv, WriterInv
<1>6. v.op \in {"insert", "none"}
  BY <1>1, UnlockedIsWriting
<1> QED
  BY <1>1, <1>2, <1>3, <1>4, <1>5, <1>6, WriterMoves

LEMMA collectFreeKeeps == ASSUME IndInv, collect_free PROVE IndInv'
<1>0. w.pc = "garbage" /\ garbage' = garbage \cup {w.old} /\ UNCHANGED <<build, method, content, cache, reader, stale>> /\ w \in Writing
  BY DEF collect_free, IndInv, TypeInv
<1>1. w.old \in Blocks /\ w.old # buckets /\ content[w.old] # <<>>
  BY <1>0 DEF IndInv, GarbageInv
<1>2. garbage \subseteq Blocks /\ buckets \notin garbage /\ \A b \in garbage : content[b] # <<>>
  BY DEF IndInv, TypeInv, GarbageInv
<1>3. garbage' \subseteq Blocks /\ buckets \notin garbage' /\ (\A b \in garbage' : content[b] # <<>>) /\ garbage \subseteq garbage'
  BY <1>0, <1>1, <1>2
<1>4. w.old \in garbage'
  BY <1>0
<1>5. w' = Collect(w) \/ w' = Resume(w)
  BY DEF collect_free
<1>6. CASE w' = Collect(w)
  BY <1>0, <1>3, <1>4, <1>6, CollectKeeps
<1>7. CASE w' = Resume(w)
  BY <1>0, <1>3, <1>4, <1>7, ResumeKeeps
<1> QED
  BY <1>5, <1>6, <1>7

LEMMA SampleThreadKeeps == ASSUME IndInv, NEW r \in Readers, SampleThread(r) PROVE IndInv'
<1>0. w.pc = "collect" /\ UNCHANGED <<build, method, content, cache, garbage, reader, stale>> /\ w \in Writing
  BY DEF SampleThread, IndInv, TypeInv
<1>1. garbage' \subseteq Blocks /\ buckets \notin garbage' /\ (\A b \in garbage' : content[b] # <<>>) /\ garbage \subseteq garbage'
  BY <1>0 DEF IndInv, TypeInv, GarbageInv
<1>2. CASE w' = Collect(w)
  BY <1>0, <1>1, <1>2, CollectKeeps
<1>3. CASE w' = Resume(w)
  BY <1>0, <1>1, <1>3, ResumeKeeps
<1>4. CASE ~Critical(r) /\ w' = [w EXCEPT !.unchecked = @ \ {r}]
  <2> DEFINE v == [w EXCEPT !.unchecked = @ \ {r}]
  <2>1. v \in Writing
    BY <1>0 DEF Writing
  <2>2. v.pc = "collect" /\ v.op = w.op /\ v.sel = w.sel /\ v.imp = w.imp /\ v.unchecked = w.unchecked \ {r}
    BY <1>0 DEF Writing
  <2>3. w' = v
    BY <1>4
  <2> HIDE DEF v
  <2>4. GarbageInv'
    BY <1>0, <1>1, <2>2, <2>3 DEF GarbageInv, cache
  <2>5. SampleInv'
    <3> SUFFICES ASSUME NEW q \in Readers, q \notin v.unchecked, reader[q].pc \in Looking
                 PROVE  reader[q].block \notin garbage
      BY <1>0, <2>3 DEF SampleInv
    <3>1. CASE q = r
      BY <1>4, <3>1 DEF Critical, Looking
    <3>2. CASE q # r
      BY <1>0, <2>2, <3>2 DEF IndInv, SampleInv
    <3> QED
      BY <3>1, <3>2
  <2>6. WriterInv'
    BY <1>0, <2>2, <2>3 DEF IndInv, WriterInv, Room, Used, cache
  <2> QED
    BY <1>0, <1>1, <2>1, <2>2, <2>3, <2>4, <2>5, <2>6, WriterMoves
<1> QED
  BY <1>2, <1>3, <1>4 DEF SampleThread

\* The garbage is freed when no lookup is in it.
LEMMA FreeGarbageKeeps ==
  ASSUME IndInv, w.pc = "collect", FreeGarbage, reader' \in [Readers -> Reading],
         \A r \in Readers : reader'[r] \in {reader[r], Outside},
         \A r \in Readers : reader'[r].pc \in Looking => reader'[r].block \notin garbage
  PROVE  IndInv'
<1> DEFINE v == Resume(w)
<1>0. /\ garbage' = {} /\ w' = v /\ UNCHANGED <<build, method, buckets, mask, occupied, stale>> /\ w \in Writing
      /\ content' = [b \in DOMAIN content |-> IF b \in garbage THEN <<>> ELSE content[b]]
  BY DEF FreeGarbage, cache, IndInv, TypeInv
<1>1. /\ v \in Writing /\ v.pc \in {"insert", "idle"} /\ (w.op # "insert" => v = Unlocked)
      /\ (w.op = "insert" => v.pc = "insert" /\ v.op = "insert" /\ v.sel = w.sel /\ v.imp = w.imp)
  BY <1>0, ResumeIs
<1> HIDE DEF v
<1>2. /\ DOMAIN content = Blocks \cup Shared /\ buckets \in Blocks \cup Shared /\ buckets \notin garbage
      /\ garbage \subseteq Blocks /\ mask \in Nat
  BY DEF IndInv, TypeInv, GarbageInv
<1>3. \A b \in Blocks \cup Shared : content'[b] = IF b \in garbage THEN <<>> ELSE content[b]
  BY <1>0, <1>2
<1>4. content'[buckets] = content[buckets] /\ \A b \in Shared : content'[b] = content[b]
  BY <1>2, <1>3, Constants
<1>5. TypeInv'
  <2>1. DOMAIN content' = Blocks \cup Shared /\ content' = [b \in Blocks \cup Shared |-> content'[b]]
    BY <1>0, <1>2
  <2> QED
    BY <1>0, <1>1, <2>1 DEF IndInv, TypeInv
<1>6. ContentInv'
  <2>1. ASSUME NEW b \in Blocks
        PROVE  content'[b] = <<>> \/ \E n \in Nat : Sized(content[b], n)'
    <3>1. content[b] = <<>> \/ \E n \in Nat : Sized(content[b], n)
      BY DEF IndInv, ContentInv
    <3> QED
      BY <1>0, <1>3, <3>1 DEF Sized
  <2>2. \A c \in Shared : content'[c] = content[c]
    BY <1>4
  <2> QED
    BY <2>1, <2>2 DEF IndInv, ContentInv
<1>7. Holds(buckets, mask + 1)'
  <2>1. Holds(buckets, mask + 1)
    BY DEF IndInv, CurrentInv
  <2> QED
    BY <1>0, <1>4, <2>1 DEF Holds, Sized, emptyBucketsForCapacity
<1>8. CurrentInv' /\ GarbageInv' /\ SampleInv'
  BY <1>0, <1>1, <1>7, UnlockedIsWriting DEF CurrentInv, GarbageInv, SampleInv
<1>9. CountInv'
  BY <1>0, <1>1, <1>4 DEF IndInv, CountInv, Used
<1>10. WriterInv'
  <2>1. CASE w.op = "insert"
    BY <1>0, <1>1, <1>4, <2>1 DEF IndInv, WriterInv, Room
  <2>2. CASE w.op # "insert"
    BY <1>0, <1>1, <2>2, UnlockedIsWriting DEF WriterInv
  <2> QED
    BY <2>1, <2>2
<1>11. \A s \in Sels : Valid(s)' \subseteq Valid(s) /\ (w.op # "set" => Valid(s)' = Valid(s))
  BY <1>0, <1>1, UnlockedIsWriting DEF Valid
<1>12. EntryInv'
  <2>1. w.op # "set" \/ Used(content[buckets]) = {}
    BY DEF IndInv, WriterInv
  <2>2. Used(content[buckets])' = Used(content[buckets])
    BY <1>0, <1>4 DEF Used
  <2> QED
    BY <1>0, <1>4, <1>11, <2>1, <2>2 DEF IndInv, EntryInv
<1>13. ReaderInv'
  <2> SUFFICES ASSUME NEW r \in Readers
               PROVE  Good(reader[r])'
    BY DEF ReaderInv
  <2>1. CASE reader'[r] = Outside
    BY <2>1, OutsideIsGood DEF Good, Looking
  <2>2. CASE reader'[r] = reader[r]
    <3> DEFINE me == reader[r]
    <3>1. Good(me)
      BY DEF IndInv, ReaderInv
    <3>2. me.pc # "idle" => me.sel \in Sels /\ Valid(me.sel)' \subseteq me.fresh
      BY <1>11, <2>2, <3>1 DEF Good
    <3>3. ASSUME me.pc \in Looking
          PROVE  Inside(me)' /\ Reachable(me.block)'
      <4>1. Inside(me) /\ Reachable(me.block) /\ me.block \notin garbage /\ me.block \in Blocks \cup Shared
        BY <2>2, <3>1, <3>3 DEF Good, Inside
      <4>2. content'[me.block] = content[me.block]
        BY <1>3, <4>1
      <4>3. Reachable(me.block)'
        BY <1>0, <2>2, <4>1 DEF Reachable
      <4>4. UNCHANGED me
        BY <2>2
      <4> HIDE DEF me
      <4> QED
        BY <1>0, <4>1, <4>2, <4>3, <4>4 DEF Inside
    <3>4. UNCHANGED me
      BY <2>2
    <3> HIDE DEF me
    <3>5. Good(me)'
      BY <1>0, <3>1, <3>2, <3>3, <3>4 DEF Good
    <3> QED
      BY <2>2, <3>5 DEF me
  <2> QED
    BY <2>1, <2>2
<1> QED
  BY <1>5, <1>6, <1>8, <1>9, <1>10, <1>12, <1>13 DEF IndInv

LEMMA SynchronizeKeeps == ASSUME IndInv, Synchronize PROVE IndInv'
<1>0. w.pc = "collect" /\ FreeGarbage /\ reader' = [r \in Readers |-> IF Critical(r) THEN Outside ELSE reader[r]]
  BY DEF Synchronize
<1>1. reader \in [Readers -> Reading]
  BY DEF IndInv, TypeInv
<1>2. reader' \in [Readers -> Reading] /\ \A r \in Readers : reader'[r] \in {reader[r], Outside}
  BY <1>0, <1>1, OutsideIsGood
<1>3. ASSUME NEW r \in Readers
      PROVE  reader'[r].pc \notin Looking
  BY <1>0, OutsideIsGood DEF Critical, Looking
<1> QED
  BY <1>0, <1>2, <1>3, FreeGarbageKeeps

LEMMA CollectSampledKeeps == ASSUME IndInv, CollectSampled PROVE IndInv'
<1>0. w.pc = "collect" /\ FreeGarbage /\ reader' = reader /\ w.unchecked = {}
  BY DEF CollectSampled
<1>1. reader' \in [Readers -> Reading] /\ \A r \in Readers : reader'[r].pc \in Looking => reader'[r].block \notin garbage
  BY <1>0 DEF IndInv, TypeInv, SampleInv
<1> QED
  BY <1>0, <1>1, FreeGarbageKeeps

----------------------------------------------------------------------------
(* Storing buckets and mask.                                               *)

\* Buckets without entries have room for one.
LEMMA NewHasRoom ==
  ASSUME IndInv, NEW b \in Blocks, NEW n \in Nat, Holds(b, n), Used(content[b]) = {}
  PROVE  0 \in DOMAIN content[b] /\ content[b][0].sel = 0
<1>1. Sized(content[b], n) /\ n >= 2
  BY Constants DEF Holds
<1>2. 0 \in DOMAIN content[b] /\ content[b][0].sel # 1
  BY <1>1 DEF Sized
<1> QED
  BY <1>2 DEF Used

\* Whatever is stored, the buckets that lookups are in stay reachable.
LEMMA ReadersKeepOld ==
  ASSUME IndInv, w.pc \in {"buckets", "mask"}, UNCHANGED <<build, method, content, garbage, reader>>, buckets' = w.new,
         mask' \in Nat, mask <= mask', \A s \in Sels : Valid(s)' \subseteq Valid(s),
         w.old # NoBlock => w'.pc \in {"mask", "garbage"} /\ w'.old = w.old
  PROVE  ReaderInv'
<1>1. ASSUME NEW r \in Readers, reader[r].pc \in Looking
      PROVE  Reachable(reader[r].block)'
  <2> DEFINE b == reader[r].block
  <2>1. Reachable(b) /\ b # NoBlock
    BY <1>1, Constants DEF IndInv, ReaderInv, Good, Inside
  <2>2. reader'[r].block = b
    OBVIOUS
  <2> HIDE DEF b
  <2>3. b \in Shared \cup garbage \/ b = buckets \/ (w.pc = "mask" /\ b = w.old)
    BY <2>1 DEF Reachable
  <2>4. w.pc = "buckets" => w.old = buckets \/ buckets \in Shared
    BY DEF IndInv, GarbageInv
  <2>5. w.pc = "mask" => buckets = w.new
    BY DEF IndInv, CurrentInv
  <2> QED
    BY <2>1, <2>2, <2>3, <2>4, <2>5 DEF Reachable
<1> QED
  BY <1>1, ReadersStay

\* The fields are complete: packed they are one word, otherwise the mask comes last.
LEMMA StoreCompletes ==
  ASSUME IndInv, w.pc \in {"buckets", "mask"}, w' = AfterMask(w), buckets' = w.new, mask' = w.size - 1, occupied' = 0,
         UNCHANGED <<build, method, content, garbage, reader>>, stale' \subseteq stale
  PROVE  IndInv'
<1> DEFINE v == AfterMask(w)
<1>0. w \in Writing /\ mask \in Nat
  BY DEF IndInv, TypeInv
<1>1. /\ v \in Writing /\ v.pc \in {"insert", "idle", "garbage"}
      /\ (w.old # NoBlock => v.pc = "garbage" /\ v.op = w.op /\ v.sel = w.sel /\ v.imp = w.imp /\ v.old = w.old)
      /\ (w.old = NoBlock /\ w.op # "insert" => v = Unlocked)
      /\ (w.old = NoBlock /\ w.op = "insert" => v.pc = "insert" /\ v.op = "insert" /\ v.sel = w.sel /\ v.imp = w.imp)
  <2>1. CASE w.old = NoBlock
    <3>1. v = Resume(w)
      BY <2>1 DEF AfterMask
    <3> QED
      BY <1>0, <2>1, <3>1, ResumeIs
  <2>2. CASE w.old # NoBlock
    <3> DEFINE x == [w EXCEPT !.pc = "garbage"]
    <3>1. v = x
      BY <2>2 DEF AfterMask
    <3>2. x \in Writing
      BY <1>0 DEF Writing
    <3>3. x.pc = "garbage" /\ x.op = w.op /\ x.sel = w.sel /\ x.imp = w.imp /\ x.old = w.old
      BY <1>0 DEF Writing
    <3> QED
      BY <2>2, <3>1, <3>2, <3>3
  <2> QED
    BY <2>1, <2>2
<1>2. w' = v
  OBVIOUS
<1> HIDE DEF v
<1>3. /\ Holds(w.new, w.size) /\ Used(content[w.new]) = {} /\ w.new \notin garbage /\ mask < w.size
      /\ w.size \in Nat \ {0} /\ w.new \in Blocks \cup Shared
  BY DEF IndInv, CurrentInv, Holds
<1>4. mask' \in Nat /\ mask <= mask' /\ mask' + 1 = w.size
  BY <1>0, <1>3
<1>5. Used(content[buckets])' = {}
  BY <1>3 DEF Used
<1>6. TypeInv'
  BY <1>1, <1>2, <1>3, <1>4 DEF IndInv, TypeInv
<1>7. ContentInv'
  BY DEF IndInv, ContentInv, Sized
<1>8. CurrentInv'
  <2>1. Holds(buckets, mask + 1)'
    BY <1>3, <1>4 DEF Holds, Sized, emptyBucketsForCapacity
  <2> QED
    BY <1>1, <1>2, <2>1 DEF CurrentInv
<1>9. GarbageInv'
  <2>1. w.old # NoBlock => w.old \in Blocks /\ w.old \notin garbage /\ content[w.old] # <<>>
    BY DEF IndInv, GarbageInv
  <2>2. w.old # NoBlock => w.old # w.new
    BY DEF IndInv, GarbageInv, CurrentInv
  <2>3. \A b \in garbage : content[b] # <<>>
    BY DEF IndInv, GarbageInv
  <2>4. w'.pc = "garbage" => w.old # NoBlock /\ w'.old = w.old
    BY <1>1, <1>2, UnlockedIsWriting
  <2> QED
    BY <1>1, <1>2, <1>3, <2>1, <2>2, <2>3, <2>4 DEF GarbageInv
<1>10. CountInv'
  BY <1>1, <1>2, <1>5, FS_EmptySet DEF CountInv
<1>11. WriterInv'
  <2>1. w.op = "insert" => w.new \in Blocks /\ w.sel \in Sels /\ w.imp = method[w.sel]
    BY DEF IndInv, WriterInv, CurrentInv
  <2>2. w.op = "insert" => Room'
    <3>1. w.op = "insert" => 0 \in DOMAIN content[w.new] /\ content[w.new][0].sel = 0
      BY <1>3, <2>1, NewHasRoom
    <3> QED
      BY <3>1 DEF Room
  <2>3. CASE w.op = "insert"
    BY <1>1, <1>2, <1>5, <2>1, <2>2, <2>3 DEF WriterInv
  <2>4. CASE w.op # "insert"
    BY <1>1, <1>2, <1>5, <2>4, UnlockedIsWriting DEF WriterInv
  <2> QED
    BY <2>3, <2>4
<1>12. EntryInv'
  BY <1>5 DEF EntryInv
<1>13. ReaderInv'
  <2>1. \A s \in Sels : Valid(s)' \subseteq Valid(s)
    BY <1>1, <1>2, UnlockedIsWriting DEF Valid
  <2> QED
    BY <1>1, <1>2, <1>4, <2>1, ReadersKeepOld
<1>14. SampleInv'
  BY <1>1, <1>2 DEF SampleInv
<1> QED
  BY <1>6, <1>7, <1>8, <1>9, <1>10, <1>11, <1>12, <1>13, <1>14 DEF IndInv

LEMMA StoreMaskKeeps == ASSUME IndInv, StoreMask PROVE IndInv'
<1>1. buckets' = w.new
  BY DEF StoreMask, IndInv, CurrentInv
<1> QED
  BY <1>1, StoreCompletes DEF StoreMask

\* The buckets are stored and the mask is not yet.
LEMMA StoreBucketsKeeps == ASSUME IndInv, StoreBuckets PROVE IndInv'
<1>0. w.pc = "buckets" /\ buckets' = w.new /\ UNCHANGED <<build, method, content, garbage, reader>> /\ stale' = {} /\ w \in Writing
  BY DEF StoreBuckets, IndInv, TypeInv
<1>1. CASE build.packed
  BY <1>0, <1>1, StoreCompletes DEF StoreBuckets
<1>2. CASE ~build.packed
  <2> DEFINE v == [w EXCEPT !.pc = "mask"]
  <2>0. w' = v /\ UNCHANGED <<mask, occupied>>
    BY <1>2 DEF StoreBuckets
  <2>1. v \in Writing
    BY <1>0 DEF Writing
  <2>2. /\ v.pc = "mask" /\ v.op = w.op /\ v.sel = w.sel /\ v.imp = w.imp /\ v.old = w.old /\ v.new = w.new
        /\ v.size = w.size
    BY <1>0 DEF Writing
  <2> HIDE DEF v
  <2>3. /\ Holds(w.new, w.size) /\ Used(content[w.new]) = {} /\ w.new \notin garbage /\ mask < w.size
        /\ w.size \in Nat \ {0} /\ w.new \in Blocks \cup Shared /\ w.new # buckets
    BY <1>0 DEF IndInv, CurrentInv, Holds
  <2>4. Used(content[buckets])' = {}
    BY <1>0, <2>3 DEF Used
  <2>5. TypeInv'
    BY <1>0, <2>0, <2>1, <2>3 DEF IndInv, TypeInv
  <2>6. ContentInv'
    BY <1>0 DEF IndInv, ContentInv, Sized
  <2>7. CurrentInv'
    <3>1. Holds(w.new, w.size)'
      BY <1>0, <2>0, <2>2, <2>3 DEF Holds, Sized, emptyBucketsForCapacity
    <3> QED
      BY <1>0, <1>2, <2>0, <2>2, <2>3, <3>1 DEF CurrentInv, Used
  <2>8. GarbageInv'
    <3>1. w.old # NoBlock => w.old \in Blocks /\ w.old \notin garbage /\ content[w.old] # <<>> /\ w.old # w.new
      BY <1>0, <2>3 DEF IndInv, GarbageInv
    <3>2. \A b \in garbage : content[b] # <<>>
      BY DEF IndInv, GarbageInv
    <3>3. w.new # NoBlock
      BY <2>3, Constants
    <3> QED
      BY <1>0, <2>0, <2>2, <2>3, <3>1, <3>2, <3>3 DEF GarbageInv
  <2>9. CountInv' /\ SampleInv'
    BY <2>0, <2>2 DEF CountInv, SampleInv
  <2>10. WriterInv'
    <3>1. w.op = "insert" => w.new \in Blocks /\ w.sel \in Sels /\ w.imp = method[w.sel]
      BY <1>0 DEF IndInv, WriterInv
    <3>2. w.op = "insert" => 0 \in DOMAIN content[w.new] /\ content[w.new][0].sel = 0
      BY <2>3, <3>1, NewHasRoom
    <3>3. w.op = "insert" => Room'
      BY <1>0, <3>2 DEF Room
    <3> QED
      BY <1>0, <2>0, <2>2, <2>4, <3>1, <3>3 DEF WriterInv
  <2>11. EntryInv'
    BY <2>4 DEF EntryInv
  <2>12. ReaderInv'
    <3>1. \A s \in Sels : Valid(s)' \subseteq Valid(s)
      BY <1>0, <2>0, <2>2 DEF Valid
    <3>2. mask' \in Nat /\ mask <= mask'
      BY <2>0 DEF IndInv, TypeInv
    <3> QED
      BY <1>0, <2>0, <2>2, <3>1, <3>2, ReadersKeepOld
  <2> QED
    BY <2>5, <2>6, <2>7, <2>8, <2>9, <2>10, <2>11, <2>12 DEF IndInv
<1> QED
  BY <1>1, <1>2, BuildType

----------------------------------------------------------------------------
(* Filling the cache.                                                      *)

\* One of finitely many has the least value.
LEMMA LeastExists ==
  ASSUME NEW L, IsFiniteSet(L), L # {}, NEW f \in [L -> Nat]
  PROVE  \E t \in L : \A u \in L : f[t] <= f[u]
<1> DEFINE Below(t) == {u \in L : f[u] < f[t]}
           F == {Below(t) : t \in L}
<1>1. IsWellFoundedOn(StrictSubsetOrdering(L), SUBSET L)
  BY FS_StrictSubsetOrderingWellFounded, FS_FiniteSubsetsOfFinite
<1>2. F \subseteq SUBSET L /\ F # {}
  <2>1. PICK t \in L : TRUE
    OBVIOUS
  <2>2. Below(t) \in F
    BY <2>1
  <2>3. F \subseteq SUBSET L
    OBVIOUS
  <2> QED
    BY <2>2, <2>3
<1>3. PICK S \in F : \A R \in F : ~(<<R, S>> \in StrictSubsetOrdering(L))
  <2> HIDE DEF F
  <2> QED
    BY <1>1, <1>2, WFMin
<1>4. PICK t \in L : S = Below(t)
  OBVIOUS
<1>5. ASSUME NEW u \in L, f[u] < f[t]
      PROVE  FALSE
  <2>1. \A v \in L : f[v] \in Nat
    OBVIOUS
  <2>2. Below(u) \subseteq Below(t)
    BY <1>5, <2>1
  <2>3. u \in Below(t) /\ u \notin Below(u)
    BY <1>5, <2>1
  <2>4. <<Below(u), Below(t)>> \in StrictSubsetOrdering(L)
    <3>1. Below(u) \in SUBSET L /\ Below(t) \in SUBSET L
      OBVIOUS
    <3>2. Below(u) # Below(t)
      BY <2>3
    <3> HIDE DEF Below
    <3> QED
      BY <2>2, <3>1, <3>2 DEF StrictSubsetOrdering
  <2> QED
    BY <1>3, <1>4, <2>4
<1>6. \A u \in L : f[u] \in Nat
  OBVIOUS
<1> QED
  BY <1>5, <1>6

\* The search of insert ends at a bucket of the cache.
LEMMA FreeSlotExists ==
  ASSUME IndInv, w.pc = "insert"
  PROVE  /\ FreeSlot # {}
         /\ \A i \in FreeSlot : i \in DOMAIN content[buckets] /\ content[buckets][i].sel \in {0, w.sel}
<1> DEFINE Suits(i) == content[buckets][i].sel \in {0, w.sel}
           L == {i \in 0..mask : Suits(i)}
           begin == cache_hash(w.sel, mask)
           f == [i \in L |-> cache_next(begin, i, mask)]
<1>1. mask \in Nat /\ buckets \in Blocks /\ Room /\ w.sel \in Nat /\ DOMAIN content[buckets] = 0..mask
  BY MaskInside, Constants DEF IndInv, WriterInv, TypeInv
<1>2. IsFiniteSet(L)
  <2>1. IsFiniteSet(0..mask) /\ L \in SUBSET (0..mask)
    BY <1>1, FS_Interval
  <2> QED
    BY <2>1, FS_Subset
<1>3. L # {}
  BY <1>1 DEF Room
<1>4. begin \in Int
  <2>1. cache_hash(w.sel, mask) \in 0..mask
    BY <1>1, HashInside
  <2> QED
    BY <1>1, <2>1
<1>5. \A i \in L : cache_next(begin, i, mask) \in Nat
  <2> SUFFICES ASSUME NEW i \in L
               PROVE  cache_next(begin, i, mask) \in Nat
    OBVIOUS
  <2>1. i \in Int
    OBVIOUS
  <2> HIDE DEF begin, L
  <2>2. ASSUME NEW k \in Int PROVE k % (mask + 1) \in Nat
    BY <1>1
  <2>3. (begin - i) % (mask + 1) \in Nat /\ (i - begin) % (mask + 1) \in Nat
    BY <1>4, <2>1, <2>2
  <2> QED
    BY <2>3 DEF cache_next
<1>6. f \in [L -> Nat]
  <2> HIDE DEF L, begin
  <2> QED
    BY <1>5
<1>7. PICK t \in L : \A u \in L : f[t] <= f[u]
  <2> HIDE DEF L, f
  <2> QED
    BY <1>2, <1>3, <1>6, LeastExists
<1>8. t \in FreeSlot
  BY <1>7 DEF FreeSlot
<1>9. \A i \in FreeSlot : i \in 0..mask /\ Suits(i)
  BY DEF FreeSlot
<1> QED
  BY <1>1, <1>8, <1>9

\* A cache that need not grow has an unused bucket, the end marker not counted.
LEMMA FitsMeansRoom ==
  ASSUME IndInv, w.pc \notin {"mask", "sel"}, buckets \in Blocks, Fits(occupied + 1)
  PROVE  Room
<1> SUFFICES ASSUME ~Room
             PROVE  FALSE
  OBVIOUS
<1> DEFINE bs == content[buckets]
<1>1. /\ capacity = mask + 1 /\ Sized(bs, capacity) /\ capacity \in Nat /\ mask > 0 /\ mask \in Nat
      /\ occupied = Cardinality(Used(bs)) /\ occupied \in Nat
  BY Settled
<1>2. DOMAIN bs = 0..mask /\ \A i \in 0..mask : bs[i].sel # 0 /\ (bs[i].sel = 1 <=> ~build.packed /\ i = mask)
  BY <1>1 DEF Room, Sized
<1>3. CASE build.packed
  <2>1. Used(bs) = 0..mask
    BY <1>2, <1>3 DEF Used
  <2>2. occupied = capacity
    BY <1>1, <2>1, FS_Interval
  <2>3. occupied + 1 + 0 <= (capacity * 7) \div 8 \/ occupied + 1 + 0 <= capacity
    BY <1>3 DEF Fits, Marker, cache_fill_ratio
  <2> HIDE DEF bs
  <2> QED
    BY <1>1, <2>2, <2>3
<1>4. CASE ~build.packed
  <2>1. Used(bs) = 0..(mask - 1)
    BY <1>1, <1>2, <1>4 DEF Used
  <2>2. occupied = mask
    <3>1. Cardinality(0..(mask - 1)) = mask
      BY <1>1, FS_Interval
    <3> QED
      BY <1>1, <2>1, <3>1
  <2>3. occupied + 1 + 1 <= (capacity * 3) \div 4
    BY <1>4 DEF Fits, Marker, cache_fill_ratio
  <2> HIDE DEF bs
  <2> QED
    BY <1>1, <2>2, <2>3
<1> QED
  BY <1>3, <1>4

LEMMA allocateBucketsIs ==
  ASSUME IndInv, NEW n \in Nat, n >= 2
  PROVE  Sized(allocateBuckets(n), n) /\ Used(allocateBuckets(n)) = {} /\ allocateBuckets(n) # <<>>
<1> DEFINE bs == allocateBuckets(n)
<1>1. bs = [i \in 0..(n - 1) |-> IF i = n - 1 /\ ~build.packed THEN EndMarker ELSE Empty]
  BY DEF allocateBuckets
<1>2. Empty \in Bucket /\ EndMarker \in Bucket /\ Empty.sel = 0 /\ EndMarker.sel = 1
  BY DEF Empty, EndMarker, Bucket, Imp
<1>3. bs \in [0..(n - 1) -> Bucket]
  BY <1>1, <1>2
<1>4. \A i \in 0..(n - 1) : bs[i].sel \in {0, 1} /\ (bs[i].sel = 1 <=> ~build.packed /\ i = n - 1)
  BY <1>1, <1>2
<1>5. 0 \in DOMAIN bs
  BY <1>3
<1> HIDE DEF bs
<1>6. Sized(bs, n) /\ Used(bs) = {} /\ bs # <<>>
  BY <1>3, <1>4, <1>5 DEF Sized, Used
<1> QED
  BY <1>6 DEF bs

\* insert gets itself new buckets.
LEMMA ReallocateKeeps ==
  ASSUME IndInv, w = Unlocked, NEW s \in Sels, NEW size \in Nat, size > mask, size >= 2, size <= MAX_CACHE_SIZE,
         NEW b \in Blocks, content[b] = <<>>, content' = [content EXCEPT ![b] = allocateBuckets(size)],
         NEW old \in {buckets, NoBlock}, old = NoBlock => buckets \in Shared, old = buckets => buckets \in Blocks,
         w' = [[Unlocked EXCEPT !.op = "insert", !.sel = s, !.imp = method[s]]
                 EXCEPT !.pc = "buckets", !.new = b, !.size = size, !.old = old],
         UNCHANGED <<build, method, buckets, mask, occupied, garbage, reader, stale>>
  PROVE  IndInv'
<1> DEFINE new == allocateBuckets(size)
<1>0. /\ DOMAIN content = Blocks \cup Shared /\ buckets \in Blocks \cup Shared /\ mask \in Nat /\ method[s] \in Imp
      /\ content = [c \in Blocks \cup Shared |-> content[c]]
  BY DEF IndInv, TypeInv
<1>1. w' \in Writing
  <2> DEFINE y == [Unlocked EXCEPT !.op = "insert", !.sel = s, !.imp = method[s]]
  <2>1. y \in Writing
    <3>1. s \in Nat
      BY Constants
    <3> QED
      BY <1>0, <3>1, UnlockedIsWriting DEF Writing
  <2> HIDE DEF y
  <2>2. [y EXCEPT !.pc = "buckets", !.new = b, !.size = size, !.old = old] \in Writing
    BY <1>0, <2>1 DEF Writing
  <2> QED
    BY <2>2 DEF y
<1>2. /\ w'.pc = "buckets" /\ w'.op = "insert" /\ w'.sel = s /\ w'.imp = method[s] /\ w'.new = b /\ w'.size = size
      /\ w'.old = old
  BY DEF Unlocked
<1>3. Sized(new, size) /\ Used(new) = {} /\ new # <<>>
  BY allocateBucketsIs
<1> HIDE DEF new
<1>4. content'[b] = new /\ (\A c \in Blocks \cup Shared : c # b => content'[c] = content[c]) /\ DOMAIN content' = Blocks \cup Shared
  BY <1>0 DEF new
<1>5. b # buckets /\ b \notin Shared /\ b \notin garbage
  BY MaskInside, Constants DEF IndInv, GarbageInv
<1>6. content'[buckets] = content[buckets] /\ \A c \in Shared : content'[c] = content[c]
  BY <1>0, <1>4, <1>5
<1>7. w.pc = "idle" /\ w.op = "none"
  BY UnlockedIsWriting
<1>8. TypeInv'
  <2>1. content' = [c \in Blocks \cup Shared |-> content'[c]]
    BY <1>0
  <2> QED
    BY <1>1, <1>4, <2>1 DEF IndInv, TypeInv
<1>9. ContentInv'
  <2>1. ASSUME NEW c \in Blocks
        PROVE  (content[c] = <<>> \/ \E n \in Nat : Sized(content[c], n))'
    <3>1. CASE c = b
      BY <1>3, <1>4, <3>1 DEF Sized
    <3>2. CASE c # b
      <4>1. content[c] = <<>> \/ \E n \in Nat : Sized(content[c], n)
        BY DEF IndInv, ContentInv
      <4>2. content'[c] = content[c]
        BY <1>4, <3>2
      <4> QED
        BY <4>1, <4>2 DEF Sized
    <3> QED
      BY <3>1, <3>2
  <2>2. \A c \in Shared : content'[c] = content[c]
    BY <1>6
  <2> QED
    BY <2>1, <2>2 DEF IndInv, ContentInv
<1>10. CurrentInv'
  <2>1. Holds(buckets, mask + 1)
    BY <1>7 DEF IndInv, CurrentInv
  <2>2. Holds(buckets, mask + 1)'
    BY <1>6, <2>1 DEF Holds, Sized, emptyBucketsForCapacity
  <2>3. Holds(b, size)'
    BY <1>3, <1>4 DEF Holds, Sized
  <2>4. Used(content[b])' = {}
    BY <1>3, <1>4 DEF Used
  <2> QED
    BY <1>2, <1>5, <2>2, <2>3, <2>4 DEF CurrentInv
<1>11. GarbageInv'
  <2>1. buckets \notin garbage /\ garbage \subseteq Blocks /\ \A c \in garbage : content[c] # <<>>
    BY DEF IndInv, TypeInv, GarbageInv
  <2>2. \A c \in garbage : content'[c] # <<>>
    BY <1>4, <1>5, <2>1
  <2>3. content'[buckets] # <<>>
    BY <1>6, MaskInside
  <2> QED
    BY <1>2, <2>1, <2>2, <2>3 DEF GarbageInv
<1>12. CountInv' /\ EntryInv'
  <2>1. Used(content[buckets])' = Used(content[buckets])
    BY <1>6 DEF Used
  <2>2. \A t \in Sels : Valid(t)' = Valid(t)
    BY <1>2, <1>7 DEF Valid
  <2>3. EntryInv'
    BY <1>6, <2>1, <2>2 DEF IndInv, EntryInv
  <2>4. CountInv'
    BY <1>2, <1>7, <2>1 DEF IndInv, CountInv
  <2> QED
    BY <2>3, <2>4
<1>13. WriterInv' /\ SampleInv'
  BY <1>2 DEF WriterInv, SampleInv
<1>14. ReaderInv'
  <2>1. ASSUME NEW r \in Readers, reader[r].pc \in Looking
        PROVE  Reachable(reader[r].block)' /\ content'[reader[r].block] = content[reader[r].block]
    <3>1. Reachable(reader[r].block) /\ reader[r].block \in Blocks \cup Shared /\ reader[r].i \in DOMAIN content[reader[r].block]
      BY <2>1 DEF IndInv, ReaderInv, Good, Inside
    <3>2. reader[r].block # b
      BY <3>1
    <3> QED
      BY <1>4, <1>7, <3>1, <3>2 DEF Reachable
  <2>2. \A t \in Sels : Valid(t)' \subseteq Valid(t)
    BY <1>2, <1>7 DEF Valid
  <2>3. mask' \in Nat /\ mask <= mask'
    BY <1>0
  <2> QED
    BY <2>1, <2>2, <2>3, ReadersStay
<1> QED
  BY <1>8, <1>9, <1>10, <1>11, <1>12, <1>13, <1>14 DEF IndInv

LEMMA insertKeeps == ASSUME IndInv, NEW s \in Sels, insert(s) PROVE IndInv'
<1> DEFINE v == [Unlocked EXCEPT !.op = "insert", !.sel = s, !.imp = method[s]]
<1>0. /\ w = Unlocked /\ w.pc = "idle" /\ w.op = "none" /\ UNCHANGED <<build, method, buckets, mask, occupied, garbage, reader, stale>>
      /\ buckets \in Blocks \cup Shared /\ mask \in Nat /\ capacity \in Nat /\ capacity <= MAX_CACHE_SIZE
      /\ capacity = IF mask = 0 THEN 0 ELSE mask + 1
  BY UnlockedIsWriting, Settled DEF insert, cache, IndInv, TypeInv
<1>1. INIT_CACHE_SIZE \in Nat /\ INIT_CACHE_SIZE >= 2 /\ INIT_CACHE_SIZE <= MAX_CACHE_SIZE
  BY Constants DEF INIT_CACHE_SIZE
<1>2. isConstantEmptyCache <=> buckets \in Shared
  BY <1>0, Settled, Constants DEF isConstantEmptyCache, emptyBucketsForCapacity
<1>3. CASE isConstantEmptyCache
  <2> DEFINE size == IF capacity = 0 THEN INIT_CACHE_SIZE ELSE capacity
  <2>1. reallocate(v, size, FALSE)
    BY <1>3 DEF insert
  <2>2. size \in Nat /\ size > mask /\ size >= 2 /\ size <= MAX_CACHE_SIZE
    BY <1>0, <1>1
  <2> HIDE DEF size
  <2>3. PICK b \in Blocks : /\ content[b] = <<>> /\ content' = [content EXCEPT ![b] = allocateBuckets(size)]
                            /\ w' = [v EXCEPT !.pc = "buckets", !.new = b, !.size = size, !.old = NoBlock]
    BY <2>1 DEF reallocate
  <2>4. buckets \in Shared /\ buckets # NoBlock
    BY <1>2, <1>3, Constants
  <2> QED
    BY <1>0, <2>2, <2>3, <2>4, ReallocateKeeps
<1>4. CASE ~isConstantEmptyCache /\ ~Fits(occupied + 1)
  <2>1. reallocate(v, Grown, TRUE)
    BY <1>4 DEF insert
  <2>2. buckets \in Blocks /\ mask > 0 /\ capacity = mask + 1 /\ buckets # NoBlock
    BY <1>0, <1>2, <1>4, Settled, Constants
  <2>3. Grown \in Nat /\ Grown > mask /\ Grown >= 2 /\ Grown <= MAX_CACHE_SIZE
    <3>1. Grown = IF 2 * capacity > MAX_CACHE_SIZE THEN MAX_CACHE_SIZE ELSE 2 * capacity
      BY <1>0, <2>2 DEF Grown
    <3>2. CASE 2 * capacity > MAX_CACHE_SIZE
      BY <1>0, <2>2, <3>1, <3>2, Constants
    <3>3. CASE ~(2 * capacity > MAX_CACHE_SIZE)
      BY <1>0, <2>2, <3>1, <3>3, Constants
    <3> QED
      BY <3>2, <3>3
  <2>4. PICK b \in Blocks : /\ content[b] = <<>> /\ content' = [content EXCEPT ![b] = allocateBuckets(Grown)]
                            /\ w' = [v EXCEPT !.pc = "buckets", !.new = b, !.size = Grown, !.old = buckets]
    BY <2>1 DEF reallocate
  <2> QED
    BY <1>0, <2>2, <2>3, <2>4, ReallocateKeeps
<1>5. CASE ~isConstantEmptyCache /\ Fits(occupied + 1)
  <2>1. w' = Resume(v) /\ content' = content
    BY <1>5 DEF insert
  <2>2. buckets \in Blocks /\ Room
    BY <1>0, <1>2, <1>5, FitsMeansRoom
  <2>3. v \in Writing
    <3>1. s \in Nat /\ method[s] \in Imp
      BY Constants DEF IndInv, TypeInv
    <3> QED
      BY <3>1, UnlockedIsWriting DEF Writing
  <2>4. v.op = "insert" /\ v.sel = s /\ v.imp = method[s]
    BY DEF Unlocked
  <2> HIDE DEF v
  <2> DEFINE x == Resume(v)
  <2>5. x \in Writing /\ x.pc = "insert" /\ x.op = "insert" /\ x.sel = s /\ x.imp = method[s]
    BY <2>3, <2>4, ResumeIs
  <2>6. w' = x
    BY <2>1
  <2> HIDE DEF x
  <2>7. garbage' \subseteq Blocks /\ buckets \notin garbage' /\ (\A b \in garbage' : content[b] # <<>>) /\ garbage \subseteq garbage'
    BY <1>0 DEF IndInv, TypeInv, GarbageInv
  <2>8. GarbageInv' /\ SampleInv'
    BY <1>0, <2>1, <2>5, <2>6, <2>7 DEF GarbageInv, SampleInv
  <2>9. Room'
    BY <1>0, <2>1, <2>2 DEF Room
  <2>10. WriterInv'
    BY <1>0, <2>1, <2>2, <2>5, <2>6, <2>9 DEF WriterInv
  <2> QED
    BY <1>0, <2>1, <2>5, <2>6, <2>7, <2>8, <2>10, WriterMoves DEF cache
<1> QED
  BY <1>3, <1>4, <1>5

LEMMA UsedIsFinite ==
  ASSUME IndInv, w.pc # "mask", buckets \in Blocks
  PROVE  IsFiniteSet(Used(content[buckets]))
<1>1. mask \in Nat /\ Used(content[buckets]) \in SUBSET (0..mask)
  BY MaskInside DEF Used
<1>2. IsFiniteSet(0..mask)
  BY <1>1, FS_Interval
<1> QED
  BY <1>1, <1>2, FS_Subset

\* A bucket that was unused is set, or half of it is.
LEMMA BucketIsSet ==
  ASSUME IndInv, w.pc \in {"insert", "sel"}, NEW i \in DOMAIN content[buckets], content[buckets][i].sel = 0,
         NEW x \in Bucket, x.sel \in {0, w.sel}, x.imp = w.imp,
         content' = [content EXCEPT ![buckets] = [content[buckets] EXCEPT ![i] = x]],
         occupied' = Cardinality(Used(content[buckets])) + 1,
         NEW v \in Writing, w' = v, (v = Unlocked /\ x.sel = w.sel) \/
           (/\ v.pc = "sel" /\ v.op = "insert" /\ v.sel = w.sel /\ v.imp = w.imp /\ v.slot = i /\ x.sel = 0
            /\ ~build.packed),
         UNCHANGED <<build, method, buckets, mask, garbage, reader, stale>>
  PROVE  IndInv'
<1>0. /\ DOMAIN content = Blocks \cup Shared /\ buckets \in Blocks /\ mask \in Nat /\ w.op = "insert"
      /\ w.sel \in Sels /\ w.imp = method[w.sel] /\ content = [c \in Blocks \cup Shared |-> content[c]]
      /\ w.sel # 0 /\ w.sel # 1
  BY Constants DEF IndInv, TypeInv, WriterInv
<1>1. PICK n \in Nat : Sized(content[buckets], n)
  BY <1>0 DEF IndInv, ContentInv
<1>2. /\ content'[buckets] = [content[buckets] EXCEPT ![i] = x] /\ DOMAIN content' = Blocks \cup Shared
      /\ \A c \in Blocks \cup Shared : c # buckets => content'[c] = content[c]
  BY <1>0
<1>3. /\ content'[buckets][i] = x /\ DOMAIN content'[buckets] = DOMAIN content[buckets]
      /\ \A j \in DOMAIN content[buckets] : j # i => content'[buckets][j] = content[buckets][j]
  BY <1>1, <1>2 DEF Sized
<1>4. ASSUME NEW m \in Nat, Sized(content[buckets], m)
      PROVE  Sized(content[buckets], m)'
  <2>1. content'[buckets] \in [0..(m - 1) -> Bucket]
    BY <1>2, <1>4 DEF Sized
  <2>2. ASSUME NEW j \in 0..(m - 1)
        PROVE  content'[buckets][j].sel = 1 <=> ~build.packed /\ j = m - 1
    BY <1>0, <1>3, <1>4 DEF Sized
  <2> QED
    BY <1>4, <2>1, <2>2 DEF Sized
<1>5. \A c \in Shared : c # buckets /\ content'[c] = content[c]
  BY <1>0, <1>2, Constants
<1>6. IsFiniteSet(Used(content[buckets]))
  BY <1>0, UsedIsFinite
<1>7. Cardinality(Used(content[buckets])) \in Nat
  BY <1>6, FS_CardinalityType
<1>8. TypeInv'
  <2>1. content' = [c \in Blocks \cup Shared |-> content'[c]]
    BY <1>0
  <2> QED
    BY <1>2, <1>7, <2>1 DEF IndInv, TypeInv
<1>9. ContentInv'
  <2>1. ASSUME NEW c \in Blocks
        PROVE  (content[c] = <<>> \/ \E m \in Nat : Sized(content[c], m))'
    <3>1. CASE c = buckets
      BY <1>1, <1>4, <3>1
    <3>2. CASE c # buckets
      <4>1. content[c] = <<>> \/ \E m \in Nat : Sized(content[c], m)
        BY DEF IndInv, ContentInv
      <4>2. content'[c] = content[c]
        BY <1>2, <3>2
      <4> QED
        BY <4>1, <4>2 DEF Sized
    <3> QED
      BY <3>1, <3>2
  <2>2. \A c \in Shared : content'[c] = content[c]
    BY <1>5
  <2> QED
    BY <2>1, <2>2 DEF IndInv, ContentInv
<1>10. CurrentInv'
  <2>1. Holds(buckets, mask + 1) /\ buckets \notin Shared
    BY <1>0, Constants DEF IndInv, CurrentInv
  <2>2. Sized(content[buckets], mask + 1) /\ mask + 1 \in Nat /\ mask + 1 >= 2 /\ mask + 1 <= MAX_CACHE_SIZE
    BY <1>0, <2>1 DEF Holds
  <2>3. Sized(content[buckets], mask + 1)'
    BY <1>4, <2>2
  <2>4. Holds(buckets, mask + 1)'
    BY <1>0, <2>2, <2>3 DEF Holds
  <2> QED
    BY <2>4, UnlockedIsWriting DEF CurrentInv
<1>11. GarbageInv' /\ SampleInv'
  <2>1. buckets \notin garbage /\ garbage \subseteq Blocks /\ \A c \in garbage : content[c] # <<>>
    BY DEF IndInv, TypeInv, GarbageInv
  <2>2. \A c \in garbage : content'[c] # <<>>
    BY <1>2, <2>1
  <2> QED
    BY <2>1, <2>2, UnlockedIsWriting DEF GarbageInv, SampleInv
<1>12. Used(content[buckets])' = IF x.sel = 0 THEN Used(content[buckets]) ELSE Used(content[buckets]) \cup {i}
  BY <1>0, <1>3 DEF Used
<1>13. CountInv'
  <2>1. CASE x.sel = 0
    <3>1. v.pc = "sel"
      BY <1>0, <2>1
    <3> QED
      BY <1>12, <2>1, <3>1 DEF CountInv
  <2>2. CASE x.sel # 0
    <3>1. v = Unlocked
      BY <2>2
    <3>2. i \notin Used(content[buckets])
      BY DEF Used
    <3>3. Cardinality(Used(content[buckets]) \cup {i}) = Cardinality(Used(content[buckets])) + 1
      BY <1>6, <3>2, FS_AddElement
    <3> QED
      BY <1>12, <2>2, <3>1, <3>3, UnlockedIsWriting DEF CountInv
  <2> QED
    BY <2>1, <2>2
<1>14. WriterInv'
  <2>1. CASE v = Unlocked
    BY <2>1, UnlockedIsWriting DEF WriterInv
  <2>2. CASE v.pc = "sel"
    <3>1. v.op = "insert" /\ v.sel = w.sel /\ v.imp = w.imp /\ v.slot = i /\ x.sel = 0 /\ ~build.packed
      BY <2>2, UnlockedIsWriting
    <3> QED
      BY <1>0, <1>3, <2>2, <3>1 DEF WriterInv
  <2> QED
    BY <2>1, <2>2
<1>15. \A t \in Sels : Valid(t)' = Valid(t)
  BY <1>0, UnlockedIsWriting DEF Valid
<1>16. EntryInv'
  <2> SUFFICES ASSUME NEW j \in Used(content[buckets])'
               PROVE  content'[buckets][j].sel \in Sels /\ content'[buckets][j].imp \in Valid(content[buckets][j].sel)'
    BY DEF EntryInv
  <2>1. CASE j = i /\ x.sel = w.sel
    <3>1. w.imp \in Valid(w.sel)
      BY <1>0 DEF Valid
    <3>2. content'[buckets][j].sel = w.sel /\ content'[buckets][j].imp = w.imp
      BY <1>3, <2>1
    <3> QED
      BY <1>0, <1>15, <3>1, <3>2
  <2>2. CASE j # i
    <3>1. j \in Used(content[buckets])
      BY <1>12, <2>2
    <3>2. content[buckets][j].sel \in Sels /\ content[buckets][j].imp \in Valid(content[buckets][j].sel)
      BY <3>1 DEF IndInv, EntryInv
    <3>3. content'[buckets][j] = content[buckets][j]
      BY <1>3, <2>2, <3>1 DEF Used
    <3> QED
      BY <1>15, <3>2, <3>3
  <2>3. j = i => x.sel = w.sel
    BY <1>0, <1>12 DEF Used
  <2> QED
    BY <2>1, <2>2, <2>3
<1>17. ReaderInv'
  <2>1. ASSUME NEW r \in Readers, reader[r].pc \in Looking
        PROVE  /\ Reachable(reader[r].block)' /\ DOMAIN content'[reader[r].block] = DOMAIN content[reader[r].block]
               /\ \A j \in DOMAIN content[reader[r].block] :
                    \/ content'[reader[r].block][j] = content[reader[r].block][j]
                    \/ /\ content[reader[r].block][j].sel = 0
                       /\ content'[reader[r].block][j].sel \in Sels =>
                            content'[reader[r].block][j].imp \in Valid(content'[reader[r].block][j].sel)
    <3>1. Reachable(reader[r].block) /\ reader[r].block \in Blocks \cup Shared
      BY <2>1 DEF IndInv, ReaderInv, Good, Inside
    <3>2. Reachable(reader[r].block)'
      BY <3>1 DEF Reachable
    <3>3. CASE reader[r].block # buckets
      BY <1>2, <3>1, <3>2, <3>3
    <3>4. CASE reader[r].block = buckets
      <4>1. x.sel \in Sels => x.imp \in Valid(x.sel)
        BY <1>0, Constants DEF Valid
      <4> QED
        BY <1>3, <3>2, <3>4, <4>1
    <3> QED
      BY <3>3, <3>4
  <2>2. mask' \in Nat /\ mask <= mask'
    BY <1>0
  <2> QED
    BY <1>15, <2>1, <2>2, ReadersStay
<1> QED
  BY <1>8, <1>9, <1>10, <1>11, <1>13, <1>14, <1>16, <1>17 DEF IndInv

LEMMA SetImpKeeps == ASSUME IndInv, SetImp PROVE IndInv'
<1>0. /\ w.pc = "insert" /\ UNCHANGED <<build, method, buckets, mask, garbage, reader, stale>> /\ w \in Writing
      /\ w.op = "insert" /\ buckets \in Blocks /\ w.sel \in Nat /\ w.imp \in Imp
      /\ content = [c \in Blocks \cup Shared |-> content[c]]
  BY Constants DEF SetImp, IndInv, TypeInv, WriterInv, Writing
<1>1. PICK i \in FreeSlot : i \in DOMAIN content[buckets] /\ content[buckets][i].sel \in {0, w.sel}
  BY <1>0, FreeSlotExists
<1>2. CASE content[buckets][i].sel = w.sel
  <2>1. w' = Unlocked /\ UNCHANGED <<content, occupied>>
    BY <1>1, <1>2 DEF SetImp
  <2>2. garbage' \subseteq Blocks /\ buckets \notin garbage' /\ (\A b \in garbage' : content[b] # <<>>) /\ garbage \subseteq garbage'
    BY <1>0 DEF IndInv, TypeInv, GarbageInv
  <2>3. GarbageInv' /\ WriterInv' /\ SampleInv'
    BY <1>0, <2>1, <2>2, UnlockedIsWriting DEF GarbageInv, WriterInv, SampleInv
  <2> QED
    BY <1>0, <2>1, <2>2, <2>3, WriterMoves, UnlockedIsWriting DEF cache
<1>3. CASE content[buckets][i].sel # w.sel
  <2> DEFINE x == [sel |-> IF build.packed THEN w.sel ELSE 0, imp |-> w.imp]
             v == IF build.packed THEN Unlocked ELSE [w EXCEPT !.pc = "sel", !.slot = i]
  <2>1. /\ occupied' = occupied + 1 /\ w' = v
        /\ content' = [content EXCEPT ![buckets] = [content[buckets] EXCEPT ![i] = x]]
    BY <1>1, <1>3 DEF SetImp
  <2>2. x \in Bucket /\ x.imp = w.imp /\ x.sel \in {0, w.sel}
    BY <1>0 DEF Bucket
  <2>3. v \in Writing /\ ((v = Unlocked /\ x.sel = w.sel) \/
           (/\ v.pc = "sel" /\ v.op = "insert" /\ v.sel = w.sel /\ v.imp = w.imp /\ v.slot = i /\ x.sel = 0
            /\ ~build.packed))
    <3>1. CASE build.packed
      BY <3>1, UnlockedIsWriting
    <3>2. CASE ~build.packed
      <4> DEFINE y == [w EXCEPT !.pc = "sel", !.slot = i]
      <4>1. i \in Nat
        BY <1>0, <1>1, BlockShape
      <4>2. y \in Writing
        BY <1>0, <4>1 DEF Writing
      <4>3. y.pc = "sel" /\ y.op = w.op /\ y.sel = w.sel /\ y.imp = w.imp /\ y.slot = i
        BY <1>0 DEF Writing
      <4>4. v = y /\ x.sel = 0
        BY <3>2
      <4> HIDE DEF v, y, x
      <4> QED
        BY <1>0, <3>2, <4>2, <4>3, <4>4
    <3> QED
      BY <3>1, <3>2
  <2>4. occupied' = Cardinality(Used(content[buckets])) + 1 /\ content[buckets][i].sel = 0
    BY <1>0, <1>1, <1>3, <2>1 DEF IndInv, CountInv
  <2> HIDE DEF x, v
  <2> QED
    BY <1>0, <1>1, <2>1, <2>2, <2>3, <2>4, BucketIsSet
<1> QED
  BY <1>2, <1>3

LEMMA SetSelKeeps == ASSUME IndInv, SetSel PROVE IndInv'
<1> DEFINE i == w.slot
           x == [content[buckets][i] EXCEPT !.sel = w.sel]
<1>0. /\ w.pc = "sel" /\ UNCHANGED <<build, method, buckets, mask, occupied, garbage, reader, stale>> /\ w' = Unlocked
      /\ content' = [content EXCEPT ![buckets] = [content[buckets] EXCEPT ![i] = x]]
  BY DEF SetSel, cache
<1>1. /\ i \in DOMAIN content[buckets] /\ content[buckets][i].sel = 0 /\ content[buckets][i].imp = w.imp
      /\ w.sel \in Nat /\ buckets \in Blocks
  BY <1>0, Constants DEF IndInv, WriterInv
<1>2. content[buckets][i] \in Bucket
  BY <1>1, BlockShape
<1>3. x \in Bucket /\ x.sel = w.sel /\ x.imp = w.imp
  BY <1>1, <1>2 DEF Bucket
<1>4. occupied' = Cardinality(Used(content[buckets])) + 1
  BY <1>0 DEF IndInv, CountInv
<1> HIDE DEF x, i
<1> QED
  BY <1>0, <1>1, <1>3, <1>4, BucketIsSet, UnlockedIsWriting

----------------------------------------------------------------------------
(* Replacing an implementation.                                            *)

\* An entry of the selector means that the cache is erased before the lock is released,
\* or that the entry is known to be stale.
LEMMA setImplementationKeeps == ASSUME IndInv, NEW s \in Replaceable, setImplementation(s) PROVE IndInv'
<1> DEFINE old == method[s]
           u == [Unlocked EXCEPT !.op = "set", !.sel = s, !.imp = old]
<1>a. PICK flush \in shouldFlush(s, old) :
        /\ w' = IF flush /\ occupied > 0 THEN eraseNolock(u) ELSE Unlocked
        /\ stale' = IF flush THEN stale ELSE stale \cup ({old} \cap cache_getImp(s))
  BY DEF setImplementation
<1> DEFINE v == IF flush /\ occupied > 0 THEN eraseNolock(u) ELSE Unlocked
<1>0. /\ w = Unlocked /\ w.pc = "idle" /\ w.op = "none" /\ method' = [method EXCEPT ![s] = Other(old)] /\ w' = v
      /\ reader' = [r \in Readers |->
           IF reader[r].sel = s THEN [reader[r] EXCEPT !.fresh = @ \cup {Other(old)}] ELSE reader[r]]
      /\ UNCHANGED <<build, content, buckets, mask, occupied, garbage>>
  BY <1>a, UnlockedIsWriting DEF setImplementation, cache
<1>1. s \in Sels /\ s \in Nat /\ s # 0 /\ old \in Imp /\ old \in Imps(s) /\ Other(old) \in Imp /\ Other(old) \in Imps(s)
  <2>1. s \in Sels /\ s \in Nat /\ s # 0 /\ old \in Imp /\ old \in Imps(s)
    BY MethodCacheAssumption DEF IndInv, TypeInv
  <2>2. Other(old) \in Imp /\ Other(old) \in Imps(s)
    BY <2>1 DEF Other, Imp, Imps
  <2> QED
    BY <2>1, <2>2
<1>2. /\ v \in Writing /\ (v = Unlocked \/ (v.pc = "buckets" /\ v.op = "set" /\ v.sel = s /\ v.imp = old /\ v.old = buckets))
      /\ (v # Unlocked => /\ mask < v.size /\ v.new # buckets /\ Holds(v.new, v.size) /\ Used(content[v.new]) = {}
                          /\ v.new \notin garbage /\ buckets \in Blocks /\ content[buckets] # <<>>)
      /\ (flush /\ occupied > 0 => v.pc = "buckets")
  <2>1. u \in Writing
    BY <1>1, UnlockedIsWriting DEF Writing
  <2>2. u.op = "set" /\ u.sel = s /\ u.imp = old
    BY DEF Unlocked
  <2> HIDE DEF u
  <2>3. CASE flush /\ occupied > 0
    <3>1. v = eraseNolock(u)
      BY <2>3
    <3> HIDE DEF v
    <3> QED
      BY <1>0, <2>1, <2>2, <2>3, <3>1, Erases
  <2>4. CASE ~(flush /\ occupied > 0)
    BY <2>4, UnlockedIsWriting
  <2> QED
    BY <2>3, <2>4
<1> HIDE DEF u, v
<1>3. /\ old \in Valid(s) /\ Valid(s)' \subseteq Valid(s) \cup {Other(old)}
      /\ \A imp \in Valid(s) : imp # old => imp \in Valid(s)'
      /\ (v # Unlocked \/ old \in stale' => old \in Valid(s)')
      /\ \A t \in Sels : t # s => Valid(t)' = Valid(t)
  <2>0. method \in [Sels -> Imp] /\ stale \subseteq stale' /\ stale' \subseteq stale \cup {old}
    BY <1>a DEF IndInv, TypeInv
  <2>1. method'[s] = Other(old) /\ \A t \in Sels : t # s => method'[t] = method[t]
    BY <1>0, <1>1, <2>0
  <2>2. \A t \in Sels : Valid(t) = {method[t]} \cup (stale \cap Imps(t))
    BY <1>0 DEF Valid
  <2>3. Valid(s)' = {Other(old)} \cup (IF v = Unlocked THEN {} ELSE {old}) \cup (stale' \cap Imps(s))
    BY <1>0, <1>2, <2>1, UnlockedIsWriting DEF Valid
  <2>4. ASSUME NEW t \in Sels, t # s
        PROVE  Valid(t)' = {method[t]} \cup (stale' \cap Imps(t)) /\ old \notin Imps(t)
    <3>1. old \notin Imps(t)
      BY <1>1, <2>4 DEF Imps
    <3> QED
      BY <1>0, <1>2, <2>1, <2>4, <3>1, UnlockedIsWriting DEF Valid
  <2>5. ASSUME NEW t \in Sels, t # s
        PROVE  Valid(t)' = Valid(t)
    <3>1. stale' \cap Imps(t) = stale \cap Imps(t)
      BY <2>0, <2>4, <2>5
    <3>2. Valid(t)' = {method[t]} \cup (stale' \cap Imps(t))
      BY <2>4, <2>5
    <3>3. Valid(t) = {method[t]} \cup (stale \cap Imps(t))
      BY <2>2
    <3> QED
      BY <3>1, <3>2, <3>3
  <2>6. Valid(s) = {old} \cup (stale \cap Imps(s))
    BY <1>1, <2>2
  <2>7. Valid(s)' \subseteq Valid(s) \cup {Other(old)}
    BY <2>0, <2>3, <2>6
  <2>8. (\A imp \in Valid(s) : imp # old => imp \in Valid(s)') /\ (v # Unlocked \/ old \in stale' => old \in Valid(s)')
    BY <1>1, <2>0, <2>3, <2>6
  <2> QED
    BY <2>5, <2>6, <2>7, <2>8
<1>4. reader \in [Readers -> Reading]
  BY DEF IndInv, TypeInv
<1>5. ASSUME NEW r \in Readers
      PROVE  /\ reader'[r] \in Reading /\ (reader[r].sel # s => reader'[r] = reader[r])
             /\ (reader[r].sel = s => /\ reader'[r] = [reader[r] EXCEPT !.fresh = reader[r].fresh \cup {Other(old)}]
                                      /\ reader'[r].fresh = reader[r].fresh \cup {Other(old)})
             /\ reader'[r].pc = reader[r].pc /\ reader'[r].sel = reader[r].sel /\ reader'[r].mask = reader[r].mask
             /\ reader'[r].block = reader[r].block /\ reader'[r].i = reader[r].i
             /\ reader'[r].wrapped = reader[r].wrapped /\ reader'[r].imp = reader[r].imp
             /\ reader[r].fresh \subseteq reader'[r].fresh
  <2>0. reader[r] \in Reading
    BY <1>4
  <2>1. CASE reader[r].sel = s
    <3> DEFINE y == [reader[r] EXCEPT !.fresh = reader[r].fresh \cup {Other(old)}]
    <3>1. reader'[r] = y
      BY <1>0, <2>1
    <3>2. y \in Reading
      BY <1>1, <2>0 DEF Reading
    <3>3. /\ y.pc = reader[r].pc /\ y.sel = reader[r].sel /\ y.mask = reader[r].mask /\ y.block = reader[r].block
          /\ y.i = reader[r].i /\ y.wrapped = reader[r].wrapped /\ y.imp = reader[r].imp
          /\ y.fresh = reader[r].fresh \cup {Other(old)}
      BY <2>0 DEF Reading
    <3> QED
      BY <2>1, <3>1, <3>2, <3>3
  <2>2. CASE reader[r].sel # s
    BY <1>0, <2>0, <2>2
  <2> QED
    BY <2>1, <2>2
<1>6. TypeInv'
  <2>1. method' \in [Sels -> Imp] /\ \A t \in Sels : method'[t] \in Imps(t)
    BY <1>0, <1>1 DEF IndInv, TypeInv
  <2>2. reader' \in [Readers -> Reading]
    BY <1>0, <1>5
  <2> QED
    BY <1>0, <1>2, <2>1, <2>2 DEF IndInv, TypeInv
<1>7. ContentInv' /\ CountInv'
  <2>1. ContentInv'
    BY <1>0 DEF IndInv, ContentInv, Sized
  <2>2. Used(content[buckets])' = Used(content[buckets]) /\ occupied' = occupied
    BY <1>0 DEF Used
  <2>3. w.pc \notin {"mask", "sel"} /\ w'.pc \notin {"mask", "sel"}
    BY <1>0, <1>2, UnlockedIsWriting
  <2>4. occupied = Cardinality(Used(content[buckets]))
    BY <2>3 DEF IndInv, CountInv
  <2> QED
    BY <2>1, <2>2, <2>3, <2>4 DEF CountInv
<1>8. CurrentInv'
  <2>1. Holds(buckets, mask + 1)
    BY <1>0 DEF IndInv, CurrentInv
  <2>2. Holds(buckets, mask + 1)'
    BY <1>0, <2>1 DEF Holds, Sized, emptyBucketsForCapacity
  <2>3. CASE v = Unlocked
    BY <1>0, <2>2, <2>3, UnlockedIsWriting DEF CurrentInv
  <2>4. CASE v # Unlocked
    <3>1. Holds(w.new, w.size)' /\ Used(content[w.new])' = {}
      BY <1>0, <1>2, <2>4 DEF Holds, Sized, emptyBucketsForCapacity, Used
    <3> QED
      BY <1>0, <1>2, <2>2, <2>4, <3>1 DEF CurrentInv
  <2> QED
    BY <2>3, <2>4
<1>9. GarbageInv'
  <2>1. buckets \notin garbage /\ \A b \in garbage : content[b] # <<>>
    BY DEF IndInv, GarbageInv
  <2> QED
    BY <1>0, <1>2, <2>1, UnlockedIsWriting DEF GarbageInv
<1>10. WriterInv' /\ SampleInv'
  BY <1>0, <1>2, UnlockedIsWriting DEF WriterInv, SampleInv
<1>11. EntryInv'
  <2> SUFFICES ASSUME NEW j \in Used(content[buckets])
               PROVE  content[buckets][j].sel \in Sels /\ content[buckets][j].imp \in Valid(content[buckets][j].sel)'
    BY <1>0 DEF EntryInv, Used
  <2> DEFINE e == content[buckets][j]
  <2>1. e.sel \in Sels /\ e.imp \in Valid(e.sel) /\ e = content'[buckets][j]
    BY <1>0 DEF IndInv, EntryInv
  <2>2. CASE e.sel # s
    BY <1>0, <1>3, <2>1, <2>2
  <2>3. CASE e.sel = s
    <3>2. occupied > 0 /\ j \in 0..mask
      <4>1. buckets \in Blocks /\ j \in DOMAIN content[buckets] /\ occupied \in Nat /\ occupied # 0
        <5>1. buckets \in Blocks \cup Shared /\ occupied # 0 /\ occupied \in Nat /\ (buckets \in Shared => occupied = 0)
          BY <1>0, Settled DEF IndInv, TypeInv
        <5> QED
          BY <5>1 DEF Used
      <4> QED
        BY <1>0, <4>1, MaskInside
    <3>3. CASE e.imp = old
      <4>1. old \in cache_getImp(s)
        BY <2>3, <3>2, <3>3 DEF cache_getImp
      <4>2. CASE flush
        BY <1>0, <1>2, <1>3, <2>1, <2>3, <3>2, <3>3, <4>2, UnlockedIsWriting
      <4>3. CASE ~flush
        BY <1>0, <1>a, <1>3, <2>1, <2>3, <3>3, <4>1, <4>3
      <4> QED
        BY <4>2, <4>3
    <3>4. CASE e.imp # old
      BY <1>0, <1>3, <2>1, <2>3, <3>4
    <3> QED
      BY <3>3, <3>4
  <2> QED
    BY <2>2, <2>3
<1>12. ReaderInv'
  <2> SUFFICES ASSUME NEW r \in Readers
               PROVE  Good(reader[r])'
    BY DEF ReaderInv
  <2> DEFINE me == reader[r]
             m2 == reader'[r]
  <2>0. Good(me) /\ me \in Reading
    BY <1>4 DEF IndInv, ReaderInv
  <2>1. ASSUME me.pc # "idle"
        PROVE  m2.sel \in Sels /\ Valid(reader[r].sel)' \subseteq m2.fresh
    <3>1. me.sel \in Sels /\ Valid(me.sel) \subseteq me.fresh
      BY <2>0, <2>1 DEF Good
    <3>2. CASE me.sel = s
      <4>1. Valid(reader[r].sel)' \subseteq Valid(s) \cup {Other(old)}
        BY <1>3, <1>5, <3>2
      <4>2. Valid(s) \subseteq me.fresh
        BY <3>1, <3>2
      <4> QED
        BY <1>5, <3>1, <3>2, <4>1, <4>2
    <3>3. CASE me.sel # s
      <4>1. reader'[r] = reader[r]
        BY <1>5, <3>3
      <4>2. Valid(reader[r].sel)' = Valid(me.sel)
        BY <1>3, <3>1, <3>3, <4>1
      <4> QED
        BY <3>1, <4>1, <4>2
    <3> QED
      BY <3>2, <3>3
  <2>2. ASSUME me.pc \in Looking
        PROVE  Inside(reader[r])' /\ Reachable(reader[r].block)'
    <3>1. Inside(me) /\ Reachable(me.block)
      BY <2>0, <2>2 DEF Good
    <3>2. Reachable(reader[r].block)'
      BY <1>0, <1>5, <3>1 DEF Reachable
    <3>3. Inside(reader[r])'
      BY <1>0, <1>5, <3>1 DEF Inside
    <3> QED
      BY <3>2, <3>3
  <2>3. me.pc = "found" => m2.imp \in m2.fresh
    BY <1>5, <2>0 DEF Good
  <2>4. me.pc = "buckets" => ~build'.packed /\ m2.i \in 0..mask'
    BY <1>0, <1>5, <2>0 DEF Good
  <2>5. (me.pc = "idle" => m2.sel = 0) /\ (me.pc = "mask" => ~m2.wrapped) /\ m2.pc = me.pc
    BY <1>5, <2>0 DEF Good
  <2> QED
    BY <2>1, <2>2, <2>3, <2>4, <2>5 DEF Good
<1> QED
  BY <1>6, <1>7, <1>8, <1>9, <1>10, <1>11, <1>12 DEF IndInv

----------------------------------------------------------------------------
(* The invariant and what follows from it.                                 *)

LEMMA InitKeeps == Init => IndInv
<1> SUFFICES ASSUME Init
             PROVE  IndInv
  OBVIOUS
<1>0. /\ build \in Builds /\ method = [s \in Sels |-> <<s, 1>>] /\ buckets = EmptyCache /\ mask = 0 /\ occupied = 0
      /\ garbage = {} /\ w = Unlocked /\ reader = [r \in Readers |-> Outside] /\ w.pc = "idle" /\ w.op = "none"
      /\ content = [b \in Blocks \cup Shared |->
           IF b \in Blocks THEN <<>> ELSE emptyBuckets(b)]
  BY UnlockedIsWriting DEF Init
<1>1. /\ \A b \in Blocks : content[b] = <<>>
      /\ \A b \in Shared : content[b] = emptyBuckets(b)
  BY <1>0, Constants
<1>2. TypeInv
  <2>1. method \in [Sels -> Imp] /\ \A s \in Sels : method[s] \in Imps(s)
    BY <1>0, Constants DEF Imp, Imps
  <2>2. reader \in [Readers -> Reading]
    BY <1>0, OutsideIsGood
  <2>3. DOMAIN content = Blocks \cup Shared /\ content = [b \in Blocks \cup Shared |-> content[b]]
    BY <1>0
  <2> QED
    BY <1>0, <2>1, <2>2, <2>3, UnlockedIsWriting, Constants DEF TypeInv
<1>3. ContentInv
  BY <1>1 DEF ContentInv
<1>4. Used(content[buckets]) = {}
  <2>1. Empty.sel = 0
    BY DEF Empty
  <2>2. content[buckets] = emptyBuckets(EmptyCache)
    BY <1>0, <1>1, Constants
  <2>3. \A i \in DOMAIN content[buckets] : content[buckets][i] = Empty
    BY <2>2, emptyBucketsIs, Constants
  <2> QED
    BY <2>1, <2>3 DEF Used
<1>5. CurrentInv
  <2>1. 0 \in DOMAIN content[EmptyCache]
    BY <1>1, Constants, emptyBucketsIs
  <2>2. EmptyCache = emptyBucketsForCapacity(0)
    BY Constants DEF emptyBucketsForCapacity
  <2>3. Holds(buckets, mask + 1)
    BY <1>0, <2>1, <2>2, Constants DEF Holds
  <2> QED
    BY <1>0, <2>3 DEF CurrentInv
<1>6. GarbageInv /\ WriterInv /\ SampleInv
  BY <1>0 DEF GarbageInv, WriterInv, SampleInv
<1>7. CountInv /\ EntryInv
  BY <1>0, <1>4, FS_EmptySet DEF CountInv, EntryInv
<1>8. ReaderInv
  BY <1>0, OutsideIsGood DEF ReaderInv, Good, Looking
<1> QED
  BY <1>2, <1>3, <1>5, <1>6, <1>7, <1>8 DEF IndInv

LEMMA StutterKeeps == ASSUME IndInv, UNCHANGED vars PROVE IndInv'
<1>0. UNCHANGED <<build, method, content, buckets, mask, occupied, garbage, w, reader, stale>>
  BY DEF vars, cache
<1>1. TypeInv' /\ GarbageInv' /\ SampleInv'
  BY <1>0 DEF IndInv, TypeInv, GarbageInv, SampleInv
<1>5. ContentInv' /\ CountInv'
  BY <1>0 DEF IndInv, ContentInv, Sized, CountInv, Used
<1>2. CurrentInv'
  BY <1>0 DEF IndInv, CurrentInv, Holds, Sized, emptyBucketsForCapacity, Used
<1>3. WriterInv' /\ EntryInv'
  BY <1>0 DEF IndInv, WriterInv, EntryInv, Room, Used, Valid
<1>4. ReaderInv'
  BY <1>0 DEF IndInv, ReaderInv, Good, Inside, Reachable, Valid
<1> QED
  BY <1>1, <1>2, <1>3, <1>4, <1>5 DEF IndInv

LEMMA NextKeeps == IndInv /\ [Next]_vars => IndInv'
<1> SUFFICES ASSUME IndInv, [Next]_vars
             PROVE  IndInv'
  OBVIOUS
<1>1. ASSUME NEW r \in Readers, Send(r) PROVE IndInv'
  BY <1>1, SendKeeps
<1>2. ASSUME NEW r \in Readers, ReaderStep(r) PROVE IndInv'
  BY <1>2, ReaderStepKeeps
<1>3. ASSUME NEW r \in Readers, Signal(r) PROVE IndInv'
  BY <1>3, SignalKeeps
<1>4. ASSUME NEW r \in Readers, SampleThread(r) PROVE IndInv'
  BY <1>4, SampleThreadKeeps
<1>5. CASE StoreBuckets \/ StoreMask
  BY <1>5, StoreBucketsKeeps, StoreMaskKeeps
<1>6. CASE collect_free \/ Synchronize \/ CollectSampled
  BY <1>6, collectFreeKeeps, SynchronizeKeeps, CollectSampledKeeps
<1>7. CASE SetImp \/ SetSel
  BY <1>7, SetImpKeeps, SetSelKeeps
<1>8. ASSUME NEW s \in Sels, insert(s) PROVE IndInv'
  BY <1>8, insertKeeps
<1>9. ASSUME NEW s \in Replaceable, setImplementation(s) PROVE IndInv'
  BY <1>9, setImplementationKeeps
<1>10. CASE flushCaches \/ collectALot
  BY <1>10, flushCachesKeeps, collectALotKeeps
<1>11. CASE UNCHANGED vars
  BY <1>11, StutterKeeps
<1> QED
  BY <1>1, <1>2, <1>3, <1>4, <1>5, <1>6, <1>7, <1>8, <1>9, <1>10, <1>11 DEF Next

LEMMA WellFormed == ASSUME IndInv PROVE CacheIsWellFormed
<1>1. buckets \in DOMAIN content /\ mask \in Nat /\ garbage \subseteq Blocks /\ mask \in DOMAIN content[buckets] /\ buckets \notin garbage
  BY MaskInside DEF IndInv, TypeInv, GarbageInv
<1>2. ASSUME w.pc \notin {"mask", "sel"}
      PROVE  occupied = Cardinality({i \in 0..mask : content[buckets][i].sel \notin {0, 1}})
  <2>1. Used(content[buckets]) = {i \in 0..mask : content[buckets][i].sel \notin {0, 1}}
    <3>1. CASE buckets \in Blocks
      <4>1. DOMAIN content[buckets] = 0..mask
        BY <1>2, <3>1, MaskInside
      <4> QED
        BY <4>1 DEF Used
    <3>2. CASE buckets \in Shared
      <4>1. \A i \in DOMAIN content[buckets] : content[buckets][i].sel = 0
        BY <3>2, SharedShape
      <4>2. \A i \in 0..mask : i \in DOMAIN content[buckets]
        BY MaskInside
      <4> QED
        BY <4>1, <4>2 DEF Used
    <3> QED
      BY <3>1, <3>2 DEF IndInv, TypeInv
  <2> QED
    BY <1>2, <2>1 DEF IndInv, CountInv
<1>3. w.pc = "insert" => FreeSlot # {}
  BY FreeSlotExists
<1>4. \A b \in Shared : content[b] # <<>> /\ \A i \in DOMAIN content[b] : content[b][i] = Empty
  <2>1. \A b \in Shared : \A i \in DOMAIN content[b] : content[b][i] = Empty
    BY SharedShape
  <2>2. \A b \in Shared : 0 \in DOMAIN content[b]
    BY emptyBucketsIs DEF IndInv, ContentInv
  <2> QED
    BY <2>1, <2>2
<1> QED
  BY <1>1, <1>2, <1>3, <1>4 DEF CacheIsWellFormed

\* The inductive invariant of the cache holds in every reachable state, however many
\* lookups, fills, flushes and collections interleave.
THEOREM CacheInvariance == Spec => []IndInv
  BY InitKeeps, NextKeeps, PTL DEF Spec

\* A lookup never reads freed buckets nor past the end of the buckets it loaded
\* (setBucketsAndMask, eraseNolock, collectNolock).
THEOREM LookupsStayInside == Spec => []ReadersStayInside
<1>1. IndInv => ReadersStayInside
  BY DEF IndInv, ReaderInv, Good, Inside, Looking, ReadersStayInside
<1> QED
  BY <1>1, CacheInvariance, PTL

\* What a cache hit calls was current at some time since the message was sent, or was
\* left in the present buckets by a flush whose lookup a signal hit (bucket_t::set,
\* method_setImplementation, cache_t::shouldFlush).
THEOREM HitsAreCurrent == Spec => []HitIsCurrent
<1>1. IndInv => HitIsCurrent
  BY DEF IndInv, ReaderInv, Good, HitIsCurrent
<1> QED
  BY <1>1, CacheInvariance, PTL

\* The fields of cache_t fit together, occupied counts, and insert finds a slot.
THEOREM CacheStaysWellFormed == Spec => []CacheIsWellFormed
<1>1. IndInv => CacheIsWellFormed
  BY WellFormed
<1> QED
  BY <1>1, CacheInvariance, PTL
=============================================================================
