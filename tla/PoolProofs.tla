----------------------------- MODULE PoolProofs -----------------------------
(***************************************************************************)
(* Proofs about AutoreleasePool for every size of the pages, every number  *)
(* of pages, objects and nested pops, and every set of environment         *)
(* variables.                                                              *)
(***************************************************************************)
EXTENDS AutoreleasePool, FiniteSetTheorems, WellFoundedInduction, TLAPS

----------------------------------------------------------------------------
(* The invariant, of a hot page, pages, tokens and frames, so that it can  *)
(* be said of the state before and after a step.                           *)

Entry == [ptr : Objects \cup {NoObject}, count : Nat]
Token == [page : Nat, slot : Nat]
Drain == [page : Nat \ {0}, stop : Nat, obj : Objects \cup {NoObject}, left : Nat,
          exits : BOOLEAN, running : BOOLEAN, pools : Nat]

Types(hot, ps, ts, fs) ==
  /\ ps \in Seq(Seq(Entry)) /\ ts \in Seq(Token) /\ fs \in Seq(Drain)
  /\ hot \in {Placeholder, Nil} \cup 1..Len(ps)

\* There is a boundary in the slot of the page.
BoundaryAt(ps, p, s) == p \in 1..Len(ps) /\ s \in 1..Len(ps[p]) /\ ps[p][s] = Boundary

\* The place that a token stands for: the placeholder's pool begins the first page.
PageOf(t) == IF t = PlaceholderToken THEN 1 ELSE t.page
SlotOf(t) == IF t = PlaceholderToken THEN 1 ELSE t.slot

\* Nothing is above the hot page; no page is forgotten; where missing pools are debugged
\* the first page begins with a pool; where debugging deletes empty pages, clients
\* outside of all pops find none, and pops leave the first page alone if it is not theirs.
HotInv(hot, ps, fs) ==
  /\ hot < 1 => ps = <<>> /\ fs = <<>>
  /\ \A k \in 1..Len(ps) : k > hot => ps[k] = <<>>
  /\ DebugPoolAllocation => hot # Placeholder
  /\ DebugMissingPools /\ ps # <<>> /\ ps[1] # <<>> => ps[1][1] = Boundary
  /\ (fs # <<>> => fs[1].page > 1) /\ hot >= 1 /\ Debugging => ps[1] # <<>>
  /\ fs = <<>> /\ hot >= 1 /\ DebugPoolAllocation /\ ~LeaksWhileDebugging => ps[hot] # <<>>

\* Tokens point to boundaries, in the order of the pushes.
Earlier(t, u) == PageOf(t) < PageOf(u) \/ (PageOf(t) = PageOf(u) /\ SlotOf(t) < SlotOf(u))
TokenInv(hot, ps, ts) ==
  /\ \A n \in 1..Len(ts) :
       /\ (hot = Placeholder /\ ts[n] = PlaceholderToken) \/ BoundaryAt(ps, PageOf(ts[n]), SlotOf(ts[n]))
       /\ DebugPoolAllocation => SlotOf(ts[n]) = 1
  /\ \A m, n \in 1..Len(ts) : m < n => Earlier(ts[m], ts[n])

\* A pop that ends at a boundary, which is the last entry it takes.
Anchored(f) == ~f.exits \/ DebugMissingPools

\* Places a pop leaves alone, and places of the pools its releases may push.
Under(f, p, s) == p < f.page \/ (p = f.page /\ s <= f.stop)
Over(f, p, s) ==
  \/ p > f.page
  \/ p = f.page /\ s > f.stop /\ (Anchored(f) => s > f.stop + 1) /\ ~DebugPoolAllocation

\* The tokens that are older than a pop.
Older(f, ts) == IF f.running THEN f.pools ELSE Len(ts)

FrameOK(hot, ps, ts, fs, i) ==
  /\ i < Len(fs) => fs[i].running
  /\ fs[i].exits => i = 1 /\ fs[i].page = 1 /\ fs[i].stop = 0
  /\ fs[i].page \in 1..Len(ps) /\ fs[i].page <= hot /\ fs[i].stop <= Len(ps[fs[i].page])
  /\ DebugPoolAllocation => fs[i].stop = 0
  /\ Anchored(fs[i]) =>
       \/ BoundaryAt(ps, fs[i].page, fs[i].stop + 1)
       \/ i = Len(fs) /\ ~fs[i].running /\ fs[i].left = 0 /\ Len(ps[fs[i].page]) = fs[i].stop /\ hot = fs[i].page
  /\ Older(fs[i], ts) <= Len(ts)
  /\ \A n \in 1..Len(ts) : n <= Older(fs[i], ts) => Under(fs[i], PageOf(ts[n]), SlotOf(ts[n]))
  /\ \A n \in 1..Len(ts) : n > Older(fs[i], ts) => Over(fs[i], PageOf(ts[n]), SlotOf(ts[n]))
  /\ \A j \in 1..Len(fs) : i < j => Over(fs[i], fs[j].page, fs[j].stop + 1) /\ Older(fs[i], ts) <= Older(fs[j], ts)
FrameInv(hot, ps, ts, fs) == \A i \in 1..Len(fs) : FrameOK(hot, ps, ts, fs, i)

\* A page below the hot one is empty only where each pool has a page of its own, while
\* a release runs that began when the page was hot: the first pool it pushed, or the
\* pop of that, is on the next page.  A pool that a release leaves there breaks this.
MadeBy(ts, fs, i, j) ==
  /\ fs[i].running
  /\ \/ fs[i].pools < Len(ts) /\ PageOf(ts[fs[i].pools + 1]) = j + 1
     \/ i < Len(fs) /\ fs[i + 1].page = j + 1 /\ Older(fs[i + 1], ts) = fs[i].pools
NoneEmpty(hot, ps, ts, fs) ==
  /\ \A j \in 1..Len(ps) : j < hot /\ ps[j] = <<>> => DebugPoolAllocation /\ \E i \in 1..Len(fs) : MadeBy(ts, fs, i, j)
  /\ fs # <<>> /\ fs[Len(fs)].running /\ DebugPoolAllocation /\ ps[hot] = <<>> => Len(ts) = fs[Len(fs)].pools
EmptyInv(hot, ps, ts, fs) == LeaksWhileDebugging \/ NoneEmpty(hot, ps, ts, fs)

Inv(hot, ps, ts, fs) ==
  Types(hot, ps, ts, fs) /\ HotInv(hot, ps, fs) /\ TokenInv(hot, ps, ts) /\ FrameInv(hot, ps, ts, fs) /\ EmptyInv(hot, ps, ts, fs)

PoolInv == env \in Environments /\ Inv(tls, pages, tokens, frames)

----------------------------------------------------------------------------
(* Sequences.                                                              *)

LEMMA PrefixEffect ==
  ASSUME NEW S, NEW q \in Seq(S), NEW n \in 0..Len(q)
  PROVE  SubSeq(q, 1, n) \in Seq(S) /\ Len(SubSeq(q, 1, n)) = n /\ \A k \in 1..n : SubSeq(q, 1, n)[k] = q[k]
OBVIOUS

LEMMA FrontEffect ==
  ASSUME NEW S, NEW q \in Seq(S), q # <<>>
  PROVE  /\ Len(q) >= 1 /\ Last(q) \in S /\ Last(q) = q[Len(q)]
         /\ Front(q) \in Seq(S) /\ Len(Front(q)) = Len(q) - 1 /\ \A k \in 1..(Len(q) - 1) : Front(q)[k] = q[k]
<1>1. Len(q) \in Nat /\ Len(q) >= 1
  OBVIOUS
<1>2. Last(q) = q[Len(q)] /\ q[Len(q)] \in S
  BY <1>1 DEF Last
<1>3. Len(q) - 1 \in 0..Len(q)
  BY <1>1
<1> QED
  BY <1>1, <1>2, <1>3, PrefixEffect DEF Front

LEMMA AppendEffect ==
  ASSUME NEW S, NEW q \in Seq(S), NEW e \in S
  PROVE  /\ Append(q, e) \in Seq(S) /\ Len(Append(q, e)) = Len(q) + 1
         /\ Append(q, e)[Len(q) + 1] = e /\ \A k \in 1..Len(q) : Append(q, e)[k] = q[k]
OBVIOUS

LEMMA ExceptEffect ==
  ASSUME NEW S, NEW q \in Seq(S), NEW i \in 1..Len(q), NEW e \in S
  PROVE  /\ [q EXCEPT ![i] = e] \in Seq(S) /\ Len([q EXCEPT ![i] = e]) = Len(q)
         /\ [q EXCEPT ![i] = e][i] = e /\ \A k \in 1..Len(q) : k # i => [q EXCEPT ![i] = e][k] = q[k]
OBVIOUS

LEMMA ElementType ==
  ASSUME NEW S, NEW q \in Seq(S), NEW i \in 1..Len(q)
  PROVE  q[i] \in S
OBVIOUS

LEMMA EmptyLen ==
  ASSUME NEW S, NEW q \in Seq(S)
  PROVE  Len(q) \in Nat /\ (q = <<>> <=> Len(q) = 0) /\ (q # <<>> <=> Len(q) >= 1)
OBVIOUS

\* One of finitely many numbers is the greatest: the one with the fewest above it.
LEMMA GreatestExists ==
  ASSUME NEW n \in Nat, NEW I \in SUBSET (1..n), I # {}
  PROVE  Max(I) \in I /\ \A k \in I : k <= Max(I)
<1> DEFINE Beyond(k) == {j \in I : j > k}
           F == {Beyond(k) : k \in I}
<1>0. IsFiniteSet(I) /\ I \subseteq Nat
  <2>1. IsFiniteSet(1..n)
    BY FS_Interval
  <2>2. IsFiniteSet(I)
    BY <2>1, FS_Subset
  <2> QED
    BY <2>2
<1>1. IsWellFoundedOn(StrictSubsetOrdering(I), SUBSET I)
  BY <1>0, FS_StrictSubsetOrderingWellFounded, FS_FiniteSubsetsOfFinite
<1>2. F \subseteq SUBSET I /\ F # {}
  <2>1. PICK k \in I : TRUE
    OBVIOUS
  <2>2. Beyond(k) \in F
    BY <2>1
  <2> QED
    BY <2>2
<1>3. PICK S \in F : \A R \in F : ~(<<R, S>> \in StrictSubsetOrdering(I))
  <2> HIDE DEF F
  <2> QED
    BY <1>1, <1>2, WFMin
<1>4. PICK k \in I : S = Beyond(k)
  OBVIOUS
<1>5. ASSUME NEW j \in I, j > k PROVE FALSE
  <2>0. j \in Nat /\ k \in Nat /\ \A i \in I : i \in Nat
    BY <1>0
  <2>a. \A i \in I : i > j => i > k
    BY <1>5, <2>0
  <2>b. ~(j > j)
    BY <2>0
  <2>1. Beyond(j) \subseteq Beyond(k) /\ j \in Beyond(k) /\ j \notin Beyond(j)
    BY <1>5, <2>a, <2>b
  <2>2. <<Beyond(j), Beyond(k)>> \in StrictSubsetOrdering(I)
    <3>1. Beyond(j) \in SUBSET I /\ Beyond(k) \in SUBSET I
      OBVIOUS
    <3>2. Beyond(j) # Beyond(k)
      BY <2>1
    <3> HIDE DEF Beyond
    <3> QED
      BY <2>1, <3>1, <3>2 DEF StrictSubsetOrdering
  <2> QED
    BY <1>3, <1>4, <2>2
<1>6. \A j \in I : k >= j
  BY <1>0, <1>5
<1>7. Max(I) \in I /\ \A j \in I : Max(I) >= j
  BY <1>6 DEF Max
<1> QED
  BY <1>0, <1>7

----------------------------------------------------------------------------
(* Adding an entry, coalesced or not.                                      *)

LEMMA BoundaryType == Boundary \in Entry /\ \A o \in Objects : o # NoObject
BY PoolAssumption DEF Boundary, Entry

\* A page that an entry was added to is longer or as long, and its boundaries are
\* where they were.
Grows(p, q) == Len(q) >= Len(p) /\ \A s \in 1..Len(p) : p[s] = Boundary => q[s] = Boundary

LEMMA AddEffect ==
  ASSUME NEW p \in Seq(Entry), NEW obj \in Objects \cup {NoObject}
  PROVE  /\ Add(p, obj) \in Seq(Entry) /\ Add(p, obj) # <<>> /\ Grows(p, Add(p, obj))
         /\ obj = NoObject => Len(Add(p, obj)) = Len(p) + 1 /\ Add(p, obj)[Len(p) + 1] = Boundary
<1> DEFINE e == [ptr |-> obj, count |-> 0]
           C == Coalescible(p, obj)
           i == Max(C)
           n == Len(p)
<1>0. n \in Nat /\ e \in Entry /\ (obj = NoObject => e = Boundary)
  BY DEF Entry, Boundary
<1>1. CASE C = {}
  <2>1. Add(p, obj) = Append(p, e)
    BY <1>1 DEF Add
  <2> HIDE DEF e
  <2>2. /\ Append(p, e) \in Seq(Entry) /\ Len(Append(p, e)) = n + 1
        /\ Append(p, e)[n + 1] = e /\ \A k \in 1..n : Append(p, e)[k] = p[k]
    BY <1>0, AppendEffect
  <2>3. Append(p, e) # <<>>
    BY <1>0, <2>2
  <2> QED
    BY <1>0, <2>1, <2>2, <2>3 DEF Grows
<1>2. CASE C # {}
  <2>1. obj \in Objects /\ obj # NoObject
    BY <1>2 DEF Coalescible
  <2>2. C \in SUBSET (1..n)
    BY <1>0 DEF Coalescible, CandidatesAt, LookBackAt
  <2>3. i \in C
    <3> HIDE DEF C
    <3> QED
      BY <1>0, <1>2, <2>2, GreatestExists
  <2> HIDE DEF i
  <2>4. i \in 1..n /\ p[i].ptr = obj /\ i \in CandidatesAt(p)
    BY <2>2, <2>3 DEF Coalescible
  <2>5. \A s \in i..n : p[s] # Boundary
    <3>1. p[i] # Boundary
      BY <2>1, <2>4 DEF Boundary
    <3>2. (\A s \in i..n : p[s] # Boundary) \/ i = n
      BY <2>4 DEF CandidatesAt, LookBackAt
    <3> QED
      BY <1>0, <2>4, <3>1, <3>2
  <2> DEFINE r == RemoveAt(p, i)
             f == [p[i] EXCEPT !.count = @ + 1]
  <2>6. f \in Entry
    <3>1. p[i] \in Entry
      BY <2>4
    <3> QED
      BY <3>1 DEF Entry
  <2>7. r \in Seq(Entry) /\ Len(r) = n - 1 /\ \A s \in 1..(i - 1) : r[s] = p[s]
    <3> DEFINE a == SubSeq(p, 1, i - 1)
               b == SubSeq(p, i + 1, n)
    <3>1. i - 1 \in 0..n /\ i \in Nat
      BY <1>0, <2>4
    <3>2. a \in Seq(Entry) /\ Len(a) = i - 1 /\ \A s \in 1..(i - 1) : a[s] = p[s]
      BY <3>1, PrefixEffect
    <3>3. b \in Seq(Entry) /\ Len(b) = n - i
      <4>1. b \in Seq(Entry)
        BY <1>0, <2>4
      <4>2. Len(b) = IF i + 1 <= n THEN n - i ELSE 0
        BY <1>0, <2>4
      <4> QED
        BY <1>0, <2>4, <4>1, <4>2
    <3>4. r = a \o b
      BY DEF RemoveAt
    <3> HIDE DEF a, b, r
    <3> QED
      BY <1>0, <2>4, <3>1, <3>2, <3>3, <3>4, SMTT(30)
  <2>8. Add(p, obj) = Append(r, f)
    BY <1>2 DEF Add, i
  <2> HIDE DEF r, f
  <2>9. /\ Append(r, f) \in Seq(Entry) /\ Len(Append(r, f)) = n
        /\ \A k \in 1..(n - 1) : Append(r, f)[k] = r[k]
    <3>1. /\ Append(r, f) \in Seq(Entry) /\ Len(Append(r, f)) = Len(r) + 1
          /\ Append(r, f)[Len(r) + 1] = f /\ \A k \in 1..Len(r) : Append(r, f)[k] = r[k]
      BY <2>6, <2>7, AppendEffect
    <3> QED
      BY <1>0, <2>7, <3>1
  <2>10. Append(r, f) # <<>>
    BY <2>4, <2>9
  <2>11. \A s \in 1..n : p[s] = Boundary => Append(r, f)[s] = Boundary
    <3> SUFFICES ASSUME NEW s \in 1..n, p[s] = Boundary PROVE Append(r, f)[s] = Boundary
      OBVIOUS
    <3>1. s \in 1..(i - 1) /\ s \in 1..(n - 1)
      BY <1>0, <2>4, <2>5
    <3> QED
      BY <2>7, <2>9, <3>1
  <2> QED
    BY <1>0, <2>1, <2>8, <2>9, <2>10, <2>11 DEF Grows
<1> QED
  BY <1>1, <1>2


LEMMA AddFirst ==
  ASSUME NEW obj \in Objects \cup {NoObject}, NEW p, p = <<>>
  PROVE  /\ Add(p, obj) \in Seq(Entry) /\ Add(p, obj) # <<>> /\ Grows(p, Add(p, obj))
         /\ obj = NoObject => Len(Add(p, obj)) = 1 /\ Add(p, obj)[1] = Boundary
<1>1. p \in Seq(Entry) /\ Len(p) = 0 /\ 0 + 1 = 1
  OBVIOUS
<1> QED
  BY <1>1, AddEffect, ZenonT(60)
----------------------------------------------------------------------------
(* What the invariant says of one page, one token and one frame.           *)

LEMMA Typing ==
  ASSUME NEW hot, NEW ps, NEW ts, NEW fs, Types(hot, ps, ts, fs)
  PROVE  /\ hot \in Int /\ Len(ps) \in Nat /\ Len(ts) \in Nat /\ Len(fs) \in Nat
         /\ (ps = <<>> <=> Len(ps) = 0) /\ (ts = <<>> <=> Len(ts) = 0) /\ (fs = <<>> <=> Len(fs) = 0)
         /\ hot >= -1 /\ (hot >= 1 => hot <= Len(ps))
         /\ \A k \in 1..Len(ps) : ps[k] \in Seq(Entry) /\ Len(ps[k]) \in Nat /\ (ps[k] = <<>> <=> Len(ps[k]) = 0)
         /\ \A n \in 1..Len(ts) : ts[n] \in Token /\ PageOf(ts[n]) \in Nat /\ SlotOf(ts[n]) \in Nat
         /\ \A i \in 1..Len(fs) : /\ fs[i] \in Drain /\ fs[i].page \in Nat /\ fs[i].page >= 1 /\ fs[i].stop \in Nat
                                  /\ fs[i].left \in Nat /\ fs[i].pools \in Nat /\ Older(fs[i], ts) \in Nat
<1>1. ps \in Seq(Seq(Entry)) /\ ts \in Seq(Token) /\ fs \in Seq(Drain) /\ hot \in {Placeholder, Nil} \cup 1..Len(ps)
  BY DEF Types
<1>2. Len(ps) \in Nat /\ Len(ts) \in Nat /\ Len(fs) \in Nat
  BY <1>1
<1>3. hot \in Int /\ hot >= -1 /\ (hot >= 1 => hot <= Len(ps))
  BY <1>1, <1>2 DEF Placeholder, Nil
<1>4. (ps = <<>> <=> Len(ps) = 0) /\ (ts = <<>> <=> Len(ts) = 0) /\ (fs = <<>> <=> Len(fs) = 0)
  BY <1>1, EmptyLen
<1>5. \A k \in 1..Len(ps) : ps[k] \in Seq(Entry) /\ Len(ps[k]) \in Nat /\ (ps[k] = <<>> <=> Len(ps[k]) = 0)
  <2> TAKE k \in 1..Len(ps)
  <2>1. ps[k] \in Seq(Entry)
    BY <1>1, ElementType
  <2> QED
    BY <2>1, EmptyLen
<1>6. \A n \in 1..Len(ts) : ts[n] \in Token /\ PageOf(ts[n]) \in Nat /\ SlotOf(ts[n]) \in Nat
  <2> TAKE n \in 1..Len(ts)
  <2>1. ts[n] \in Token
    BY <1>1, ElementType
  <2>2. ts[n].page \in Nat /\ ts[n].slot \in Nat
    BY <2>1 DEF Token
  <2> QED
    BY <2>1, <2>2 DEF PageOf, SlotOf
<1>7. \A i \in 1..Len(fs) : /\ fs[i] \in Drain /\ fs[i].page \in Nat /\ fs[i].page >= 1 /\ fs[i].stop \in Nat
                            /\ fs[i].left \in Nat /\ fs[i].pools \in Nat /\ Older(fs[i], ts) \in Nat
  <2> TAKE i \in 1..Len(fs)
  <2>1. fs[i] \in Drain
    BY <1>1, ElementType
  <2>2. fs[i].page \in Nat /\ fs[i].page >= 1 /\ fs[i].stop \in Nat /\ fs[i].left \in Nat /\ fs[i].pools \in Nat
    BY <2>1 DEF Drain
  <2> QED
    BY <1>2, <2>1, <2>2 DEF Older
<1> QED
  BY <1>2, <1>3, <1>4, <1>5, <1>6, <1>7

\* With a hot page, tokens are at boundaries of it or of the pages below.
LEMMA TokenPlace ==
  ASSUME NEW hot, NEW ps, NEW ts, NEW fs, Inv(hot, ps, ts, fs), hot >= 1, NEW n \in 1..Len(ts)
  PROVE  /\ BoundaryAt(ps, PageOf(ts[n]), SlotOf(ts[n]))
         /\ PageOf(ts[n]) \in 1..hot /\ SlotOf(ts[n]) \in 1..Len(ps[PageOf(ts[n])])
<1>0. Types(hot, ps, ts, fs) /\ HotInv(hot, ps, fs) /\ TokenInv(hot, ps, ts)
  BY DEF Inv
<1>1. hot \in Int /\ hot # Placeholder
  BY <1>0, Typing DEF Placeholder
<1>2. BoundaryAt(ps, PageOf(ts[n]), SlotOf(ts[n]))
  BY <1>0, <1>1 DEF TokenInv
<1>3. PageOf(ts[n]) \in 1..Len(ps) /\ SlotOf(ts[n]) \in 1..Len(ps[PageOf(ts[n])])
  BY <1>2 DEF BoundaryAt
<1>4. ps[PageOf(ts[n])] # <<>> /\ Len(ps) \in Nat
  <2>1. \A k \in 1..Len(ps) : Len(ps[k]) \in Nat /\ (ps[k] = <<>> <=> Len(ps[k]) = 0)
    BY <1>0, Typing
  <2>2. Len(ps) \in Nat
    BY <1>0, Typing
  <2> QED
    BY <1>3, <2>1, <2>2
<1>5. ~(PageOf(ts[n]) > hot)
  BY <1>0, <1>3, <1>4 DEF HotInv
<1> QED
  BY <1>1, <1>2, <1>3, <1>4, <1>5

\* The client runs: between pops, or in a release of the newest one.
Runs(fs) == fs # <<>> => fs[Len(fs)].running

\* Then all pops in progress are in a release.
LEMMA AllRunning ==
  ASSUME NEW hot, NEW ps, NEW ts, NEW fs, Inv(hot, ps, ts, fs), Runs(fs), NEW i \in 1..Len(fs)
  PROVE  /\ fs[i].running /\ Older(fs[i], ts) = fs[i].pools
         /\ Anchored(fs[i]) => BoundaryAt(ps, fs[i].page, fs[i].stop + 1)
<1>0. Types(hot, ps, ts, fs) /\ FrameOK(hot, ps, ts, fs, i)
  BY DEF Inv, FrameInv
<1>1. Len(fs) \in Nat /\ fs # <<>>
  BY <1>0, Typing
<1>2. fs[i].running
  <2>1. CASE i < Len(fs)
    BY <1>0, <2>1 DEF FrameOK
  <2>2. CASE i = Len(fs)
    BY <1>1, <2>2 DEF Runs
  <2> QED
    BY <1>1, <2>1, <2>2
<1>3. Older(fs[i], ts) = fs[i].pools
  BY <1>2 DEF Older
<1> QED
  BY <1>0, <1>2, <1>3 DEF FrameOK

\* Where missing pools are debugged, clients find no empty first page that is hot.
LEMMA FirstPageInUse ==
  ASSUME NEW hot, NEW ps, NEW ts, NEW fs, Inv(hot, ps, ts, fs), Runs(fs), DebugMissingPools, hot = 1
  PROVE  ps[1] # <<>>
<1>0. Types(hot, ps, ts, fs) /\ HotInv(hot, ps, fs) /\ FrameInv(hot, ps, ts, fs)
  BY DEF Inv
<1>1. CASE fs = <<>>
  BY <1>0, <1>1 DEF HotInv, Debugging
<1>2. CASE fs # <<>>
  <2> DEFINE i == Len(fs)
  <2>1. i \in Nat /\ i \in 1..Len(fs)
    BY <1>0, <1>2, Typing
  <2>2. fs[i].page \in Nat /\ fs[i].page >= 1 /\ fs[i].stop \in Nat
    BY <1>0, <2>1, Typing
  <2>3. fs[i].page <= hot
    BY <1>0, <2>1 DEF FrameInv, FrameOK
  <2>4. BoundaryAt(ps, fs[i].page, fs[i].stop + 1)
    BY <2>1, AllRunning DEF Anchored
  <2>5. fs[i].page = 1
    BY <2>2, <2>3
  <2>6. 1 \in 1..Len(ps) /\ fs[i].stop + 1 \in 1..Len(ps[1])
    BY <2>4, <2>5 DEF BoundaryAt
  <2>7. Len(ps[1]) \in Nat /\ (ps[1] = <<>> <=> Len(ps[1]) = 0)
    BY <1>0, <2>6, Typing
  <2> QED
    BY <2>2, <2>6, <2>7
<1> QED
  BY <1>1, <1>2

----------------------------------------------------------------------------
(* A client adds an entry to the hot page or to the next one.              *)

\* ps2 is ps with an entry more on page hot2, which is hot now.
Grown(hot, ps, hot2, ps2) ==
  /\ ps2 \in Seq(Seq(Entry)) /\ hot2 \in {hot, hot + 1} /\ hot2 <= Len(ps2)
  /\ Len(ps2) >= Len(ps)
  /\ \A k \in 1..Len(ps) : k # hot2 => ps2[k] = ps[k]
  /\ hot2 <= Len(ps) => Grows(ps[hot2], ps2[hot2])
  /\ ps2[hot2] # <<>>
  /\ \A k \in 1..Len(ps2) : k > hot2 => ps2[k] = <<>>

LEMMA GrownBoundary ==
  ASSUME NEW hot, NEW ps, NEW hot2, NEW ps2, Grown(hot, ps, hot2, ps2), NEW p, NEW s, BoundaryAt(ps, p, s),
         hot \in Nat, ps \in Seq(Seq(Entry))
  PROVE  BoundaryAt(ps2, p, s)
<1>1. p \in 1..Len(ps) /\ s \in 1..Len(ps[p]) /\ ps[p][s] = Boundary
  BY DEF BoundaryAt
<1>2. Len(ps) \in Nat /\ Len(ps2) \in Nat /\ Len(ps2) >= Len(ps)
  BY DEF Grown
<1>3. p \in 1..Len(ps2)
  BY <1>1, <1>2
<1>4. CASE p # hot2
  BY <1>1, <1>3, <1>4 DEF Grown, BoundaryAt
<1>5. CASE p = hot2
  <2>1. Grows(ps[p], ps2[p])
    BY <1>1, <1>2, <1>5 DEF Grown
  <2>2. ps[p] \in Seq(Entry) /\ ps2[p] \in Seq(Entry)
    BY <1>1, <1>3, ElementType DEF Grown
  <2>3. Len(ps[p]) \in Nat /\ Len(ps2[p]) \in Nat
    BY <2>2
  <2> QED
    BY <1>1, <1>3, <2>1, <2>3 DEF Grows, BoundaryAt
<1> QED
  BY <1>4, <1>5

LEMMA PagesGrow ==
  ASSUME NEW hot, NEW ps, NEW ts, NEW fs, NEW hot2, NEW ps2,
         Inv(hot, ps, ts, fs), hot >= 1, Runs(fs), Grown(hot, ps, hot2, ps2)
  PROVE  Types(hot2, ps2, ts, fs) /\ HotInv(hot2, ps2, fs) /\ TokenInv(hot2, ps2, ts) /\ FrameInv(hot2, ps2, ts, fs)
<1>0. Types(hot, ps, ts, fs) /\ HotInv(hot, ps, fs) /\ TokenInv(hot, ps, ts) /\ FrameInv(hot, ps, ts, fs)
  BY DEF Inv
<1>1. /\ hot \in Nat /\ hot2 \in Nat /\ hot2 >= 1 /\ hot2 >= hot /\ hot <= Len(ps) /\ hot2 <= Len(ps2)
      /\ Len(ps) \in Nat /\ Len(ps2) \in Nat /\ Len(ps2) >= Len(ps) /\ hot \in 1..Len(ps) /\ hot2 \in 1..Len(ps2)
  <2>1. hot \in Int /\ hot <= Len(ps) /\ Len(ps) \in Nat
    BY <1>0, Typing
  <2>2. Len(ps2) \in Nat
    BY DEF Grown
  <2> QED
    BY <2>1, <2>2 DEF Grown
<1>2. ps \in Seq(Seq(Entry)) /\ ps2 \in Seq(Seq(Entry))
  BY <1>0 DEF Types, Grown
<1>3. Types(hot2, ps2, ts, fs)
  BY <1>0, <1>1, <1>2 DEF Types
<1>4. HotInv(hot2, ps2, fs)
  <2>1. ~(hot2 < 1) /\ hot2 # Placeholder
    BY <1>1 DEF Placeholder
  <2>2. \A k \in 1..Len(ps2) : k > hot2 => ps2[k] = <<>>
    BY DEF Grown
  <2>3. ps2[hot2] # <<>>
    BY DEF Grown
  <2>a. hot2 # 1 => ps2[1] = ps[1]
    <3>1. 1 \in 1..Len(ps)
      BY <1>1
    <3> QED
      BY <3>1 DEF Grown
  <2>4. ps[1] # <<>> => ps2[1] # <<>>
    <3>1. CASE hot2 = 1
      BY <2>3, <3>1
    <3>2. CASE hot2 # 1
      BY <2>a, <3>2
    <3> QED
      BY <3>1, <3>2
  <2>5. (fs # <<>> => fs[1].page > 1) /\ Debugging => ps2[1] # <<>>
    BY <1>0, <2>4 DEF HotInv
  <2>6. ASSUME DebugMissingPools, ps2[1] # <<>> PROVE ps2[1][1] = Boundary
    <3>1. ps[1] # <<>>
      <4>1. CASE hot2 = 1
        <5>1. hot = 1
          BY <1>1, <4>1
        <5> QED
          BY <2>6, <5>1, FirstPageInUse
      <4>2. CASE hot2 # 1
        BY <2>a, <2>6, <4>2
      <4> QED
        BY <4>1, <4>2
    <3>2. ps[1][1] = Boundary
      <4>1. ps # <<>>
        BY <1>1, <1>2
      <4> QED
        BY <1>0, <2>6, <3>1, <4>1 DEF HotInv
    <3>3. BoundaryAt(ps, 1, 1)
      <4>1. 1 \in 1..Len(ps)
        BY <1>1
      <4>2. ps[1] \in Seq(Entry)
        BY <1>2, <4>1, ElementType
      <4>3. 1 \in 1..Len(ps[1])
        BY <3>1, <4>2, EmptyLen
      <4> QED
        BY <3>2, <4>1, <4>3 DEF BoundaryAt
    <3>4. BoundaryAt(ps2, 1, 1)
      BY <1>1, <1>2, <3>3, GrownBoundary
    <3> QED
      BY <3>4 DEF BoundaryAt
  <2> QED
    BY <2>1, <2>2, <2>3, <2>5, <2>6 DEF HotInv
<1>5. TokenInv(hot2, ps2, ts)
  <2>1. ASSUME NEW n \in 1..Len(ts) PROVE BoundaryAt(ps2, PageOf(ts[n]), SlotOf(ts[n]))
    <3>1. BoundaryAt(ps, PageOf(ts[n]), SlotOf(ts[n]))
      BY TokenPlace
    <3> QED
      BY <1>1, <1>2, <3>1, GrownBoundary
  <2> QED
    BY <1>0, <2>1 DEF TokenInv
<1>6. FrameInv(hot2, ps2, ts, fs)
  <2> SUFFICES ASSUME NEW i \in 1..Len(fs) PROVE FrameOK(hot2, ps2, ts, fs, i)
    BY DEF FrameInv
  <2>1. FrameOK(hot, ps, ts, fs, i)
    BY <1>0 DEF FrameInv
  <2>2. fs[i].page \in Nat /\ fs[i].page >= 1 /\ fs[i].stop \in Nat
    BY <1>0, Typing
  <2>3. fs[i].page \in 1..Len(ps) /\ fs[i].page <= hot /\ fs[i].stop <= Len(ps[fs[i].page])
    BY <2>1 DEF FrameOK
  <2>4. fs[i].page \in 1..Len(ps2) /\ fs[i].page <= hot2
    BY <1>1, <2>2, <2>3
  <2>5. fs[i].stop <= Len(ps2[fs[i].page])
    <3>1. ps[fs[i].page] \in Seq(Entry) /\ ps2[fs[i].page] \in Seq(Entry)
      BY <1>2, <2>3, <2>4, ElementType
    <3>2. CASE fs[i].page # hot2
      BY <2>3, <3>2 DEF Grown
    <3>3. CASE fs[i].page = hot2
      <4>1. Grows(ps[hot2], ps2[hot2])
        BY <2>3, <3>3, <1>1 DEF Grown
      <4>2. Len(ps[hot2]) \in Nat /\ Len(ps2[hot2]) \in Nat
        BY <3>1, <3>3
      <4> QED
        BY <2>2, <2>3, <3>3, <4>1, <4>2 DEF Grows
    <3> QED
      BY <3>2, <3>3
  <2>6. Anchored(fs[i]) => BoundaryAt(ps2, fs[i].page, fs[i].stop + 1)
    <3>1. Anchored(fs[i]) => BoundaryAt(ps, fs[i].page, fs[i].stop + 1)
      BY AllRunning
    <3> QED
      BY <1>1, <1>2, <3>1, GrownBoundary
  <2> QED
    BY <2>1, <2>4, <2>5, <2>6 DEF FrameOK
<1> QED
  BY <1>3, <1>4, <1>5, <1>6
----------------------------------------------------------------------------
(* The client's steps: autorelease and push.                               *)

\* An entry more, and a page that is left behind is not empty.
LEMMA EmptyGrow ==
  ASSUME NEW hot, NEW ps, NEW ts, NEW fs, NEW hot2, NEW ps2,
         Inv(hot, ps, ts, fs), hot >= 1, Grown(hot, ps, hot2, ps2), hot2 # hot => ps[hot] # <<>>
  PROVE  EmptyInv(hot2, ps2, ts, fs)
<1> SUFFICES ASSUME ~LeaksWhileDebugging PROVE NoneEmpty(hot2, ps2, ts, fs)
  BY DEF EmptyInv
<1>0. Types(hot, ps, ts, fs) /\ NoneEmpty(hot, ps, ts, fs)
  BY DEF Inv, EmptyInv
<1>1. hot \in Nat /\ hot <= Len(ps) /\ Len(ps) \in Nat /\ ps2[hot2] # <<>> /\ hot2 \in {hot, hot + 1}
  BY <1>0, Typing DEF Grown
<1>2. ASSUME NEW j \in 1..Len(ps2), j < hot2, ps2[j] = <<>> PROVE DebugPoolAllocation /\ \E i \in 1..Len(fs) : MadeBy(ts, fs, i, j)
  <2>1. Len(ps2) \in Nat
    BY DEF Grown
  <2>2. j \in 1..Len(ps) /\ j # hot2
    BY <1>1, <1>2, <2>1
  <2>3. ps[j] = <<>>
    BY <1>2, <2>2 DEF Grown
  <2>4. j < hot
    BY <1>1, <1>2, <2>1, <2>3
  <2> QED
    BY <1>0, <2>2, <2>3, <2>4 DEF NoneEmpty
<1> QED
  BY <1>1, <1>2 DEF NoneEmpty

\* The next page is the child: what is there is empty, so not full.
LEMMA NextPageIsChild ==
  ASSUME PoolInv, tls >= 1
  PROVE  NextPage = tls + 1
<1>0. Types(tls, pages, tokens, frames) /\ HotInv(tls, pages, frames) /\ env \in Environments
  BY DEF PoolInv, Inv
<1>1. tls \in Nat /\ Len(pages) \in Nat /\ tls <= Len(pages)
  BY <1>0, Typing
<1>2. PageSize[env] >= 1 /\ PageSize[env] \in Nat
  BY <1>0, PoolAssumption
<1>3. \A j \in 1..Len(pages) : j > tls => ~Full(pages[j])
  <2> SUFFICES ASSUME NEW j \in 1..Len(pages), j > tls PROVE ~Full(pages[j])
    OBVIOUS
  <2>1. pages[j] = <<>>
    BY <1>0 DEF HotInv
  <2>2. Len(pages[j]) = 0
    BY <2>1
  <2> QED
    BY <1>2, <2>2 DEF Full
<1> DEFINE C(k) == /\ k = Len(pages) + 1 \/ ~Full(pages[k])
                   /\ \A j \in tls + 1 .. k - 1 : Full(pages[j])
<1>4. tls + 1 \in tls + 1 .. Len(pages) + 1 /\ C(tls + 1)
  BY <1>1, <1>3
<1>5. ASSUME NEW k \in tls + 1 .. Len(pages) + 1, C(k) PROVE k = tls + 1
  <2>1. SUFFICES ASSUME k # tls + 1 PROVE FALSE
    OBVIOUS
  <2>2. tls + 1 \in tls + 1 .. k - 1 /\ tls + 1 \in 1..Len(pages) /\ tls + 1 > tls
    BY <1>1, <2>1
  <2> QED
    BY <1>3, <1>5, <2>2
<1>6. NextPage = CHOOSE k \in tls + 1 .. Len(pages) + 1 : C(k)
  BY DEF NextPage
<1> HIDE DEF C
<1> QED
  BY <1>4, <1>5, <1>6

\* What adding to the hot page or to the next one does.
LEMMA FastEffect ==
  ASSUME PoolInv, tls >= 1, NEW obj \in Objects \cup {NoObject}, AddToHotPage(obj) \/ AutoreleaseFullPage(obj)
  PROVE  /\ Grown(tls, pages, tls', pages')
         /\ AddToHotPage(obj) => tls' = tls
         /\ AutoreleaseFullPage(obj) => tls' = tls + 1
         /\ obj = NoObject => /\ BoundaryAt(pages', tls', Len(pages'[tls']))
                              /\ tls' = tls => Len(pages'[tls']) = Len(pages[tls]) + 1
                              /\ tls' # tls => Len(pages'[tls']) = 1
<1>0. Types(tls, pages, tokens, frames) /\ HotInv(tls, pages, frames) /\ env \in Environments /\ pages \in Seq(Seq(Entry))
  BY DEF PoolInv, Inv, Types
<1>1. tls \in Nat /\ Len(pages) \in Nat /\ tls <= Len(pages) /\ tls \in 1..Len(pages) /\ tls + 1 # tls
  BY <1>0, Typing
<1>2. <<>> \in Seq(Entry) /\ Len(<<>>) = 0
  OBVIOUS
<1>3. CASE AddToHotPage(obj)
  <2> DEFINE p == pages[tls]
             q == Add(p, obj)
  <2>1. p \in Seq(Entry)
    BY <1>0, <1>1, ElementType
  <2>2. q \in Seq(Entry) /\ q # <<>> /\ Grows(p, q) /\ (obj = NoObject => Len(q) = Len(p) + 1 /\ q[Len(p) + 1] = Boundary)
    BY <2>1, AddEffect
  <2>3. pages' = [pages EXCEPT ![tls] = q] /\ tls' = tls
    BY <1>3 DEF AddToHotPage
  <2> HIDE DEF q
  <2>4. /\ pages' \in Seq(Seq(Entry)) /\ Len(pages') = Len(pages)
        /\ pages'[tls] = q /\ \A k \in 1..Len(pages) : k # tls => pages'[k] = pages[k]
    BY <1>0, <1>1, <2>2, <2>3, ExceptEffect
  <2>5. \A k \in 1..Len(pages') : k > tls' => pages'[k] = <<>>
    <3> SUFFICES ASSUME NEW k \in 1..Len(pages), k > tls PROVE pages'[k] = <<>>
      BY <2>3, <2>4
    <3> QED
      BY <1>0, <1>1, <2>4, SMTT(30) DEF HotInv
  <2>6. Grown(tls, pages, tls', pages')
    BY <1>1, <2>2, <2>3, <2>4, <2>5 DEF Grown
  <2>7. obj = NoObject => BoundaryAt(pages', tls', Len(pages'[tls'])) /\ Len(pages'[tls']) = Len(pages[tls]) + 1
    BY <1>1, <2>1, <2>2, <2>3, <2>4 DEF BoundaryAt
  <2>8. ~AutoreleaseFullPage(obj)
    BY <1>1, <2>3, NextPageIsChild DEF AutoreleaseFullPage
  <2> QED
    BY <2>3, <2>6, <2>7, <2>8
<1>4. CASE AutoreleaseFullPage(obj)
  <2> DEFINE q == Add(<<>>, obj)
             h == tls + 1
  <2>1. NextPage = h
    BY NextPageIsChild
  <2>2. q \in Seq(Entry) /\ q # <<>> /\ Grows(<<>>, q) /\ (obj = NoObject => Len(q) = 1 /\ q[1] = Boundary)
    BY AddFirst
  <2>3. tls' = h /\ h # tls
    BY <1>1, <1>4, <2>1 DEF AutoreleaseFullPage
  <2>4. /\ pages' \in Seq(Seq(Entry)) /\ Len(pages') >= Len(pages) /\ h <= Len(pages') /\ h \in 1..Len(pages') /\ pages'[h] = q
        /\ \A k \in 1..Len(pages) : k # h => pages'[k] = pages[k]
        /\ h <= Len(pages) => Grows(pages[h], pages'[h])
        /\ \A k \in 1..Len(pages') : k > h => pages'[k] = <<>>
    <3>1. CASE h > Len(pages)
      <4>1. pages' = Append(pages, q)
        BY <1>4, <2>1, <3>1 DEF AutoreleaseFullPage
      <4>2. h = Len(pages) + 1
        BY <1>1, <3>1
      <4> HIDE DEF q
      <4>3. /\ pages' \in Seq(Seq(Entry)) /\ Len(pages') = Len(pages) + 1
            /\ pages'[h] = q /\ \A k \in 1..Len(pages) : pages'[k] = pages[k]
        BY <1>0, <2>2, <4>1, <4>2, AppendEffect
      <4> HIDE DEF h
      <4> QED
        BY <1>1, <4>2, <4>3
    <3>2. CASE h <= Len(pages)
      <4>1. h \in 1..Len(pages) /\ ~(h > Len(pages)) /\ h > tls
        BY <1>1, <3>2
      <4>2. pages[h] = <<>>
        BY <1>0, <4>1 DEF HotInv
      <4>3. pages' = [pages EXCEPT ![h] = q]
        BY <1>4, <2>1, <4>1, <4>2 DEF AutoreleaseFullPage
      <4> HIDE DEF q, h
      <4>4. /\ pages' \in Seq(Seq(Entry)) /\ Len(pages') = Len(pages)
            /\ pages'[h] = q /\ \A k \in 1..Len(pages) : k # h => pages'[k] = pages[k]
        BY <1>0, <2>2, <4>1, <4>3, ExceptEffect
      <4>5. \A k \in 1..Len(pages) : k > h => k > tls /\ k # h
        BY <1>1, <4>1
      <4>6. \A k \in 1..Len(pages') : k > h => pages'[k] = <<>>
        BY <1>0, <4>4, <4>5 DEF HotInv
      <4>7. Grows(pages[h], pages'[h])
        BY <2>2, <4>2, <4>4
      <4> QED
        BY <1>1, <4>1, <4>4, <4>6, <4>7
    <3>3. h > Len(pages) \/ h <= Len(pages)
      BY <1>1
    <3> HIDE DEF q, h
    <3> QED
      BY <3>1, <3>2, <3>3
  <2>5. Grown(tls, pages, tls', pages')
    BY <2>2, <2>3, <2>4 DEF Grown
  <2>6. obj = NoObject => BoundaryAt(pages', tls', Len(pages'[tls'])) /\ Len(pages'[tls']) = 1
    BY <2>2, <2>3, <2>4 DEF BoundaryAt
  <2> QED
    BY <2>3, <2>5, <2>6, <1>1 DEF AddToHotPage
<1> QED
  BY <1>3, <1>4

\* A pool is pushed on top: its token comes last.
LEMMA TokenPushed ==
  ASSUME NEW hot, NEW ps, NEW ts, NEW fs, NEW tok \in Token,
         Types(hot, ps, ts, fs), TokenInv(hot, ps, ts), FrameInv(hot, ps, ts, fs), Runs(fs),
         (hot = Placeholder /\ tok = PlaceholderToken) \/ BoundaryAt(ps, PageOf(tok), SlotOf(tok)),
         DebugPoolAllocation => SlotOf(tok) = 1,
         \A n \in 1..Len(ts) : Earlier(ts[n], tok),
         \A i \in 1..Len(fs) : Over(fs[i], PageOf(tok), SlotOf(tok))
  PROVE  Types(hot, ps, Append(ts, tok), fs) /\ TokenInv(hot, ps, Append(ts, tok)) /\ FrameInv(hot, ps, Append(ts, tok), fs)
<1> DEFINE ts2 == Append(ts, tok)
           m == Len(ts)
<1>1. ts \in Seq(Token) /\ m \in Nat /\ Len(fs) \in Nat /\ (fs = <<>> <=> Len(fs) = 0)
  BY Typing DEF Types
<1>2. ts2 \in Seq(Token) /\ Len(ts2) = m + 1 /\ ts2[m + 1] = tok /\ \A n \in 1..m : ts2[n] = ts[n]
  BY <1>1, AppendEffect
<1> HIDE DEF ts2
<1>3. \A n \in 1..Len(ts2) : n = m + 1 \/ n \in 1..m
  BY <1>1, <1>2
<1>4. Types(hot, ps, ts2, fs)
  BY <1>2 DEF Types
<1>5. TokenInv(hot, ps, ts2)
  <2>1. \A n \in 1..Len(ts2) :
          /\ (hot = Placeholder /\ ts2[n] = PlaceholderToken) \/ BoundaryAt(ps, PageOf(ts2[n]), SlotOf(ts2[n]))
          /\ DebugPoolAllocation => SlotOf(ts2[n]) = 1
    BY <1>2, <1>3 DEF TokenInv
  <2>2. ASSUME NEW k \in 1..Len(ts2), NEW n \in 1..Len(ts2), k < n PROVE Earlier(ts2[k], ts2[n])
    <3>1. k \in 1..m
      BY <1>1, <1>2, <2>2
    <3>2. CASE n = m + 1
      BY <1>2, <3>1, <3>2
    <3>3. CASE n \in 1..m
      BY <1>2, <2>2, <3>1, <3>3 DEF TokenInv
    <3> QED
      BY <1>3, <3>2, <3>3
  <2> QED
    BY <2>1, <2>2 DEF TokenInv
<1>6. FrameInv(hot, ps, ts2, fs)
  <2> SUFFICES ASSUME NEW i \in 1..Len(fs) PROVE FrameOK(hot, ps, ts2, fs, i)
    BY DEF FrameInv
  <2>0. \A j \in 1..Len(fs) : FrameOK(hot, ps, ts, fs, j)
    BY DEF FrameInv
  <2>1. \A j \in 1..Len(fs) : fs[j].running
    <3> TAKE j \in 1..Len(fs)
    <3>1. CASE j < Len(fs)
      BY <2>0, <3>1 DEF FrameOK
    <3>2. CASE j = Len(fs)
      BY <1>1, <3>2 DEF Runs
    <3> QED
      BY <1>1, <3>1, <3>2
  <2>2. \A j \in 1..Len(fs) : Older(fs[j], ts) = fs[j].pools /\ Older(fs[j], ts2) = fs[j].pools
    BY <2>1 DEF Older
  <2>3. fs[i].pools \in Nat /\ fs[i].pools <= m
    <3>1. fs[i].pools \in Nat
      BY Typing
    <3> QED
      BY <2>0, <2>2, <3>1 DEF FrameOK
  <2>4. Older(fs[i], ts2) <= Len(ts2)
    BY <1>1, <1>2, <2>2, <2>3
  <2>5. \A n \in 1..Len(ts2) : n <= Older(fs[i], ts2) => Under(fs[i], PageOf(ts2[n]), SlotOf(ts2[n]))
    <3> SUFFICES ASSUME NEW n \in 1..Len(ts2), n <= fs[i].pools PROVE Under(fs[i], PageOf(ts2[n]), SlotOf(ts2[n]))
      BY <2>2
    <3>1. n \in 1..m
      BY <1>1, <1>2, <2>3
    <3> QED
      BY <1>2, <2>0, <2>2, <3>1 DEF FrameOK
  <2>6. \A n \in 1..Len(ts2) : n > Older(fs[i], ts2) => Over(fs[i], PageOf(ts2[n]), SlotOf(ts2[n]))
    <3> SUFFICES ASSUME NEW n \in 1..Len(ts2), n > fs[i].pools PROVE Over(fs[i], PageOf(ts2[n]), SlotOf(ts2[n]))
      BY <2>2
    <3>1. CASE n \in 1..m
      BY <1>2, <2>0, <2>2, <3>1 DEF FrameOK
    <3>2. CASE n = m + 1
      BY <1>2, <3>2
    <3> QED
      BY <1>3, <3>1, <3>2
  <2>7. \A j \in 1..Len(fs) : i < j => Over(fs[i], fs[j].page, fs[j].stop + 1) /\ Older(fs[i], ts2) <= Older(fs[j], ts2)
    <3>1. \A j \in 1..Len(fs) : i < j => Over(fs[i], fs[j].page, fs[j].stop + 1) /\ Older(fs[i], ts) <= Older(fs[j], ts)
      BY <2>0 DEF FrameOK
    <3> QED
      BY <2>2, <3>1
  <2> QED
    BY <2>0, <2>4, <2>5, <2>6, <2>7 DEF FrameOK
<1> QED
  BY <1>4, <1>5, <1>6 DEF ts2
----------------------------------------------------------------------------
(* Without pages.                                                          *)

LEMMA NothingThere == Inv(Nil, <<>>, <<>>, <<>>)
<1>1. <<>> \in Seq(Seq(Entry)) /\ <<>> \in Seq(Token) /\ <<>> \in Seq(Drain) /\ Len(<<>>) = 0 /\ 1..0 = {}
  OBVIOUS
<1>2. Nil \in Int /\ Nil < 1 /\ Nil # Placeholder /\ ~(Nil >= 1)
  BY DEF Nil, Placeholder
<1>3. Types(Nil, <<>>, <<>>, <<>>)
  BY <1>1 DEF Types
<1>4. HotInv(Nil, <<>>, <<>>)
  BY <1>1, <1>2 DEF HotInv
<1>5. TokenInv(Nil, <<>>, <<>>)
  BY <1>1 DEF TokenInv
<1>6. FrameInv(Nil, <<>>, <<>>, <<>>)
  BY <1>1 DEF FrameInv
<1>7. EmptyInv(Nil, <<>>, <<>>, <<>>)
  BY <1>1 DEF EmptyInv, NoneEmpty
<1> QED
  BY <1>3, <1>4, <1>5, <1>6, <1>7 DEF Inv

\* The only token without a page is the placeholder's.
LEMMA NoPageTokens ==
  ASSUME NEW hot, NEW ps, NEW ts, NEW fs, Inv(hot, ps, ts, fs), hot < 1
  PROVE  /\ ps = <<>> /\ fs = <<>> /\ hot \in {Nil, Placeholder}
         /\ hot = Nil => ts = <<>>
         /\ hot = Placeholder => Len(ts) \in {0, 1} /\ \A n \in 1..Len(ts) : ts[n] = PlaceholderToken
<1>0. Types(hot, ps, ts, fs) /\ HotInv(hot, ps, fs) /\ TokenInv(hot, ps, ts)
  BY DEF Inv
<1>1. ps = <<>> /\ fs = <<>>
  BY <1>0 DEF HotInv
<1>2. hot \in {Nil, Placeholder} /\ Len(ts) \in Nat /\ (ts = <<>> <=> Len(ts) = 0)
  <2>1. Len(ps) = 0
    BY <1>1
  <2>2. hot \in {Placeholder, Nil} \cup 1..Len(ps)
    BY <1>0 DEF Types
  <2>3. hot \in {Nil, Placeholder}
    BY <2>1, <2>2
  <2> QED
    BY <1>0, <2>3, Typing
<1>3. \A n \in 1..Len(ts) : hot = Placeholder /\ ts[n] = PlaceholderToken
  <2>1. \A p, s : ~BoundaryAt(ps, p, s)
    BY <1>1 DEF BoundaryAt
  <2> QED
    BY <1>0, <2>1 DEF TokenInv
<1>4. Nil # Placeholder
  BY DEF Nil, Placeholder
<1>5. hot = Nil => ts = <<>>
  <2> SUFFICES ASSUME hot = Nil, Len(ts) # 0 PROVE FALSE
    BY <1>2
  <2>1. 1 \in 1..Len(ts)
    BY <1>2
  <2> QED
    BY <1>3, <1>4, <2>1
<1>6. Len(ts) \in {0, 1}
  <2> SUFFICES ASSUME Len(ts) > 1 PROVE FALSE
    BY <1>2
  <2>1. 1 \in 1..Len(ts) /\ 2 \in 1..Len(ts) /\ 1 < 2
    BY <1>2
  <2>2. Earlier(ts[1], ts[2]) /\ ts[1] = PlaceholderToken /\ ts[2] = PlaceholderToken
    BY <1>0, <1>3, <2>1 DEF TokenInv
  <2> QED
    BY <2>2 DEF Earlier, PageOf, SlotOf
<1> QED
  BY <1>1, <1>2, <1>3, <1>5, <1>6

\* The first page begins with a boundary, unless it is made for an object without a pool.
LEMMA FirstPageMade ==
  ASSUME NEW obj \in Objects \cup {NoObject}
  PROVE  /\ FirstPage(obj) \in Seq(Entry) /\ FirstPage(obj) # <<>>
         /\ tls = Placeholder \/ obj = NoObject => FirstPage(obj)[1] = Boundary
         /\ obj = NoObject => /\ FirstPage(obj)[Len(FirstPage(obj))] = Boundary
                              /\ Len(FirstPage(obj)) = IF tls = Placeholder THEN 2 ELSE 1
<1> DEFINE one == Add(<<>>, NoObject)
           p == IF tls = Placeholder THEN one ELSE <<>>
           q == Add(p, obj)
<1>1. \A r \in Seq(Entry), o \in Objects \cup {NoObject} :
        /\ Add(r, o) \in Seq(Entry) /\ Add(r, o) # <<>> /\ Grows(r, Add(r, o))
        /\ o = NoObject => Len(Add(r, o)) = Len(r) + 1 /\ Add(r, o)[Len(r) + 1] = Boundary
  BY AddEffect
<1>2. <<>> \in Seq(Entry) /\ Len(<<>>) = 0 /\ NoObject \in Objects \cup {NoObject}
  OBVIOUS
<1>3. one \in Seq(Entry) /\ Len(one) = 1 /\ one[1] = Boundary
  BY <1>2, AddFirst
<1>4. FirstPage(obj) = q
  BY DEF FirstPage
<1> HIDE DEF one
<1>5. p \in Seq(Entry) /\ Len(p) = (IF tls = Placeholder THEN 1 ELSE 0) /\ (tls = Placeholder => p[1] = Boundary)
  <2>1. CASE tls = Placeholder
    <3>1. p = one
      BY <2>1
    <3> QED
      BY ONLY <2>1, <3>1, <1>3
  <2>2. CASE tls # Placeholder
    <3>1. p = <<>>
      BY <2>2
    <3> HIDE DEF p
    <3>2. p \in Seq(Entry) /\ Len(p) = 0
      BY <3>1
    <3> QED
      BY <2>2, <3>2
  <2> QED
    BY <2>1, <2>2
<1> HIDE DEF p
<1>6. /\ q \in Seq(Entry) /\ q # <<>> /\ Grows(p, q)
      /\ obj = NoObject => Len(q) = Len(p) + 1 /\ q[Len(p) + 1] = Boundary
  BY <1>1, <1>5
<1> HIDE DEF q
<1>7. tls = Placeholder => q[1] = Boundary
  <2>1. tls = Placeholder => 1 \in 1..Len(p)
    BY <1>5
  <2> QED
    BY <1>5, <1>6, <2>1 DEF Grows
<1>8. obj = NoObject => Len(q) = (IF tls = Placeholder THEN 2 ELSE 1) /\ q[Len(q)] = Boundary
  BY <1>5, <1>6
<1>9. obj = NoObject /\ tls # Placeholder => q[1] = Boundary
  BY <1>5, <1>6
<1> QED
  BY <1>4, <1>6, <1>7, <1>8, <1>9

\* The first page becomes hot.
LEMMA FirstPageHot ==
  ASSUME NEW hot, NEW ps, NEW ts, NEW fs, Inv(hot, ps, ts, fs), hot < 1,
         NEW fp \in Seq(Entry), fp # <<>>, hot = Placeholder \/ DebugMissingPools => fp[1] = Boundary
  PROVE  Inv(1, <<fp>>, ts, fs)
<1> DEFINE ps2 == <<fp>>
<1>1. ps2 \in Seq(Seq(Entry)) /\ Len(ps2) = 1 /\ ps2[1] = fp /\ 1 \in 1..Len(ps2) /\ Len(fp) \in Nat /\ Len(fp) >= 1
  BY EmptyLen
<1>2. /\ ps = <<>> /\ fs = <<>> /\ hot \in {Nil, Placeholder} /\ (hot = Nil => ts = <<>>)
      /\ hot = Placeholder => Len(ts) \in {0, 1} /\ \A n \in 1..Len(ts) : ts[n] = PlaceholderToken
  BY NoPageTokens
<1>3. Types(hot, ps, ts, fs) /\ HotInv(hot, ps, fs) /\ TokenInv(hot, ps, ts)
  BY DEF Inv
<1> HIDE DEF ps2
<1>4. Types(1, ps2, ts, fs)
  BY <1>1, <1>3 DEF Types
<1>5. HotInv(1, ps2, fs)
  <2>1. 1 # Placeholder /\ ~(1 < 1) /\ \A k \in 1..Len(ps2) : ~(k > 1)
    BY <1>1 DEF Placeholder
  <2> QED
    BY <1>1, <2>1 DEF HotInv
<1>6. TokenInv(1, ps2, ts)
  <2>1. ASSUME NEW n \in 1..Len(ts) PROVE BoundaryAt(ps2, PageOf(ts[n]), SlotOf(ts[n]))
    <3>1. hot = Placeholder /\ ts[n] = PlaceholderToken
      BY <1>2
    <3>2. PageOf(ts[n]) = 1 /\ SlotOf(ts[n]) = 1
      BY <3>1 DEF PageOf, SlotOf
    <3>3. BoundaryAt(ps2, 1, 1)
      BY <1>1, <3>1 DEF BoundaryAt
    <3> QED
      BY <3>2, <3>3
  <2> QED
    BY <1>3, <2>1 DEF TokenInv
<1>7. FrameInv(1, ps2, ts, fs)
  BY <1>2 DEF FrameInv
<1>8. EmptyInv(1, ps2, ts, fs)
  BY <1>1, <1>2 DEF EmptyInv, NoneEmpty
<1> QED
  BY <1>4, <1>5, <1>6, <1>7, <1>8 DEF Inv, ps2

----------------------------------------------------------------------------
(* The steps.                                                              *)

LEMMA NowRuns ==
  ASSUME PoolInv, ClientRuns
  PROVE  Runs(frames)
<1>1. frames \in Seq(Drain)
  BY DEF PoolInv, Inv, Types
<1> QED
  BY <1>1, FrontEffect DEF Runs, ClientRuns, Frame

LEMMA KeptByAutorelease ==
  ASSUME PoolInv, NEW o \in Objects, Autorelease(o)
  PROVE  Inv(tls', pages', tokens', frames')
<1>0. Inv(tls, pages, tokens, frames) /\ env \in Environments
  BY DEF PoolInv
<1>1. tokens' = tokens /\ frames' = frames /\ AutoreleaseFast(o) /\ Runs(frames)
  BY NowRuns DEF Autorelease
<1>2. o # NoObject /\ o \in Objects \cup {NoObject}
  BY BoundaryType
<1>3. tls \in Int /\ tls >= -1
  BY <1>0, Typing DEF Inv
<1>4. CASE tls >= 1
  <2>1. HotPage # Nil
    BY <1>3, <1>4 DEF HotPage, Nil, Placeholder
  <2>2. IF Full(pages[tls]) THEN AutoreleaseFullPage(o) ELSE AddToHotPage(o)
    BY <1>1, <2>1 DEF AutoreleaseFast
  <2>3. /\ Grown(tls, pages, tls', pages')
        /\ AddToHotPage(o) => tls' = tls
        /\ AutoreleaseFullPage(o) => tls' = tls + 1
    BY <1>2, <1>4, <2>2, FastEffect
  <2>4. tls' # tls => pages[tls] # <<>>
    <3> SUFFICES ASSUME Full(pages[tls]) PROVE pages[tls] # <<>>
      BY <2>2, <2>3
    <3>1. PageSize[env] \in Nat /\ PageSize[env] >= 1
      BY <1>0, PoolAssumption
    <3>2. Len(pages[tls]) >= 1
      BY <3>1 DEF Full
    <3>3. Len(<<>>) = 0
      OBVIOUS
    <3> QED
      BY <3>2, <3>3
  <2>5. EmptyInv(tls', pages', tokens, frames)
    BY <1>0, <1>4, <2>3, <2>4, EmptyGrow
  <2>6. /\ Types(tls', pages', tokens, frames) /\ HotInv(tls', pages', frames)
        /\ TokenInv(tls', pages', tokens) /\ FrameInv(tls', pages', tokens, frames)
    BY <1>0, <1>1, <1>4, <2>3, PagesGrow
  <2> QED
    BY <1>1, <2>5, <2>6 DEF Inv
<1>5. CASE tls < 1
  <2>1. HotPage = Nil
    BY <1>0, <1>5, NoPageTokens DEF HotPage
  <2>2. AutoreleaseNoPage(o)
    BY <1>1, <2>1 DEF AutoreleaseFast
  <2>3. CASE tls # Placeholder /\ DebugMissingPools
    BY <1>0, <1>1, <1>2, <2>2, <2>3 DEF AutoreleaseNoPage
  <2>4. CASE ~(tls # Placeholder /\ DebugMissingPools)
    <3>1. tls' = 1 /\ pages' = <<FirstPage(o)>>
      BY <1>2, <2>2, <2>4 DEF AutoreleaseNoPage
    <3>2. /\ FirstPage(o) \in Seq(Entry) /\ FirstPage(o) # <<>>
          /\ tls = Placeholder => FirstPage(o)[1] = Boundary
      BY <1>2, FirstPageMade
    <3>3. tls = Placeholder \/ DebugMissingPools => FirstPage(o)[1] = Boundary
      BY <2>4, <3>2
    <3>4. Inv(1, <<FirstPage(o)>>, tokens, frames)
      BY <1>0, <1>5, <3>2, <3>3, FirstPageHot
    <3> QED
      BY <1>1, <3>1, <3>4
  <2> QED
    BY <2>3, <2>4
<1> QED
  BY <1>3, <1>4, <1>5

\* The place of a push on the hot page or on the next is above all tokens and frames.
LEMMA NewPlace ==
  ASSUME NEW hot, NEW ps, NEW ts, NEW fs, NEW hot2, NEW s, Inv(hot, ps, ts, fs), hot >= 1, Runs(fs),
         NEW tok \in Token, PageOf(tok) = hot2, SlotOf(tok) = s,
         (hot2 = hot /\ s = Len(ps[hot]) + 1 /\ ~DebugPoolAllocation) \/ (hot2 = hot + 1 /\ s = 1)
  PROVE  /\ \A n \in 1..Len(ts) : Earlier(ts[n], tok)
         /\ \A i \in 1..Len(fs) : Over(fs[i], hot2, s)
<1>0. Types(hot, ps, ts, fs) /\ FrameInv(hot, ps, ts, fs)
  BY DEF Inv
<1>1. hot \in Nat /\ Len(ps) \in Nat /\ hot \in 1..Len(ps) /\ Len(ps[hot]) \in Nat
  <2>1. hot \in Nat /\ Len(ps) \in Nat /\ hot \in 1..Len(ps)
    BY <1>0, Typing
  <2> QED
    BY <1>0, <2>1, Typing
<1>2. ASSUME NEW n \in 1..Len(ts) PROVE Earlier(ts[n], tok)
  <2>1. PageOf(ts[n]) \in 1..hot /\ SlotOf(ts[n]) \in 1..Len(ps[PageOf(ts[n])])
    BY TokenPlace
  <2>2. CASE hot2 = hot + 1
    BY <1>1, <2>1, <2>2 DEF Earlier
  <2>3. CASE PageOf(ts[n]) < hot /\ hot2 = hot
    BY <2>3 DEF Earlier
  <2>4. CASE PageOf(ts[n]) = hot /\ hot2 = hot
    <3>1. SlotOf(ts[n]) < Len(ps[hot]) + 1
      BY <1>1, <2>1, <2>4
    <3>2. s = Len(ps[hot]) + 1
      BY <1>1, <2>4
    <3> QED
      BY <2>4, <3>1, <3>2 DEF Earlier
  <2> QED
    BY <1>1, <2>1, <2>2, <2>3, <2>4
<1>3. ASSUME NEW i \in 1..Len(fs) PROVE Over(fs[i], hot2, s)
  <2>1. fs[i].page \in Nat /\ fs[i].stop \in Nat
    BY <1>0, Typing
  <2>2. fs[i].page <= hot /\ fs[i].stop <= Len(ps[fs[i].page])
    BY <1>0 DEF FrameInv, FrameOK
  <2>3. CASE hot2 = hot + 1 \/ fs[i].page < hot
    BY <1>1, <2>1, <2>2, <2>3 DEF Over
  <2>4. CASE fs[i].page = hot /\ hot2 = hot
    <3>1. s = Len(ps[hot]) + 1 /\ ~DebugPoolAllocation
      BY <1>1, <2>4
    <3>2. Anchored(fs[i]) => fs[i].stop + 1 <= Len(ps[hot])
      <4>1. Anchored(fs[i]) => BoundaryAt(ps, fs[i].page, fs[i].stop + 1)
        BY AllRunning
      <4> QED
        BY <1>1, <2>4, <4>1 DEF BoundaryAt
    <3>3. s > fs[i].stop /\ (Anchored(fs[i]) => s > fs[i].stop + 1)
      BY <1>1, <2>1, <2>2, <2>4, <3>1, <3>2
    <3> QED
      BY <2>4, <3>1, <3>3 DEF Over
  <2> QED
    BY <1>1, <2>1, <2>2, <2>3, <2>4
<1> QED
  BY <1>2, <1>3

LEMMA KeptByPush ==
  ASSUME PoolInv, Push
  PROVE  Inv(tls', pages', tokens', frames')
<1> DEFINE tok == IF tls' = Placeholder THEN PlaceholderToken ELSE [page |-> tls', slot |-> Len(pages'[tls'])]
<1>0. Inv(tls, pages, tokens, frames)
  BY DEF PoolInv
<1>a. Types(tls, pages, tokens, frames) /\ HotInv(tls, pages, frames) /\ EmptyInv(tls, pages, tokens, frames)
  BY <1>0 DEF Inv
<1>1. tokens' = Append(tokens, tok) /\ frames' = frames /\ Runs(frames)
  BY NowRuns DEF Push
<1>2. NoObject \in Objects \cup {NoObject}
  OBVIOUS
<1>3. tls \in Int /\ tls >= -1 /\ Len(tokens) \in Nat
  BY <1>a, Typing
<1>4. CASE tls >= 1
  <2>1. HotPage # Nil
    BY <1>3, <1>4 DEF HotPage, Nil, Placeholder
  <2>2. AddToHotPage(NoObject) \/ AutoreleaseFullPage(NoObject)
    BY <2>1 DEF Push, AutoreleaseFast, AutoreleaseNewPage
  <2>3. DebugPoolAllocation => AutoreleaseFullPage(NoObject)
    BY <2>1 DEF Push, AutoreleaseNewPage
  <2>3a. ~DebugPoolAllocation /\ ~Full(pages[tls]) => AddToHotPage(NoObject)
    BY <2>1 DEF Push, AutoreleaseFast
  <2>3b. ~DebugPoolAllocation /\ Full(pages[tls]) => pages[tls] # <<>>
    <3>1. PageSize[env] \in Nat /\ PageSize[env] >= 1
      BY PoolAssumption DEF PoolInv
    <3>2. Full(pages[tls]) => Len(pages[tls]) >= 1
      BY <3>1 DEF Full
    <3>3. Len(<<>>) = 0
      OBVIOUS
    <3> QED
      BY <3>2, <3>3
  <2>4. /\ Grown(tls, pages, tls', pages')
        /\ AddToHotPage(NoObject) => tls' = tls
        /\ AutoreleaseFullPage(NoObject) => tls' = tls + 1
        /\ BoundaryAt(pages', tls', Len(pages'[tls']))
        /\ tls' = tls => Len(pages'[tls']) = Len(pages[tls]) + 1
        /\ tls' # tls => Len(pages'[tls']) = 1
    BY <1>2, <1>4, <2>2, FastEffect
  <2>5. tls' \in {tls, tls + 1} /\ tls' \in Nat /\ tls' >= 1 /\ tls' # Placeholder
    BY <1>3, <1>4, <2>4 DEF Grown, Placeholder
  <2>6. tok = [page |-> tls', slot |-> Len(pages'[tls'])]
    BY <2>5
  <2>7. Len(pages'[tls']) \in Nat
    <3>1. tls' \in 1..Len(pages')
      BY <2>4 DEF BoundaryAt
    <3>2. pages'[tls'] \in Seq(Entry)
      BY <2>4, <3>1, ElementType DEF Grown
    <3> QED
      BY <3>2
  <2> HIDE DEF tok
  <2>8. tok \in Token /\ tok.page = tls' /\ tok.slot = Len(pages'[tls']) /\ tok # PlaceholderToken
    BY <2>5, <2>6, <2>7 DEF Token, PlaceholderToken, Nil
  <2>9. PageOf(tok) = tls' /\ SlotOf(tok) = Len(pages'[tls'])
    BY <2>8 DEF PageOf, SlotOf
  <2>10. /\ Types(tls', pages', tokens, frames) /\ HotInv(tls', pages', frames)
         /\ TokenInv(tls', pages', tokens) /\ FrameInv(tls', pages', tokens, frames)
    BY <1>0, <1>1, <1>4, <2>4, PagesGrow
  <2>11. (tls' = tls /\ Len(pages'[tls']) = Len(pages[tls]) + 1 /\ ~DebugPoolAllocation) \/ (tls' = tls + 1 /\ Len(pages'[tls']) = 1)
    BY <1>3, <2>3, <2>4, <2>5
  <2>12. /\ \A n \in 1..Len(tokens) : Earlier(tokens[n], tok)
         /\ \A i \in 1..Len(frames) : Over(frames[i], tls', Len(pages'[tls']))
    <3>1. Len(pages'[tls']) = SlotOf(tok)
      BY <2>9
    <3> QED
      BY ONLY <1>0, <1>1, <1>4, <2>8, <2>9, <2>11, NewPlace
  <2>13. BoundaryAt(pages', PageOf(tok), SlotOf(tok)) /\ (DebugPoolAllocation => SlotOf(tok) = 1)
    BY <1>3, <2>3, <2>4, <2>9
  <2>14. Types(tls', pages', Append(tokens, tok), frames) /\ TokenInv(tls', pages', Append(tokens, tok)) /\ FrameInv(tls', pages', Append(tokens, tok), frames)
    <3>1. \A i \in 1..Len(frames) : Over(frames[i], PageOf(tok), SlotOf(tok))
      BY <2>9, <2>12
    <3>2. \A n \in 1..Len(tokens) : Earlier(tokens[n], tok)
      BY <2>12
    <3> QED
      BY ONLY <1>1, <2>8, <2>10, <2>13, <3>1, <3>2, TokenPushed
  <2>15. EmptyInv(tls', pages', Append(tokens, tok), frames)
    <3> SUFFICES ASSUME ~LeaksWhileDebugging PROVE NoneEmpty(tls', pages', Append(tokens, tok), frames)
      BY DEF EmptyInv
    <3>0. NoneEmpty(tls, pages, tokens, frames)
      BY <1>a DEF EmptyInv
    <3> DEFINE ts2 == Append(tokens, tok)
               m == Len(tokens)
    <3>1. ts2 \in Seq(Token) /\ Len(ts2) = m + 1 /\ ts2[m + 1] = tok /\ \A n \in 1..m : ts2[n] = tokens[n]
      BY <1>a, <2>8, AppendEffect DEF Types
    <3> HIDE DEF ts2
    <3>2. pages'[tls'] # <<>>
      BY <2>4 DEF Grown
    <3>3. \A j \in 1..Len(pages') : j < tls' => j \in 1..Len(pages) /\ (j = tls \/ j < tls) /\ pages'[j] = pages[j]
      <4> SUFFICES ASSUME NEW j \in 1..Len(pages'), j < tls'
                   PROVE  j \in 1..Len(pages) /\ (j = tls \/ j < tls) /\ pages'[j] = pages[j]
        OBVIOUS
      <4>1. Len(pages) \in Nat /\ tls <= Len(pages)
        BY <1>4, <1>a, Typing
      <4>2. j \in Nat /\ j >= 1
        OBVIOUS
      <4>3. j \in 1..Len(pages) /\ (j = tls \/ j < tls) /\ j # tls'
        BY <1>3, <2>5, <4>1, <4>2
      <4> QED
        BY <2>4, <4>3 DEF Grown
    <3>4. ASSUME NEW i \in 1..Len(frames), NEW j \in 1..Len(pages), MadeBy(tokens, frames, i, j) PROVE MadeBy(ts2, frames, i, j)
      <4>1. frames[i].running /\ frames[i].pools \in Nat
        BY <1>a, <3>4, Typing DEF MadeBy
      <4>2. CASE frames[i].pools < m /\ PageOf(tokens[frames[i].pools + 1]) = j + 1
        <5>1. frames[i].pools + 1 \in 1..m /\ frames[i].pools < m + 1
          BY <1>3, <4>1, <4>2
        <5>2. ts2[frames[i].pools + 1] = tokens[frames[i].pools + 1]
          BY <3>1, <5>1
        <5> QED
          BY <3>1, <4>1, <4>2, <5>1, <5>2 DEF MadeBy
      <4>3. CASE i < Len(frames) /\ frames[i + 1].page = j + 1 /\ Older(frames[i + 1], tokens) = frames[i].pools
        <5>1. i + 1 \in 1..Len(frames)
          BY <1>a, <4>3, Typing
        <5>2. frames[i + 1].running
          BY <1>0, <1>1, <5>1, AllRunning
        <5>3. Older(frames[i + 1], ts2) = frames[i].pools
          BY <4>3, <5>2 DEF Older
        <5> QED
          BY <4>1, <4>3, <5>3 DEF MadeBy
      <4> QED
        BY <3>4, <4>2, <4>3 DEF MadeBy
    <3>5. ASSUME NEW j \in 1..Len(pages'), j < tls', pages'[j] = <<>> PROVE DebugPoolAllocation /\ \E i \in 1..Len(frames) : MadeBy(ts2, frames, i, j)
      <4>1. j \in 1..Len(pages) /\ (j = tls \/ j < tls) /\ pages[j] = <<>>
        BY <3>3, <3>5
      <4>2. CASE j < tls
        <5>1. DebugPoolAllocation /\ \E i \in 1..Len(frames) : MadeBy(tokens, frames, i, j)
          BY <3>0, <4>1, <4>2 DEF NoneEmpty
        <5> QED
          BY <3>4, <4>1, <5>1
      <4>3. CASE j = tls
        <5>1. tls' = tls + 1
          BY <2>5, <3>5, <4>3
        <5>2. DebugPoolAllocation
          <6> SUFFICES ASSUME ~DebugPoolAllocation PROVE FALSE
            OBVIOUS
          <6>1. Full(pages[tls])
            BY <2>3a, <2>4, <3>5, <4>3, <1>3, <5>1
          <6> QED
            BY <2>3b, <4>1, <4>3, <6>1
        <5>3. frames # <<>>
          BY <1>4, <1>a, <4>1, <4>3, <5>2 DEF HotInv
        <5> DEFINE i == Len(frames)
        <5>4. i \in 1..Len(frames) /\ frames[i].running
          BY <1>1, <1>a, <5>3, Typing DEF Runs
        <5>5. frames[i].pools = m
          BY <3>0, <4>1, <4>3, <5>2, <5>3, <5>4 DEF NoneEmpty
        <5>6. frames[i].pools < Len(ts2) /\ PageOf(ts2[frames[i].pools + 1]) = j + 1
          <6>1. m < Len(ts2)
            BY <1>3, <3>1
          <6>2. ts2[frames[i].pools + 1] = tok
            BY <3>1, <5>5
          <6> QED
            BY <2>9, <4>3, <5>1, <5>5, <6>1, <6>2
        <5> QED
          BY <5>2, <5>4, <5>6 DEF MadeBy
      <4> QED
        BY <4>1, <4>2, <4>3
    <3> QED
      BY <3>2, <3>5 DEF NoneEmpty, ts2
  <2> QED
    BY <1>1, <2>10, <2>14, <2>15 DEF Inv, tok
<1>5. CASE tls < 1
  <2>1. /\ pages = <<>> /\ frames = <<>> /\ tls \in {Nil, Placeholder} /\ (tls = Nil => tokens = <<>>)
        /\ tls = Placeholder => Len(tokens) \in {0, 1} /\ \A n \in 1..Len(tokens) : tokens[n] = PlaceholderToken
    BY <1>0, <1>5, NoPageTokens
  <2>2. HotPage = Nil /\ Nil # Placeholder
    BY <2>1 DEF HotPage, Nil, Placeholder
  <2>3. AutoreleaseNoPage(NoObject)
    BY <2>2 DEF Push, AutoreleaseFast, AutoreleaseNewPage
  <2>4. CASE tls # Placeholder /\ ~DebugPoolAllocation
    <3>1. tls' = Placeholder /\ pages' = pages
      BY <2>3, <2>4 DEF AutoreleaseNoPage
    <3>2. tok = PlaceholderToken /\ tokens = <<>>
      BY <2>1, <2>4, <3>1
    <3> HIDE DEF tok
    <3>3. tok \in Token
      BY <3>2 DEF PlaceholderToken, Token, Nil
    <3>4. Types(Placeholder, pages, tokens, frames) /\ Len(tokens) = 0 /\ Len(frames) = 0 /\ Len(pages) = 0
      BY <1>a, <2>1, <3>2, Typing DEF Types
    <3>5. TokenInv(Placeholder, pages, tokens) /\ FrameInv(Placeholder, pages, tokens, frames)
      BY <3>4 DEF TokenInv, FrameInv
    <3>6. HotInv(Placeholder, pages, frames)
      BY <2>1, <2>4, <3>4 DEF HotInv, Placeholder
    <3>7. /\ Types(Placeholder, pages, Append(tokens, tok), frames) /\ TokenInv(Placeholder, pages, Append(tokens, tok))
          /\ FrameInv(Placeholder, pages, Append(tokens, tok), frames)
      <4>1. \A n \in 1..Len(tokens) : Earlier(tokens[n], tok)
        BY <3>4
      <4>2. \A i \in 1..Len(frames) : Over(frames[i], PageOf(tok), SlotOf(tok))
        BY <3>4
      <4> QED
        BY <1>1, <2>4, <3>2, <3>3, <3>4, <3>5, <4>1, <4>2, TokenPushed
    <3>8. EmptyInv(Placeholder, pages, Append(tokens, tok), frames)
      BY <2>1, <3>4 DEF EmptyInv, NoneEmpty
    <3> QED
      BY <1>1, <3>1, <3>6, <3>7, <3>8 DEF Inv, tok
  <2>5. CASE ~(tls # Placeholder /\ ~DebugPoolAllocation)
    <3> DEFINE fp == FirstPage(NoObject)
    <3>1. tls' = 1 /\ pages' = <<fp>>
      BY <2>3, <2>5 DEF AutoreleaseNoPage
    <3>2. /\ fp \in Seq(Entry) /\ fp # <<>> /\ fp[1] = Boundary /\ fp[Len(fp)] = Boundary
          /\ Len(fp) = IF tls = Placeholder THEN 2 ELSE 1
      BY <1>2, FirstPageMade
    <3> HIDE DEF fp
    <3>3. Inv(1, <<fp>>, tokens, frames)
      BY <1>0, <1>5, <3>2, FirstPageHot
    <3> DEFINE ps2 == <<fp>>
    <3>4. Len(ps2) = 1 /\ ps2[1] = fp /\ Len(fp) \in Nat /\ Len(fp) >= 1
      BY <3>2
    <3>5. tok = [page |-> 1, slot |-> Len(fp)]
      BY <3>1, <3>4 DEF Placeholder
    <3> HIDE DEF tok, ps2
    <3>6. tok \in Token /\ PageOf(tok) = 1 /\ SlotOf(tok) = Len(fp)
      <4>1. tok \in Token /\ tok.page = 1 /\ tok.slot = Len(fp) /\ tok # PlaceholderToken
        BY <3>4, <3>5 DEF Token, PlaceholderToken, Nil
      <4> QED
        BY <4>1 DEF PageOf, SlotOf
    <3>7. BoundaryAt(ps2, 1, Len(fp))
      BY <3>2, <3>4 DEF BoundaryAt
    <3>8. DebugPoolAllocation => Len(fp) = 1
      BY <1>a, <3>2 DEF HotInv
    <3>9. \A n \in 1..Len(tokens) : Earlier(tokens[n], tok)
      <4> SUFFICES ASSUME NEW n \in 1..Len(tokens) PROVE Earlier(tokens[n], tok)
        OBVIOUS
      <4>1. tls = Placeholder /\ tokens[n] = PlaceholderToken
        BY <2>1
      <4>2. PageOf(tokens[n]) = 1 /\ SlotOf(tokens[n]) = 1 /\ Len(fp) = 2
        BY <3>2, <4>1 DEF PageOf, SlotOf
      <4> QED
        BY <3>6, <4>2 DEF Earlier
    <3>10. Types(1, ps2, tokens, frames) /\ HotInv(1, ps2, frames) /\ TokenInv(1, ps2, tokens) /\ FrameInv(1, ps2, tokens, frames)
      BY <3>3 DEF Inv, ps2
    <3>11. /\ Types(1, ps2, Append(tokens, tok), frames) /\ TokenInv(1, ps2, Append(tokens, tok))
           /\ FrameInv(1, ps2, Append(tokens, tok), frames)
      <4>1. BoundaryAt(ps2, PageOf(tok), SlotOf(tok)) /\ (DebugPoolAllocation => SlotOf(tok) = 1)
        BY <3>6, <3>7, <3>8
      <4>2. \A i \in 1..Len(frames) : Over(frames[i], PageOf(tok), SlotOf(tok))
        BY <2>1
      <4> QED
        BY <1>1, <3>6, <3>9, <3>10, <4>1, <4>2, TokenPushed
    <3>12. EmptyInv(1, ps2, Append(tokens, tok), frames)
      BY <2>1, <3>4 DEF EmptyInv, NoneEmpty
    <3> QED
      BY <1>1, <3>1, <3>10, <3>11, <3>12 DEF Inv, tok, ps2
  <2> QED
    BY <2>4, <2>5
<1> QED
  BY <1>3, <1>4, <1>5

----------------------------------------------------------------------------
(* A pop begins.                                                           *)

LEMMA PopBegins ==
  ASSUME NEW hot, NEW ps, NEW ts, NEW fs, NEW ts2, NEW f \in Drain, NEW n \in 1..Len(ts),
         Inv(hot, ps, ts, fs), hot >= 1, Runs(fs), n > (IF fs = <<>> THEN 0 ELSE fs[Len(fs)].pools),
         ts2 = SubSeq(ts, 1, n - 1), f.page = PageOf(ts[n]), f.stop = SlotOf(ts[n]) - 1,
         ~f.exits, ~f.running, f.left = 0
  PROVE  Inv(hot, ps, ts2, Append(fs, f))
<1> DEFINE fs2 == Append(fs, f)
           m == Len(fs)
<1>0. /\ Types(hot, ps, ts, fs) /\ HotInv(hot, ps, fs) /\ TokenInv(hot, ps, ts)
      /\ FrameInv(hot, ps, ts, fs) /\ EmptyInv(hot, ps, ts, fs)
  BY DEF Inv
<1>1. ts \in Seq(Token) /\ fs \in Seq(Drain) /\ hot \in Nat /\ Len(ps) \in Nat /\ hot <= Len(ps) /\ Len(ts) \in Nat /\ m \in Nat
  <2>1. ts \in Seq(Token) /\ fs \in Seq(Drain)
    BY <1>0 DEF Types
  <2>2. hot \in Int /\ Len(ps) \in Nat /\ hot <= Len(ps) /\ Len(ts) \in Nat /\ m \in Nat
    BY <1>0, Typing
  <2> QED
    BY <2>1, <2>2
<1>2. ts2 \in Seq(Token) /\ Len(ts2) = n - 1 /\ \A k \in 1..(n - 1) : ts2[k] = ts[k]
  <2>1. n - 1 \in 0..Len(ts)
    BY <1>1
  <2> QED
    BY <1>1, <2>1, PrefixEffect
<1>3. fs2 \in Seq(Drain) /\ Len(fs2) = m + 1 /\ fs2[m + 1] = f /\ \A k \in 1..m : fs2[k] = fs[k]
  BY <1>1, AppendEffect
<1> HIDE DEF fs2
<1>4. fs2 # <<>> /\ (fs = <<>> <=> m = 0) /\ n \in Nat /\ n >= 1 /\ \A k \in 1..(n - 1) : k \in 1..Len(ts)
  <2>1. fs2 # <<>>
    BY <1>1, <1>3, EmptyLen
  <2>2. fs = <<>> <=> m = 0
    BY <1>1, EmptyLen
  <2> QED
    BY <1>1, <2>1, <2>2
<1>5. /\ BoundaryAt(ps, f.page, f.stop + 1) /\ f.page \in 1..hot /\ f.stop + 1 \in 1..Len(ps[f.page])
      /\ f.stop \in Nat /\ f.page \in Nat /\ PageOf(ts[n]) = f.page /\ SlotOf(ts[n]) = f.stop + 1
  <2>1. /\ BoundaryAt(ps, PageOf(ts[n]), SlotOf(ts[n]))
        /\ PageOf(ts[n]) \in 1..hot /\ SlotOf(ts[n]) \in 1..Len(ps[PageOf(ts[n])])
    BY TokenPlace
  <2>2. SlotOf(ts[n]) \in Nat /\ PageOf(ts[n]) \in Nat
    BY <1>0, Typing
  <2>3. SlotOf(ts[n]) = f.stop + 1 /\ f.stop \in Int
    BY <2>2
  <2>4. SlotOf(ts[n]) >= 1
    BY <2>1, <2>2
  <2> QED
    BY <2>1, <2>2, <2>3, <2>4
<1>6. \A i \in 1..m : /\ fs[i].running /\ Older(fs[i], ts) = fs[i].pools /\ Older(fs[i], ts2) = fs[i].pools
                      /\ fs[i].pools \in Nat /\ fs[i].pools <= fs[m].pools /\ fs[m].pools < n /\ fs[i].pools <= n - 1
  <2> TAKE i \in 1..m
  <2>1. m \in 1..m
    BY <1>1
  <2>2. fs[i].running /\ Older(fs[i], ts) = fs[i].pools /\ fs[m].running /\ Older(fs[m], ts) = fs[m].pools
    BY <2>1, AllRunning
  <2>3. Older(fs[i], ts2) = fs[i].pools
    BY <2>2 DEF Older
  <2>4. fs[i].pools \in Nat /\ fs[m].pools \in Nat
    BY <1>0, <2>1, Typing
  <2>5. fs[m].pools < n
    BY <1>4, <2>1, <2>4
  <2>6. fs[i].pools <= fs[m].pools
    <3>1. CASE i = m
      BY <2>4, <3>1
    <3>2. CASE i < m
      BY <1>0, <2>1, <2>2, <3>2 DEF FrameInv, FrameOK
    <3> QED
      BY <1>1, <3>1, <3>2
  <2> QED
    BY <1>4, <2>2, <2>3, <2>4, <2>5, <2>6
<1>7. Types(hot, ps, ts2, fs2)
  BY <1>0, <1>2, <1>3 DEF Types
<1>8. HotInv(hot, ps, fs2)
  <2>1. fs # <<>> => fs2[1] = fs[1]
    BY <1>1, <1>3, <1>4
  <2> QED
    BY <1>0, <1>1, <1>4, <2>1 DEF HotInv
<1>9. TokenInv(hot, ps, ts2)
  <2>1. \A k \in 1..Len(ts2) : k \in 1..Len(ts) /\ ts2[k] = ts[k]
    BY <1>2, <1>4
  <2> QED
    BY <1>0, <2>1 DEF TokenInv
<1>10. FrameOK(hot, ps, ts2, fs2, m + 1)
  <2>1. Older(f, ts2) = n - 1
    BY <1>2 DEF Older
  <2>2. ASSUME NEW k \in 1..Len(ts2) PROVE Under(f, PageOf(ts2[k]), SlotOf(ts2[k])) /\ k <= n - 1
    <3>1. k \in 1..Len(ts) /\ ts2[k] = ts[k] /\ k < n /\ k <= n - 1
      BY <1>2, <1>4
    <3>2. Earlier(ts[k], ts[n])
      BY <1>0, <3>1 DEF TokenInv
    <3>3. PageOf(ts[k]) \in Nat /\ SlotOf(ts[k]) \in Nat
      BY <1>0, <3>1, Typing
    <3> QED
      BY <1>5, <3>1, <3>2, <3>3 DEF Earlier, Under
  <2>3. /\ f.page \in 1..Len(ps) /\ f.page <= hot /\ f.stop <= Len(ps[f.page])
    <3>1. Len(ps[f.page]) \in Nat
      BY <1>0, <1>5, <1>1, Typing
    <3> QED
      BY <1>1, <1>5, <3>1
  <2>4. DebugPoolAllocation => f.stop = 0
    BY <1>0, <1>5 DEF TokenInv
  <2>5. \A j \in 1..Len(fs2) : ~(m + 1 < j)
    BY <1>1, <1>3
  <2>6. Len(ts2) = n - 1 /\ n - 1 <= n - 1 /\ \A k \in 1..Len(ts2) : ~(k > n - 1)
    BY <1>2, <1>4
  <2> QED
    BY <1>3, <1>5, <2>1, <2>2, <2>3, <2>4, <2>5, <2>6, SMTT(30) DEF FrameOK
<1>11. ASSUME NEW i \in 1..m PROVE FrameOK(hot, ps, ts2, fs2, i)
  <2>0. FrameOK(hot, ps, ts, fs, i) /\ fs2[i] = fs[i]
    BY <1>0, <1>3 DEF FrameInv
  <2>1. Anchored(fs[i]) => BoundaryAt(ps, fs[i].page, fs[i].stop + 1)
    BY AllRunning
  <2>2. fs[i].running /\ Older(fs[i], ts) = fs[i].pools /\ Older(fs[i], ts2) = fs[i].pools /\ fs[i].pools \in Nat /\ fs[i].pools <= n - 1 /\ fs[i].pools < n
    BY <1>4, <1>6
  <2>3. \A k \in 1..Len(ts2) : k \in 1..Len(ts) /\ ts2[k] = ts[k]
    BY <1>2, <1>4
  <2>4. \A k \in 1..Len(ts2) : k <= Older(fs[i], ts2) => Under(fs[i], PageOf(ts2[k]), SlotOf(ts2[k]))
    BY <2>0, <2>2, <2>3 DEF FrameOK
  <2>5. \A k \in 1..Len(ts2) : k > Older(fs[i], ts2) => Over(fs[i], PageOf(ts2[k]), SlotOf(ts2[k]))
    BY <2>0, <2>2, <2>3 DEF FrameOK
  <2>6. ASSUME NEW j \in 1..Len(fs2), i < j PROVE Over(fs[i], fs2[j].page, fs2[j].stop + 1) /\ Older(fs[i], ts2) <= Older(fs2[j], ts2)
    <3>1. CASE j \in 1..m
      <4>1. Over(fs[i], fs[j].page, fs[j].stop + 1) /\ Older(fs[i], ts) <= Older(fs[j], ts)
        BY <2>0, <2>6, <3>1 DEF FrameOK
      <4>2. Older(fs[j], ts) = Older(fs[j], ts2) /\ fs2[j] = fs[j]
        BY <1>3, <1>6, <3>1
      <4> QED
        BY <2>2, <4>1, <4>2
    <3>2. CASE j = m + 1
      <4>1. fs2[j] = f /\ Older(f, ts2) = n - 1
        BY <1>2, <1>3, <3>2 DEF Older
      <4>2. Over(fs[i], PageOf(ts[n]), SlotOf(ts[n]))
        BY <2>0, <2>2 DEF FrameOK
      <4> QED
        BY <1>5, <2>2, <4>1, <4>2
    <3> QED
      BY <1>1, <1>3, <3>1, <3>2
  <2>7. fs[i].pools <= Len(ts2)
    BY <1>2, <2>2
  <2> QED
    BY <2>0, <2>1, <2>2, <2>4, <2>5, <2>6, <2>7 DEF FrameOK
<1>12. FrameInv(hot, ps, ts2, fs2)
  <2>1. \A i \in 1..Len(fs2) : i = m + 1 \/ i \in 1..m
    BY <1>1, <1>3
  <2> QED
    BY <1>10, <1>11, <2>1 DEF FrameInv
<1>13. EmptyInv(hot, ps, ts2, fs2)
  <2>1. ~fs2[Len(fs2)].running
    BY <1>3
  <2>2. ASSUME NEW j \in 1..Len(ps), NEW i \in 1..m, MadeBy(ts, fs, i, j) PROVE \E h \in 1..Len(fs2) : MadeBy(ts2, fs2, h, j)
    <3>0. i \in 1..Len(fs2) /\ fs2[i] = fs[i] /\ fs[i].running /\ fs[i].pools \in Nat /\ fs[i].pools <= n - 1 /\ fs[m].pools < n
          /\ fs[i].pools <= fs[m].pools
      BY <1>1, <1>3, <1>6
    <3>1. CASE fs[i].pools < Len(ts) /\ PageOf(ts[fs[i].pools + 1]) = j + 1 /\ fs[i].pools < n - 1
      <4>1. fs[i].pools + 1 \in 1..(n - 1)
        BY <1>4, <3>0, <3>1, SMTT(30)
      <4>2. ts2[fs[i].pools + 1] = ts[fs[i].pools + 1] /\ fs[i].pools < Len(ts2)
        BY <1>2, <3>1, <4>1
      <4>3. MadeBy(ts2, fs2, i, j)
        BY <3>0, <3>1, <4>2 DEF MadeBy
      <4> QED
        BY <3>0, <4>3
    <3>2. CASE fs[i].pools < Len(ts) /\ PageOf(ts[fs[i].pools + 1]) = j + 1 /\ fs[i].pools = n - 1
      <4>1. m \in 1..m /\ m \in 1..Len(fs2) /\ m < Len(fs2)
        BY <1>1, <1>3
      <4>2. fs[m].running /\ fs2[m] = fs[m] /\ fs[m].pools \in Nat
        BY <1>3, <1>6, <4>1
      <4>3. fs[m].pools = n - 1
        BY <1>4, <3>0, <3>2, <4>2
      <4>4. fs[i].pools + 1 = n
        BY <1>4, <3>2
      <4>5. f.page = j + 1
        BY <3>2, <4>4
      <4>6. Older(f, ts2) = n - 1
        BY <1>2 DEF Older
      <4>7. MadeBy(ts2, fs2, m, j)
        BY <1>3, <4>1, <4>2, <4>3, <4>5, <4>6 DEF MadeBy
      <4> QED
        BY <4>1, <4>7
    <3>3. CASE i < m /\ fs[i + 1].page = j + 1 /\ Older(fs[i + 1], ts) = fs[i].pools
      <4>1. i + 1 \in 1..m /\ i < Len(fs2)
        BY <1>1, <1>3, <3>3
      <4>2. fs2[i + 1] = fs[i + 1] /\ Older(fs[i + 1], ts2) = Older(fs[i + 1], ts)
        BY <1>3, <1>6, <4>1
      <4>3. MadeBy(ts2, fs2, i, j)
        BY <3>0, <3>3, <4>1, <4>2 DEF MadeBy
      <4> QED
        BY <3>0, <4>3
    <3>4. \/ fs[i].pools < Len(ts) /\ PageOf(ts[fs[i].pools + 1]) = j + 1
          \/ i < m /\ fs[i + 1].page = j + 1 /\ Older(fs[i + 1], ts) = fs[i].pools
      BY <2>2 DEF MadeBy
    <3>5. fs[i].pools < n - 1 \/ fs[i].pools = n - 1
      BY <1>4, <3>0
    <3> QED
      BY <3>1, <3>2, <3>3, <3>4, <3>5
  <2> QED
    BY <1>0, <2>1, <2>2 DEF EmptyInv, NoneEmpty
<1> QED
  BY <1>7, <1>8, <1>9, <1>12, <1>13 DEF Inv, fs2

LEMMA KeptByPop ==
  ASSUME PoolInv, NEW n \in 1..Len(tokens), Pop(n)
  PROVE  Inv(tls', pages', tokens', frames')
<1>0. Inv(tls, pages, tokens, frames) /\ Types(tls, pages, tokens, frames)
  BY DEF PoolInv, Inv
<1>1. /\ Runs(frames) /\ n > PoolsOutside /\ tokens' = SubSeq(tokens, 1, n - 1) /\ pages' = pages
  BY NowRuns DEF Pop
<1>2. tls \in Int /\ Len(tokens) \in Nat /\ frames \in Seq(Drain) /\ tokens \in Seq(Token)
  BY <1>0, Typing DEF Types
<1>3. CASE tls < 1
  <2>1. /\ pages = <<>> /\ frames = <<>> /\ tls \in {Nil, Placeholder} /\ (tls = Nil => tokens = <<>>)
        /\ tls = Placeholder => Len(tokens) \in {0, 1} /\ \A k \in 1..Len(tokens) : tokens[k] = PlaceholderToken
    BY <1>0, <1>3, NoPageTokens
  <2>2. tls = Placeholder /\ n = 1 /\ tokens[n] = PlaceholderToken
    BY <1>2, <2>1
  <2>3. HotPage = Nil
    BY <2>2 DEF HotPage
  <2>4. tls' = Nil /\ frames' = frames
    BY <2>2, <2>3 DEF Pop
  <2>5. tokens' = <<>>
    BY <1>1, <1>2, <2>2
  <2> QED
    BY <1>1, <2>1, <2>4, <2>5, NothingThere
<1>4. CASE tls >= 1
  <2> DEFINE f == [page |-> PageOf(tokens[n]), stop |-> SlotOf(tokens[n]) - 1, obj |-> NoObject, left |-> 0,
                   exits |-> FALSE, running |-> FALSE, pools |-> 0]
  <2>1. HotPage # Nil
    BY <1>2, <1>4 DEF HotPage, Nil, Placeholder
  <2>2. frames' = Append(frames, f) /\ tls' = tls
    <3>1. CASE tokens[n] = PlaceholderToken
      <4>1. PageOf(tokens[n]) = 1 /\ SlotOf(tokens[n]) = 1
        BY <3>1 DEF PageOf, SlotOf
      <4> QED
        BY <2>1, <3>1, <4>1 DEF Pop, PopPage
    <3>2. CASE tokens[n] # PlaceholderToken
      <4>1. PageOf(tokens[n]) = tokens[n].page /\ SlotOf(tokens[n]) = tokens[n].slot
        BY <3>2 DEF PageOf, SlotOf
      <4> QED
        BY <3>2, <4>1 DEF Pop, PopPage
    <3> QED
      BY <3>1, <3>2
  <2>3. f \in Drain
    <3>1. PageOf(tokens[n]) \in 1..tls /\ SlotOf(tokens[n]) \in 1..Len(pages[PageOf(tokens[n])])
      BY <1>0, <1>4, TokenPlace
    <3>2. PageOf(tokens[n]) \in Nat \ {0} /\ SlotOf(tokens[n]) - 1 \in Nat
      <4>1. SlotOf(tokens[n]) \in Nat /\ PageOf(tokens[n]) \in Nat
        BY <1>0, Typing
      <4>2. SlotOf(tokens[n]) >= 1 /\ PageOf(tokens[n]) >= 1
        BY <3>1, <4>1
      <4> QED
        BY <4>1, <4>2
    <3> QED
      BY <3>2 DEF Drain
  <2>4. f.page = PageOf(tokens[n]) /\ f.stop = SlotOf(tokens[n]) - 1 /\ ~f.exits /\ ~f.running /\ f.left = 0
    OBVIOUS
  <2> HIDE DEF f
  <2>5. n > (IF frames = <<>> THEN 0 ELSE frames[Len(frames)].pools)
    BY <1>1, <1>2, FrontEffect DEF PoolsOutside, Frame
  <2>6. Inv(tls, pages, SubSeq(tokens, 1, n - 1), Append(frames, f))
    BY <1>0, <1>1, <1>4, <2>3, <2>4, <2>5, PopBegins
  <2> QED
    BY <1>1, <2>2, <2>6
<1> QED
  BY <1>2, <1>3, <1>4

LEMMA KeptByThreadExit ==
  ASSUME PoolInv, ThreadExit
  PROVE  Inv(tls', pages', tokens', frames')
<1>0. /\ Inv(tls, pages, tokens, frames) /\ Types(tls, pages, tokens, frames) /\ HotInv(tls, pages, frames)
      /\ EmptyInv(tls, pages, tokens, frames)
  BY DEF PoolInv, Inv
<1>1. frames = <<>> /\ tokens' = <<>> /\ tls # Nil /\ tls \in Int /\ Len(<<>>) = 0
  BY <1>0, Typing DEF ThreadExit
<1>2. CASE HotPage # Nil /\ pages[1] # <<>>
  <2> DEFINE f == [page |-> 1, stop |-> 0, obj |-> NoObject, left |-> 0, exits |-> TRUE, running |-> FALSE, pools |-> 0]
             fs2 == <<f>>
             ts2 == <<>>
  <2>1. tls' = tls /\ pages' = pages /\ frames' = fs2
    BY <1>1, <1>2 DEF ThreadExit, PopPage
  <2>2. tls >= 1
    <3> SUFFICES ASSUME tls < 1 PROVE FALSE
      BY <1>1
    <3>1. tls \in {Nil, Placeholder}
      BY <1>0, NoPageTokens
    <3> QED
      BY <1>2, <3>1 DEF HotPage
  <2>3. f \in Drain /\ f.page = 1 /\ f.stop = 0 /\ f.left = 0 /\ f.exits /\ ~f.running /\ Older(f, ts2) = 0
    BY <1>1 DEF Drain, Older
  <2> HIDE DEF f
  <2>4. fs2 \in Seq(Drain) /\ Len(fs2) = 1 /\ fs2[1] = f /\ fs2 # <<>>
    BY <2>3
  <2>5. ts2 \in Seq(Token) /\ Len(ts2) = 0
    OBVIOUS
  <2> HIDE DEF fs2, ts2
  <2>6. Types(tls, pages, ts2, fs2)
    BY <1>0, <2>4, <2>5 DEF Types
  <2>7. HotInv(tls, pages, fs2)
    BY <1>0, <1>1, <1>2, <2>2, <2>4 DEF HotInv
  <2>8. TokenInv(tls, pages, ts2)
    BY <2>5 DEF TokenInv
  <2>9. FrameInv(tls, pages, ts2, fs2)
    <3>1. /\ 1 \in 1..Len(pages) /\ Len(pages[1]) \in Nat /\ Len(pages[1]) >= 1 /\ pages # <<>>
      <4>1. 1 \in 1..Len(pages) /\ pages # <<>>
        BY <1>0, <2>2, Typing
      <4> QED
        BY <1>0, <1>2, <4>1, Typing
    <3>2. Anchored(f) => BoundaryAt(pages, 1, 0 + 1)
      <4>1. Anchored(f) => pages[1][1] = Boundary
        BY <1>0, <1>2, <2>3, <3>1 DEF Anchored, HotInv
      <4> QED
        BY <3>1, <4>1 DEF BoundaryAt
    <3>3. FrameOK(tls, pages, ts2, fs2, 1)
      BY <1>1, <2>2, <2>3, <2>4, <2>5, <3>1, <3>2 DEF FrameOK
    <3> QED
      BY <2>4, <3>3 DEF FrameInv
  <2>10. EmptyInv(tls, pages, ts2, fs2)
    <3> SUFFICES ASSUME ~LeaksWhileDebugging PROVE NoneEmpty(tls, pages, ts2, fs2)
      BY DEF EmptyInv
    <3>1. \A j \in 1..Len(pages) : j < tls => pages[j] # <<>>
      BY <1>0, <1>1 DEF EmptyInv, NoneEmpty
    <3> QED
      BY <2>3, <2>4, <3>1 DEF NoneEmpty
  <2> QED
    BY <1>1, <2>1, <2>6, <2>7, <2>8, <2>9, <2>10 DEF Inv, ts2
<1>3. CASE ~(HotPage # Nil /\ pages[1] # <<>>)
  <2>1. tls' = Nil /\ pages' = (IF Debugging THEN pages ELSE <<>>) /\ frames' = frames
    BY <1>3 DEF ThreadExit
  <2>2. pages' = <<>>
    <3>1. CASE tls < 1
      BY <1>0, <2>1, <3>1, NoPageTokens
    <3>2. CASE tls >= 1
      <4>1. HotPage # Nil
        BY <1>1, <3>2 DEF HotPage, Nil, Placeholder
      <4>2. ~Debugging
        BY <1>0, <1>1, <1>3, <3>2, <4>1 DEF HotInv
      <4> QED
        BY <2>1, <4>2
    <3> QED
      BY <1>1, <3>1, <3>2
  <2> QED
    BY <1>1, <2>1, <2>2, NothingThere
<1> QED
  BY <1>2, <1>3

----------------------------------------------------------------------------
(* A pop drains its pages.                                                 *)

\* Frames that are the same to everybody but the pop itself.
Alike(f, g) == f.page = g.page /\ f.stop = g.stop /\ (f.exits <=> g.exits)

LEMMA AlikeEffect ==
  ASSUME NEW f, NEW g, Alike(f, g), NEW p, NEW s
  PROVE  (Anchored(f) <=> Anchored(g)) /\ (Under(f, p, s) <=> Under(g, p, s)) /\ (Over(f, p, s) <=> Over(g, p, s))
BY DEF Alike, Anchored, Under, Over

\* The newest frame, and the facts that every step of it needs.
LEMMA Newest ==
  ASSUME PoolInv, frames # <<>>
  PROVE  /\ Frame = frames[Len(frames)] /\ Len(frames) \in Nat /\ Len(frames) \in 1..Len(frames) /\ Frame \in Drain
         /\ FrameOK(tls, pages, tokens, frames, Len(frames))
         /\ tls \in Nat /\ tls >= 1 /\ Len(pages) \in Nat /\ tls <= Len(pages)
         /\ Frame.page \in 1..Len(pages) /\ Frame.page \in 1..tls /\ Frame.stop \in Nat /\ Frame.stop <= Len(pages[Frame.page])
         /\ Len(pages[Frame.page]) \in Nat /\ (pages[Frame.page] = <<>> <=> Len(pages[Frame.page]) = 0)
<1>0. Types(tls, pages, tokens, frames) /\ HotInv(tls, pages, frames) /\ FrameInv(tls, pages, tokens, frames) /\ frames \in Seq(Drain)
  BY DEF PoolInv, Inv, Types
<1>1. Frame = frames[Len(frames)] /\ Len(frames) \in Nat /\ Len(frames) >= 1 /\ Frame \in Drain
  BY <1>0, FrontEffect DEF Frame
<1>2. Len(frames) \in 1..Len(frames)
  BY <1>1
<1>3. FrameOK(tls, pages, tokens, frames, Len(frames))
  BY <1>0, <1>2 DEF FrameInv
<1>4. tls \in Nat /\ tls >= 1 /\ Len(pages) \in Nat /\ tls <= Len(pages)
  <2>1. tls \in Int /\ Len(pages) \in Nat /\ (tls >= 1 => tls <= Len(pages))
    BY <1>0, Typing
  <2>2. ~(tls < 1)
    BY <1>0 DEF HotInv
  <2> QED
    BY <2>1, <2>2
<1>5. Frame.page \in 1..Len(pages) /\ Frame.page <= tls /\ Frame.stop <= Len(pages[Frame.page])
  BY <1>1, <1>3 DEF FrameOK
<1>6. Frame.stop \in Nat /\ Frame.page \in Nat /\ Frame.page >= 1
  BY <1>0, <1>1, <1>2, Typing
<1>7. Len(pages[Frame.page]) \in Nat /\ (pages[Frame.page] = <<>> <=> Len(pages[Frame.page]) = 0)
  BY <1>0, <1>5, Typing
<1> QED
  BY <1>1, <1>2, <1>3, <1>4, <1>5, <1>6, <1>7

\* An older frame is below the newest, and has released something.
LEMMA OlderFrames ==
  ASSUME PoolInv, frames # <<>>, NEW i \in 1..Len(frames), i # Len(frames)
  PROVE  /\ i < Len(frames) /\ frames[i].running /\ Older(frames[i], tokens) = frames[i].pools
         /\ FrameOK(tls, pages, tokens, frames, i)
         /\ Anchored(frames[i]) => BoundaryAt(pages, frames[i].page, frames[i].stop + 1)
         /\ Over(frames[i], Frame.page, Frame.stop + 1) /\ frames[i].pools <= Older(Frame, tokens)
         /\ frames[i].page <= Frame.page /\ (frames[i].page = Frame.page => frames[i].stop <= Frame.stop)
<1>0. Types(tls, pages, tokens, frames) /\ FrameInv(tls, pages, tokens, frames)
  BY DEF PoolInv, Inv
<1>1. Frame = frames[Len(frames)] /\ Len(frames) \in Nat /\ Len(frames) \in 1..Len(frames)
  BY Newest
<1>2. i < Len(frames)
  BY <1>1
<1>3. FrameOK(tls, pages, tokens, frames, i)
  BY <1>0 DEF FrameInv
<1>4. frames[i].running
  BY <1>2, <1>3 DEF FrameOK
<1>5. Older(frames[i], tokens) = frames[i].pools
  BY <1>4 DEF Older
<1>6. Over(frames[i], Frame.page, Frame.stop + 1) /\ frames[i].pools <= Older(Frame, tokens)
  BY <1>1, <1>2, <1>3, <1>5 DEF FrameOK
<1>7. frames[i].page \in Nat /\ frames[i].stop \in Nat /\ Frame.page \in Nat /\ Frame.stop \in Nat
  BY <1>0, <1>1, Typing
<1>8. frames[i].page <= Frame.page /\ (frames[i].page = Frame.page => frames[i].stop <= Frame.stop)
  BY <1>6, <1>7 DEF Over
<1>9. Anchored(frames[i]) => BoundaryAt(pages, frames[i].page, frames[i].stop + 1)
  BY <1>2, <1>3, <1>4 DEF FrameOK
<1> QED
  BY <1>2, <1>3, <1>4, <1>5, <1>6, <1>8, <1>9

\* While the newest pop loops, tokens are below its entries.
LEMMA TokensBelow ==
  ASSUME PoolInv, frames # <<>>, ~Frame.running, NEW n \in 1..Len(tokens)
  PROVE  Under(Frame, PageOf(tokens[n]), SlotOf(tokens[n])) /\ PageOf(tokens[n]) <= Frame.page
<1>0. Types(tls, pages, tokens, frames)
  BY DEF PoolInv, Inv
<1>1. Frame = frames[Len(frames)] /\ FrameOK(tls, pages, tokens, frames, Len(frames)) /\ Len(frames) \in 1..Len(frames)
  BY Newest
<1>2. Older(Frame, tokens) = Len(tokens) /\ n <= Len(tokens)
  BY <1>0, Typing DEF Older
<1>3. Under(Frame, PageOf(tokens[n]), SlotOf(tokens[n]))
  BY <1>1, <1>2 DEF FrameOK
<1>4. PageOf(tokens[n]) \in Nat /\ Frame.page \in Nat
  BY <1>0, <1>1, Typing
<1> QED
  BY <1>3, <1>4 DEF Under

LEMMA KeptByReleaseNext ==
  ASSUME PoolInv, ReleaseNext
  PROVE  Inv(tls', pages', tokens', frames')
<1> DEFINE K == {j \in 1..tls : pages[j] # <<>>}
           k == Max(K)
           e == Last(pages[k])
           g == IF e = Boundary THEN Frame ELSE [Frame EXCEPT !.obj = e.ptr, !.left = e.count + 1]
           m == Len(frames)
<1>0. /\ Types(tls, pages, tokens, frames) /\ HotInv(tls, pages, frames) /\ TokenInv(tls, pages, tokens)
      /\ FrameInv(tls, pages, tokens, frames) /\ EmptyInv(tls, pages, tokens, frames) /\ Inv(tls, pages, tokens, frames)
  BY DEF PoolInv, Inv
<1>1. frames # <<>> /\ ~Frame.running /\ Frame.left = 0 /\ Len(pages[Frame.page]) # Frame.stop /\ tokens' = tokens
  BY DEF ReleaseNext, Looping, AtStop
<1>2. /\ Frame = frames[m] /\ m \in Nat /\ m \in 1..m /\ Frame \in Drain
      /\ FrameOK(tls, pages, tokens, frames, m)
      /\ tls \in Nat /\ tls >= 1 /\ Len(pages) \in Nat /\ tls <= Len(pages)
      /\ Frame.page \in 1..Len(pages) /\ Frame.page \in 1..tls /\ Frame.stop \in Nat /\ Frame.stop <= Len(pages[Frame.page])
      /\ Len(pages[Frame.page]) \in Nat /\ (pages[Frame.page] = <<>> <=> Len(pages[Frame.page]) = 0)
  BY <1>1, Newest
<1>3. Len(pages[Frame.page]) > Frame.stop /\ pages[Frame.page] # <<>>
  BY <1>1, <1>2
<1>4. k \in K /\ \A j \in K : j <= k
  <2>1. Frame.page \in K
    BY <1>2, <1>3
  <2>2. K \in SUBSET (1..tls) /\ K # {}
    BY <2>1
  <2> HIDE DEF K
  <2> QED
    BY <1>2, <2>2, GreatestExists
<1>5. tls' = k /\ pages' = [pages EXCEPT ![k] = Front(pages[k])] /\ frames' = [frames EXCEPT ![m] = g]
  BY DEF ReleaseNext, SetFrame
<1>6. k \in Nat /\ k \in 1..tls /\ k \in 1..Len(pages) /\ pages[k] # <<>> /\ Frame.page <= k
      /\ \A j \in 1..Len(pages) : j > k => pages[j] = <<>>
  <2>1. k \in 1..tls /\ pages[k] # <<>>
    BY <1>4
  <2>2. Frame.page <= k
    BY <1>2, <1>3, <1>4
  <2>3. ASSUME NEW j \in 1..Len(pages), j > k PROVE pages[j] = <<>>
    <3>1. CASE j > tls
      BY <1>0, <3>1 DEF HotInv
    <3>2. CASE j \in 1..tls
      <4>1. ~(j <= k)
        BY <2>1, <2>3
      <4> QED
        BY <1>4, <3>2, <4>1
    <3> QED
      BY <1>2, <3>1, <3>2
  <2> HIDE DEF k
  <2> QED
    BY <1>2, <2>1, <2>2, <2>3
<1> HIDE DEF k, K
<1>7. pages \in Seq(Seq(Entry)) /\ frames \in Seq(Drain) /\ tokens \in Seq(Token) /\ pages[k] \in Seq(Entry)
  BY <1>0, <1>6, ElementType DEF Types
<1>8. /\ e \in Entry /\ e = pages[k][Len(pages[k])] /\ Front(pages[k]) \in Seq(Entry) /\ Len(pages[k]) \in Nat /\ Len(pages[k]) >= 1
      /\ Len(Front(pages[k])) = Len(pages[k]) - 1 /\ \A s \in 1..(Len(pages[k]) - 1) : Front(pages[k])[s] = pages[k][s]
  <2>1. Len(pages[k]) \in Nat
    BY <1>7
  <2> QED
    BY <1>6, <1>7, <2>1, FrontEffect
<1>9. /\ g \in Drain /\ Alike(g, Frame) /\ ~g.running /\ Older(g, tokens) = Older(Frame, tokens)
      /\ e = Boundary => g.left = 0
  <2>1. e.ptr \in Objects \cup {NoObject} /\ e.count + 1 \in Nat
    BY <1>8 DEF Entry
  <2> HIDE DEF e
  <2>2. CASE e = Boundary
    BY <1>1, <1>2, <2>2 DEF Alike
  <2>3. CASE e # Boundary
    <3> DEFINE h == [Frame EXCEPT !.obj = e.ptr, !.left = e.count + 1]
    <3>1. g = h
      BY <2>3
    <3>2. h \in Drain /\ h.page = Frame.page /\ h.stop = Frame.stop /\ h.exits = Frame.exits /\ h.running = Frame.running
      BY <1>2, <2>1 DEF Drain
    <3> HIDE DEF h
    <3> QED
      BY <1>1, <2>3, <3>1, <3>2 DEF Alike, Older
  <2> QED
    BY <2>2, <2>3
<1> HIDE DEF e, g
<1>10. /\ pages' \in Seq(Seq(Entry)) /\ Len(pages') = Len(pages) /\ pages'[k] = Front(pages[k])
       /\ \A j \in 1..Len(pages) : j # k => pages'[j] = pages[j]
  BY <1>5, <1>6, <1>7, <1>8, ExceptEffect
<1>11. frames' \in Seq(Drain) /\ Len(frames') = m /\ frames'[m] = g /\ \A i \in 1..m : i # m => frames'[i] = frames[i]
  BY <1>2, <1>5, <1>7, <1>9, ExceptEffect
<1>12. frames' # <<>> /\ Len(pages'[k]) = Len(pages[k]) - 1
  <2>1. frames' # <<>>
    BY <1>2, <1>11, EmptyLen
  <2> QED
    BY <1>8, <1>10, <2>1
<1>13. Types(tls', pages', tokens', frames')
  BY <1>1, <1>5, <1>6, <1>7, <1>10, <1>11 DEF Types
<1>14. ASSUME NEW p \in 1..Len(pages), NEW s \in 1..Len(pages[p]), pages[p][s] = Boundary,
              p < Frame.page \/ (p = Frame.page /\ s <= Frame.stop) \/ p < k \/ s < Len(pages[k])
       PROVE  BoundaryAt(pages', p, s)
  <2>1. CASE p # k
    BY <1>10, <1>14, <2>1 DEF BoundaryAt
  <2>2. CASE p = k
    <3>1. s \in 1..(Len(pages[k]) - 1)
      BY <1>2, <1>3, <1>6, <1>8, <1>14, <2>2
    <3> QED
      BY <1>10, <1>12, <1>8, <1>14, <2>2, <3>1 DEF BoundaryAt
  <2> QED
    BY <2>1, <2>2
<1>15. HotInv(tls', pages', frames')
  <2>1. \A j \in 1..Len(pages') : j > k => pages'[j] = <<>>
    <3> SUFFICES ASSUME NEW j \in 1..Len(pages), j > k PROVE pages'[j] = <<>>
      BY <1>10
    <3>1. j # k
      BY <1>6
    <3> QED
      BY <1>6, <1>10, <3>1
  <2>2. ASSUME DebugMissingPools, pages'[1] # <<>> PROVE pages'[1][1] = Boundary
    <3>1. 1 \in 1..Len(pages) /\ pages # <<>> /\ pages[1] \in Seq(Entry)
      <4>1. 1 \in 1..Len(pages) /\ pages # <<>>
        BY <1>2
      <4> QED
        BY <1>7, <4>1, ElementType
    <3>2. CASE k # 1
      BY <1>0, <1>10, <2>2, <3>1, <3>2 DEF HotInv
    <3>3. CASE k = 1
      <4>1. Len(pages[k]) - 1 >= 1
        BY <1>8, <1>10, <2>2, <3>3, EmptyLen
      <4>2. pages'[1][1] = pages[1][1]
        BY <1>8, <1>10, <3>3, <4>1
      <4> QED
        BY <1>0, <1>6, <2>2, <3>1, <3>3, <4>2 DEF HotInv
    <3> QED
      BY <3>2, <3>3
  <2>3. ~(k < 1) /\ k # Placeholder
    BY <1>6 DEF Placeholder
  <2>4. ASSUME frames'[1].page > 1, Debugging PROVE pages'[1] # <<>>
    <3>1. 1 \in 1..m /\ 1 \in 1..Len(pages)
      BY <1>2
    <3>2. frames[1].page = frames'[1].page /\ frames[1].page \in Nat
      <4>1. CASE m = 1
        BY <1>2, <1>9, <1>11, <4>1 DEF Alike
      <4>2. CASE m # 1
        BY <1>0, <1>11, <3>1, <4>2, Typing
      <4> QED
        BY <4>1, <4>2
    <3>3. frames[1].page <= Frame.page
      <4>1. CASE m = 1
        BY <1>2, <4>1
      <4>2. CASE m # 1
        BY <1>1, <3>1, <4>2, OlderFrames
      <4> QED
        BY <4>1, <4>2
    <3>4. k # 1
      BY <1>2, <1>6, <2>4, <3>2, <3>3
    <3>5. pages[1] # <<>>
      BY <1>0, <1>1, <1>2, <2>4, <3>2 DEF HotInv
    <3> QED
      BY <1>10, <3>1, <3>4, <3>5
  <2> QED
    BY <1>5, <1>12, <2>1, <2>2, <2>3, <2>4 DEF HotInv
<1>16. TokenInv(tls', pages', tokens')
  <2>1. ASSUME NEW n \in 1..Len(tokens) PROVE BoundaryAt(pages', PageOf(tokens[n]), SlotOf(tokens[n]))
    <3>1. Under(Frame, PageOf(tokens[n]), SlotOf(tokens[n]))
      BY <1>1, TokensBelow
    <3>2. BoundaryAt(pages, PageOf(tokens[n]), SlotOf(tokens[n]))
      BY <1>0, <1>2, TokenPlace
    <3> QED
      BY <1>14, <3>1, <3>2 DEF BoundaryAt, Under
  <2> QED
    BY <1>0, <1>1, <2>1 DEF TokenInv
<1>17. \A j \in 1..m : Alike(frames'[j], frames[j]) /\ Older(frames'[j], tokens) = Older(frames[j], tokens) /\ (frames'[j].running <=> frames[j].running)
  <2> TAKE j \in 1..m
  <2>1. CASE j = m
    BY <1>1, <1>2, <1>9, <1>11, <2>1
  <2>2. CASE j # m
    BY <1>11, <2>2 DEF Alike
  <2> QED
    BY <2>1, <2>2
<1>18. FrameInv(tls', pages', tokens', frames')
  <2> SUFFICES ASSUME NEW i \in 1..m PROVE FrameOK(k, pages', tokens, frames', i)
    BY <1>1, <1>5, <1>11 DEF FrameInv
  <2> DEFINE f == frames[i]
             f2 == frames'[i]
  <2>0. FrameOK(tls, pages, tokens, frames, i)
    BY <1>0 DEF FrameInv
  <2>1. f2.page = f.page /\ f2.stop = f.stop /\ (f2.exits <=> f.exits) /\ Older(f2, tokens) = Older(f, tokens) /\ (f2.running <=> f.running)
    BY <1>17 DEF Alike
  <2>2. f.page \in Nat /\ f.stop \in Nat
    BY <1>0, Typing
  <2>3. /\ f.page \in 1..Len(pages) /\ f.page <= tls /\ f.stop <= Len(pages[f.page])
    BY <2>0 DEF FrameOK
  <2>4. f.page <= Frame.page /\ (f.page = Frame.page => f.stop <= Frame.stop)
    <3>1. CASE i = m
      BY <1>2, <2>2, <3>1
    <3>2. CASE i # m
      BY <1>1, <3>2, OlderFrames
    <3> QED
      BY <3>1, <3>2
  <2>5. f.page \in 1..Len(pages') /\ f.page <= k
    BY <1>2, <1>6, <1>10, <2>2, <2>3, <2>4, SMTT(30)
  <2>6. f.stop <= Len(pages'[f.page])
    <3>1. CASE f.page # k
      BY <1>10, <2>3, <3>1
    <3>2. CASE f.page = k
      <4>1. Frame.page = k /\ f.stop <= Frame.stop
        BY <1>2, <1>6, <2>2, <2>4, <3>2
      <4> QED
        BY <1>2, <1>3, <1>8, <1>12, <2>2, <3>2, <4>1, SMTT(30)
    <3> QED
      BY <3>1, <3>2
  <2>7. Anchored(f2) =>
          \/ BoundaryAt(pages', f2.page, f2.stop + 1)
          \/ i = m /\ ~f2.running /\ f2.left = 0 /\ Len(pages'[f2.page]) = f2.stop /\ k = f2.page
    <3> SUFFICES ASSUME Anchored(f2)
                 PROVE  \/ BoundaryAt(pages', f.page, f.stop + 1)
                        \/ i = m /\ ~f2.running /\ f2.left = 0 /\ Len(pages'[f.page]) = f.stop /\ k = f.page
      BY <2>1
    <3>1. Anchored(f)
      BY <1>17, AlikeEffect
    <3>2. BoundaryAt(pages, f.page, f.stop + 1)
      <4>1. CASE i = m
        BY <1>1, <1>2, <2>0, <3>1, <4>1 DEF FrameOK
      <4>2. CASE i # m
        BY <1>1, <3>1, <4>2, OlderFrames
      <4> QED
        BY <4>1, <4>2
    <3>3. CASE i # m
      <4>1. Over(f, Frame.page, Frame.stop + 1)
        BY <1>1, <3>3, OlderFrames
      <4>2. f.page < Frame.page \/ (f.page = Frame.page /\ f.stop + 1 <= Frame.stop)
        BY <1>2, <2>2, <3>1, <4>1 DEF Over
      <4> QED
        BY <1>14, <3>2, <4>2 DEF BoundaryAt
    <3>4. CASE i = m
      <4>1. f = Frame /\ f2 = g
        BY <1>2, <1>11, <3>4
      <4>2. CASE k # f.page \/ f.stop + 1 < Len(pages[k])
        <5>1. f.page < k \/ f.stop + 1 < Len(pages[k])
          BY <1>6, <2>2, <2>5, <4>2
        <5> QED
          BY <1>14, <3>2, <5>1 DEF BoundaryAt
      <4>3. CASE k = f.page /\ ~(f.stop + 1 < Len(pages[k]))
        <5>1. Len(pages[k]) = f.stop + 1
          <6>1. Len(pages[k]) > f.stop
            BY <1>3, <4>1, <4>3
          <6> HIDE DEF f
          <6> QED
            BY <1>8, <2>2, <4>3, <6>1
        <5>2. e = Boundary
          BY <1>8, <3>2, <4>3, <5>1 DEF BoundaryAt, e
        <5>3. Len(pages'[k]) = f.stop
          BY <1>12, <2>2, <5>1
        <5> QED
          BY <1>9, <3>4, <4>1, <4>3, <5>2, <5>3
      <4> QED
        BY <4>2, <4>3
    <3> QED
      BY <3>3, <3>4
  <2>8. \A n \in 1..Len(tokens) : n <= Older(f2, tokens) => Under(f2, PageOf(tokens[n]), SlotOf(tokens[n]))
    <3>1. \A n \in 1..Len(tokens) : n <= Older(f, tokens) => Under(f, PageOf(tokens[n]), SlotOf(tokens[n]))
      BY <2>0 DEF FrameOK
    <3> QED
      BY <1>17, <2>1, <3>1, AlikeEffect
  <2>9. \A n \in 1..Len(tokens) : n > Older(f2, tokens) => Over(f2, PageOf(tokens[n]), SlotOf(tokens[n]))
    <3>1. \A n \in 1..Len(tokens) : n > Older(f, tokens) => Over(f, PageOf(tokens[n]), SlotOf(tokens[n]))
      BY <2>0 DEF FrameOK
    <3> QED
      BY <1>17, <2>1, <3>1, AlikeEffect
  <2>10. ASSUME NEW j \in 1..m, i < j
         PROVE  Over(f2, frames'[j].page, frames'[j].stop + 1) /\ Older(f2, tokens) <= Older(frames'[j], tokens)
    <3>1. Over(f, frames[j].page, frames[j].stop + 1) /\ Older(f, tokens) <= Older(frames[j], tokens)
      BY <2>0, <2>10 DEF FrameOK
    <3>2. frames'[j].page = frames[j].page /\ frames'[j].stop = frames[j].stop /\ Older(frames'[j], tokens) = Older(frames[j], tokens)
      BY <1>17 DEF Alike
    <3>3. Over(f2, frames[j].page, frames[j].stop + 1)
      BY <1>17, <3>1, AlikeEffect
    <3> QED
      BY <2>1, <3>1, <3>2, <3>3
  <2>11. /\ i < m => f.running
         /\ f.exits => i = 1 /\ f.page = 1 /\ f.stop = 0
         /\ DebugPoolAllocation => f.stop = 0
         /\ Older(f, tokens) <= Len(tokens)
    BY <2>0 DEF FrameOK
  <2> HIDE DEF f
  <2> QED
    BY <1>11, <2>1, <2>5, <2>6, <2>7, <2>8, <2>9, <2>10, <2>11 DEF FrameOK
<1>19. EmptyInv(tls', pages', tokens', frames')
  <2> SUFFICES ASSUME ~LeaksWhileDebugging PROVE NoneEmpty(tls', pages', tokens', frames')
    BY DEF EmptyInv
  <2>1. ~frames'[Len(frames')].running
    BY <1>9, <1>11
  <2>2. ASSUME NEW j \in 1..Len(pages), j < k, pages'[j] = <<>> PROVE DebugPoolAllocation /\ \E i \in 1..m : MadeBy(tokens, frames', i, j)
    <3>1. pages[j] = <<>> /\ j < tls
      <4>1. j # k /\ j < tls
        BY <1>2, <1>6, <2>2
      <4> QED
        BY <1>10, <2>2, <4>1
    <3>2. DebugPoolAllocation /\ \E i \in 1..m : MadeBy(tokens, frames, i, j)
      BY <1>0, <3>1 DEF EmptyInv, NoneEmpty
    <3>3. PICK i \in 1..m : MadeBy(tokens, frames, i, j)
      BY <3>2
    <3>4. frames[i].running /\ i # m /\ frames'[i] = frames[i]
      BY <1>1, <1>2, <1>11, <3>3 DEF MadeBy
    <3>5. i + 1 \in 1..m
      BY <1>2, <3>4
    <3>6. frames'[i + 1].page = frames[i + 1].page /\ Older(frames'[i + 1], tokens) = Older(frames[i + 1], tokens)
      BY <1>17, <3>5 DEF Alike
    <3>7. MadeBy(tokens, frames', i, j)
      BY <1>11, <3>3, <3>4, <3>6 DEF MadeBy
    <3> QED
      BY <3>2, <3>7
  <2> QED
    BY <1>1, <1>5, <1>10, <1>11, <2>1, <2>2 DEF NoneEmpty
<1> QED
  BY <1>13, <1>15, <1>16, <1>18, <1>19 DEF Inv

\* A release begins or ends: only the newest frame and the tokens change, and the
\* pools that are older than the frame are the same.
LEMMA ReleaseEdge ==
  ASSUME PoolInv, frames # <<>>, NEW ts2 \in Seq(Token), NEW g \in Drain, NEW fs2 \in Seq(Drain),
         Len(fs2) = Len(frames), fs2[Len(frames)] = g, \A i \in 1..Len(frames) : i # Len(frames) => fs2[i] = frames[i],
         Len(ts2) <= Len(tokens), \A n \in 1..Len(ts2) : ts2[n] = tokens[n],
         Alike(g, Frame), Older(Frame, tokens) = Len(ts2), Older(g, ts2) = Len(ts2),
         Anchored(Frame) => BoundaryAt(pages, Frame.page, Frame.stop + 1),
         DebugPoolAllocation => LeaksWhileDebugging \/ Len(ts2) = Len(tokens),
         g.running => Len(ts2) = g.pools,
         Frame.running => Len(ts2) = Frame.pools
  PROVE  Inv(tls, pages, ts2, fs2)
<1> DEFINE m == Len(frames)
<1>0. /\ Types(tls, pages, tokens, frames) /\ HotInv(tls, pages, frames) /\ TokenInv(tls, pages, tokens)
      /\ FrameInv(tls, pages, tokens, frames) /\ EmptyInv(tls, pages, tokens, frames) /\ Inv(tls, pages, tokens, frames)
  BY DEF PoolInv, Inv
<1>1. /\ Frame = frames[m] /\ m \in Nat /\ m \in 1..m /\ FrameOK(tls, pages, tokens, frames, m) /\ tls \in Nat /\ tls >= 1
  BY Newest
<1>2. fs2 \in Seq(Drain) /\ Len(fs2) = m /\ fs2[m] = g /\ \A i \in 1..m : i # m => fs2[i] = frames[i]
  OBVIOUS
<1>3. fs2 # <<>> /\ Len(ts2) \in Nat /\ Len(tokens) \in Nat
  <2>1. fs2 # <<>>
    BY <1>1, <1>2, EmptyLen
  <2> QED
    BY <1>0, <2>1, Typing
<1>4. \A n \in 1..Len(ts2) : n \in 1..Len(tokens) /\ ts2[n] = tokens[n]
  BY <1>3
<1>5. Types(tls, pages, ts2, fs2)
  BY <1>0, <1>2 DEF Types
<1>6. HotInv(tls, pages, fs2)
  <2>1. fs2[1].page = frames[1].page
    BY <1>1, <1>2 DEF Alike
  <2> QED
    BY <1>0, <1>1, <1>3, <2>1 DEF HotInv
<1>7. TokenInv(tls, pages, ts2)
  BY <1>0, <1>4 DEF TokenInv
<1>8. \A j \in 1..m : Alike(fs2[j], frames[j]) /\ Older(fs2[j], ts2) = Older(frames[j], tokens)
                      /\ Older(frames[j], tokens) \in Nat /\ Older(frames[j], tokens) <= Len(ts2)
  <2> TAKE j \in 1..m
  <2>1. CASE j = m
    <3>1. fs2[j] = g /\ frames[j] = Frame
      BY <1>1, <1>2, <2>1
    <3> QED
      BY <1>3, <3>1
  <2>2. CASE j # m
    <3>1. frames[j].running /\ Older(frames[j], tokens) = frames[j].pools /\ frames[j].pools <= Older(Frame, tokens)
      BY <2>2, OlderFrames
    <3>2. Older(frames[j], ts2) = frames[j].pools /\ fs2[j] = frames[j]
      BY <1>2, <2>2, <3>1 DEF Older
    <3>3. frames[j].pools \in Nat
      BY <1>0, Typing
    <3> QED
      BY <3>1, <3>2, <3>3 DEF Alike
  <2> QED
    BY <2>1, <2>2
<1>9. FrameInv(tls, pages, ts2, fs2)
  <2> SUFFICES ASSUME NEW i \in 1..m PROVE FrameOK(tls, pages, ts2, fs2, i)
    BY <1>2 DEF FrameInv
  <2> DEFINE f == frames[i]
             f2 == fs2[i]
  <2>0. FrameOK(tls, pages, tokens, frames, i)
    BY <1>0 DEF FrameInv
  <2>1. f2.page = f.page /\ f2.stop = f.stop /\ (f2.exits <=> f.exits) /\ Older(f2, ts2) = Older(f, tokens)
    BY <1>8 DEF Alike
  <2>2. Anchored(f2) => BoundaryAt(pages, f.page, f.stop + 1)
    <3>1. Anchored(f2) => Anchored(f)
      BY <1>8, AlikeEffect
    <3>2. CASE i = m
      BY <1>1, <3>1, <3>2
    <3>3. CASE i # m
      BY <3>1, <3>3, OlderFrames
    <3> QED
      BY <3>2, <3>3
  <2>3. i < m => f2.running
    <3> SUFFICES ASSUME i < m PROVE f2.running
      OBVIOUS
    <3>1. i # m
      BY <1>1
    <3>2. frames[i].running
      BY <3>1, OlderFrames
    <3> QED
      BY <1>2, <3>1, <3>2
  <2>4. \A n \in 1..Len(ts2) : n <= Older(f2, ts2) => Under(f2, PageOf(ts2[n]), SlotOf(ts2[n]))
    <3>1. \A n \in 1..Len(tokens) : n <= Older(f, tokens) => Under(f, PageOf(tokens[n]), SlotOf(tokens[n]))
      BY <2>0 DEF FrameOK
    <3> QED
      BY <1>4, <1>8, <2>1, <3>1, AlikeEffect
  <2>5. \A n \in 1..Len(ts2) : n > Older(f2, ts2) => Over(f2, PageOf(ts2[n]), SlotOf(ts2[n]))
    <3>1. \A n \in 1..Len(tokens) : n > Older(f, tokens) => Over(f, PageOf(tokens[n]), SlotOf(tokens[n]))
      BY <2>0 DEF FrameOK
    <3> QED
      BY <1>4, <1>8, <2>1, <3>1, AlikeEffect
  <2>6. ASSUME NEW j \in 1..m, i < j
        PROVE  Over(f2, fs2[j].page, fs2[j].stop + 1) /\ Older(f2, ts2) <= Older(fs2[j], ts2)
    <3>1. Over(f, frames[j].page, frames[j].stop + 1) /\ Older(f, tokens) <= Older(frames[j], tokens)
      BY <2>0, <2>6 DEF FrameOK
    <3>2. fs2[j].page = frames[j].page /\ fs2[j].stop = frames[j].stop /\ Older(fs2[j], ts2) = Older(frames[j], tokens)
      BY <1>8 DEF Alike
    <3>3. Over(f2, frames[j].page, frames[j].stop + 1)
      BY <1>8, <3>1, AlikeEffect
    <3> QED
      BY <2>1, <3>1, <3>2, <3>3
  <2>7. /\ f.exits => i = 1 /\ f.page = 1 /\ f.stop = 0
        /\ f.page \in 1..Len(pages) /\ f.page <= tls /\ f.stop <= Len(pages[f.page])
        /\ DebugPoolAllocation => f.stop = 0
        /\ Older(f, tokens) <= Len(ts2)
    BY <2>0, <1>8 DEF FrameOK
  <2> HIDE DEF f
  <2> QED
    BY <1>2, <2>1, <2>2, <2>3, <2>4, <2>5, <2>6, <2>7 DEF FrameOK
<1>10. EmptyInv(tls, pages, ts2, fs2)
  <2> SUFFICES ASSUME ~LeaksWhileDebugging PROVE NoneEmpty(tls, pages, ts2, fs2)
    BY DEF EmptyInv
  <2>1. fs2[Len(fs2)].running => Len(ts2) = fs2[Len(fs2)].pools
    BY <1>2
  <2>2. ASSUME NEW j \in 1..Len(pages), j < tls, pages[j] = <<>> PROVE DebugPoolAllocation /\ \E i \in 1..m : MadeBy(ts2, fs2, i, j)
    <3>1. DebugPoolAllocation /\ \E i \in 1..m : MadeBy(tokens, frames, i, j)
      BY <1>0, <2>2 DEF EmptyInv, NoneEmpty
    <3>2. PICK i \in 1..m : MadeBy(tokens, frames, i, j)
      BY <3>1
    <3>3. Len(ts2) = Len(tokens)
      BY <3>1
    <3>4. i # m
      <4> SUFFICES ASSUME i = m PROVE FALSE
        OBVIOUS
      <4>1. Frame.running /\ MadeBy(tokens, frames, m, j)
        BY <1>1, <3>2 DEF MadeBy
      <4>2. Frame.pools = Len(tokens)
        BY <3>3, <4>1
      <4>3. ~(Frame.pools < Len(tokens)) /\ ~(m < Len(frames))
        BY <1>1, <1>3, <4>2
      <4> QED
        BY <1>1, <4>1, <4>3 DEF MadeBy
    <3>5. fs2[i] = frames[i] /\ i + 1 \in 1..m /\ frames[i].pools \in Nat
      <4>1. frames[i].pools \in Nat
        BY <1>0, Typing
      <4>2. i + 1 \in 1..m
        BY <1>1, <3>4
      <4> QED
        BY <1>2, <3>4, <4>1, <4>2
    <3>6. fs2[i + 1].page = frames[i + 1].page /\ Older(fs2[i + 1], ts2) = Older(frames[i + 1], tokens)
      BY <1>8, <3>5 DEF Alike
    <3>7. frames[i].pools < Len(tokens) => ts2[frames[i].pools + 1] = tokens[frames[i].pools + 1]
      <4>1. frames[i].pools < Len(tokens) => frames[i].pools + 1 \in 1..Len(ts2)
        BY <1>3, <3>3, <3>5
      <4> QED
        BY <1>4, <4>1
    <3>8. MadeBy(ts2, fs2, i, j)
      BY <1>2, <3>2, <3>3, <3>5, <3>6, <3>7 DEF MadeBy
    <3> QED
      BY <3>1, <3>8
  <2> QED
    BY <1>2, <2>1, <2>2 DEF NoneEmpty
<1> QED
  BY <1>5, <1>6, <1>7, <1>9, <1>10 DEF Inv

LEMMA KeptByCallRelease ==
  ASSUME PoolInv, CallRelease
  PROVE  Inv(tls', pages', tokens', frames')
<1> DEFINE g == [Frame EXCEPT !.left = @ - 1, !.running = TRUE, !.pools = Len(tokens)]
<1>1. /\ frames # <<>> /\ ~Frame.running /\ Frame.left > 0 /\ frames' = [frames EXCEPT ![Len(frames)] = g]
      /\ tls' = tls /\ pages' = pages /\ tokens' = tokens
  BY DEF CallRelease, SetFrame
<1>2. Frame = frames[Len(frames)] /\ Frame \in Drain /\ FrameOK(tls, pages, tokens, frames, Len(frames))
  BY <1>1, Newest
<1>3. tokens \in Seq(Token) /\ Len(tokens) \in Nat /\ Types(tls, pages, tokens, frames)
  BY DEF PoolInv, Inv, Types
<1>4. /\ g \in Drain /\ g.page = Frame.page /\ g.stop = Frame.stop /\ g.exits = Frame.exits
      /\ g.running = TRUE /\ g.pools = Len(tokens)
  <2>1. Frame.left - 1 \in Nat
    BY <1>1, <1>2 DEF Drain
  <2> QED
    BY <1>2, <1>3, <2>1 DEF Drain
<1> HIDE DEF g
<1>5. Alike(g, Frame) /\ g.running /\ Older(g, tokens) = Len(tokens) /\ Older(Frame, tokens) = Len(tokens)
  BY <1>1, <1>4 DEF Alike, Older
<1>6. Anchored(Frame) => BoundaryAt(pages, Frame.page, Frame.stop + 1)
  <2>1. Frame.left # 0
    BY <1>1
  <2> QED
    BY <1>2, <2>1 DEF FrameOK
<1>7. Len(tokens) <= Len(tokens) /\ \A n \in 1..Len(tokens) : tokens[n] = tokens[n]
  BY <1>3
<1>a. /\ frames' \in Seq(Drain) /\ Len(frames') = Len(frames) /\ frames'[Len(frames)] = g
      /\ \A i \in 1..Len(frames) : i # Len(frames) => frames'[i] = frames[i]
  <2>1. frames \in Seq(Drain) /\ Len(frames) \in 1..Len(frames)
    BY <1>1, <1>3, Newest DEF Types
  <2> QED
    BY <1>1, <1>4, <2>1, ExceptEffect
<1>8. Inv(tls, pages, tokens, frames')
  BY ONLY PoolInv, <1>a, <1>1, <1>3, <1>4, <1>5, <1>6, <1>7, ReleaseEdge
<1> QED
  BY <1>1, <1>8

LEMMA KeptByReleaseReturns ==
  ASSUME PoolInv, ReleaseReturns
  PROVE  Inv(tls', pages', tokens', frames')
<1> DEFINE o == IF Frame.left = 0 THEN NoObject ELSE Frame.obj
           g == [Frame EXCEPT !.running = FALSE, !.obj = o]
           ts2 == SubSeq(tokens, 1, Frame.pools)
<1>1. /\ frames # <<>> /\ Frame.running /\ frames' = [frames EXCEPT ![Len(frames)] = g]
      /\ tls' = tls /\ pages' = pages /\ tokens' = ts2 /\ (env \in LeakyEnvironments \/ Len(tokens) = Frame.pools)
  BY DEF ReleaseReturns, SetFrame
<1>2. Frame = frames[Len(frames)] /\ Frame \in Drain /\ FrameOK(tls, pages, tokens, frames, Len(frames))
  BY <1>1, Newest
<1>3. tokens \in Seq(Token) /\ Len(tokens) \in Nat /\ Types(tls, pages, tokens, frames)
  BY DEF PoolInv, Inv, Types
<1>4. Older(Frame, tokens) = Frame.pools /\ Frame.pools \in Nat /\ Frame.pools <= Len(tokens)
  <2>1. Older(Frame, tokens) = Frame.pools
    BY <1>1 DEF Older
  <2>2. Frame.pools \in Nat
    BY <1>2 DEF Drain
  <2> QED
    BY <1>2, <2>1, <2>2 DEF FrameOK
<1>5. ts2 \in Seq(Token) /\ Len(ts2) = Frame.pools /\ \A n \in 1..Len(ts2) : ts2[n] = tokens[n]
  <2>1. Frame.pools \in 0..Len(tokens)
    BY <1>3, <1>4
  <2> QED
    BY <1>3, <2>1, PrefixEffect
<1>6. /\ g \in Drain /\ g.page = Frame.page /\ g.stop = Frame.stop /\ g.exits = Frame.exits /\ g.running = FALSE
  <2>1. o \in Objects \cup {NoObject}
    BY <1>2 DEF Drain
  <2> HIDE DEF o
  <2> QED
    BY <1>2, <2>1 DEF Drain
<1> HIDE DEF g, ts2
<1>7. Alike(g, Frame) /\ ~g.running /\ Older(g, ts2) = Len(ts2) /\ Older(Frame, tokens) = Len(ts2)
  BY <1>4, <1>5, <1>6 DEF Alike, Older
<1>8. Anchored(Frame) => BoundaryAt(pages, Frame.page, Frame.stop + 1)
  BY <1>1, <1>2 DEF FrameOK
<1>9. DebugPoolAllocation => LeaksWhileDebugging \/ Len(ts2) = Len(tokens)
  BY <1>1, <1>5 DEF LeaksWhileDebugging
<1>10. Len(ts2) <= Len(tokens) /\ (Frame.running => Len(ts2) = Frame.pools)
  BY <1>4, <1>5
<1>a. /\ frames' \in Seq(Drain) /\ Len(frames') = Len(frames) /\ frames'[Len(frames)] = g
      /\ \A i \in 1..Len(frames) : i # Len(frames) => frames'[i] = frames[i]
  <2>1. frames \in Seq(Drain) /\ Len(frames) \in 1..Len(frames)
    BY <1>1, <1>3, Newest DEF Types
  <2> QED
    BY <1>1, <1>6, <2>1, ExceptEffect
<1>11. Inv(tls, pages, ts2, frames')
  BY ONLY PoolInv, <1>a, <1>1, <1>5, <1>6, <1>7, <1>8, <1>9, <1>10, ReleaseEdge
<1> QED
  BY <1>1, <1>11

----------------------------------------------------------------------------
(* A pop ends.                                                             *)

\* A pop that is drained has the hot page.  Where pools are left on pages of their own,
\* the exit of a thread is not: no boundary is the last entry that it takes.
LEMMA DrainedIsHot ==
  ASSUME PoolInv, Looping, AtStop, ~(Frame.exits /\ LeaksWhileDebugging)
  PROVE  tls = Frame.page
<1>0. FrameInv(tls, pages, tokens, frames) /\ EmptyInv(tls, pages, tokens, frames)
  BY DEF PoolInv, Inv
<1>1. frames # <<>> /\ ~Frame.running /\ Len(pages[Frame.page]) = Frame.stop
  BY DEF Looping, AtStop
<1>2. /\ Frame = frames[Len(frames)] /\ Len(frames) \in Nat /\ Len(frames) \in 1..Len(frames)
      /\ FrameOK(tls, pages, tokens, frames, Len(frames))
      /\ tls \in Nat /\ tls >= 1 /\ Len(pages) \in Nat /\ tls <= Len(pages)
      /\ Frame.page \in 1..Len(pages) /\ Frame.page \in 1..tls /\ Frame.stop \in Nat
      /\ (pages[Frame.page] = <<>> <=> Len(pages[Frame.page]) = 0)
  BY <1>1, Newest
<1>3. CASE Anchored(Frame)
  <2>1. ~BoundaryAt(pages, Frame.page, Frame.stop + 1)
    BY <1>1, <1>2 DEF BoundaryAt
  <2> QED
    BY <1>2, <1>3, <2>1 DEF FrameOK
<1>4. CASE ~Anchored(Frame)
  <2>1. Frame.page = 1 /\ Frame.stop = 0 /\ Len(frames) = 1
    BY <1>2, <1>4 DEF Anchored, FrameOK
  <2>2. pages[1] = <<>> /\ 1 \in 1..Len(pages)
    BY <1>1, <1>2, <2>1
  <2>3. \A i \in 1..Len(frames) : ~MadeBy(tokens, frames, i, 1)
    BY <1>1, <1>2, <2>1 DEF MadeBy
  <2>a. ~LeaksWhileDebugging
    BY <1>4 DEF Anchored
  <2>4. ~(1 < tls)
    BY <1>0, <2>2, <2>3, <2>a DEF EmptyInv, NoneEmpty
  <2> QED
    BY <1>2, <2>1, <2>4
<1> QED
  BY <1>3, <1>4

\* The pages that are left, none above the hot one that is not empty.
LEMMA PopEnds ==
  ASSUME PoolInv, frames # <<>>, ~Frame.running, tls = Frame.page,
         NEW hot, NEW kept, hot \in 1..tls, kept \in hot..Len(pages),
         \/ hot = tls /\ ~(DebugPoolAllocation /\ pages[tls] = <<>>) /\ ~(DebugMissingPools /\ pages[tls] = <<>> /\ tls = 1)
            /\ Len(pages[tls]) = Frame.stop
         \/ hot = tls - 1 /\ kept = hot /\ DebugPoolAllocation
  PROVE  Inv(hot, SubSeq(pages, 1, kept), tokens, Front(frames))
<1> DEFINE ps2 == SubSeq(pages, 1, kept)
           fs2 == Front(frames)
           m == Len(frames)
<1>0. /\ Types(tls, pages, tokens, frames) /\ HotInv(tls, pages, frames) /\ TokenInv(tls, pages, tokens)
      /\ FrameInv(tls, pages, tokens, frames) /\ EmptyInv(tls, pages, tokens, frames) /\ Inv(tls, pages, tokens, frames)
  BY DEF PoolInv, Inv
<1>1. /\ Frame = frames[m] /\ m \in Nat /\ m \in 1..m /\ FrameOK(tls, pages, tokens, frames, m)
      /\ tls \in Nat /\ tls >= 1 /\ Len(pages) \in Nat /\ tls <= Len(pages) /\ Frame.stop \in Nat
      /\ (pages[tls] = <<>> <=> Len(pages[tls]) = 0)
  BY Newest
<1>2. hot \in Nat /\ hot >= 1 /\ hot <= tls /\ kept \in Nat /\ kept \in 0..Len(pages) /\ hot <= kept
  BY <1>1
<1>3. pages \in Seq(Seq(Entry)) /\ frames \in Seq(Drain) /\ tokens \in Seq(Token) /\ Len(tokens) \in Nat
  BY <1>0 DEF Types
<1>4. ps2 \in Seq(Seq(Entry)) /\ Len(ps2) = kept /\ \A k \in 1..kept : ps2[k] = pages[k]
  BY <1>2, <1>3, PrefixEffect
<1>5. fs2 \in Seq(Drain) /\ Len(fs2) = m - 1 /\ \A i \in 1..(m - 1) : fs2[i] = frames[i]
  BY <1>3, FrontEffect
<1> HIDE DEF ps2, fs2
<1>6. \A k \in 1..Len(ps2) : k \in 1..Len(pages) /\ ps2[k] = pages[k]
  BY <1>1, <1>2, <1>4
<1>7. \A i \in 1..Len(fs2) : i \in 1..m /\ i # m /\ i + 1 \in 1..m /\ fs2[i] = frames[i]
  BY <1>1, <1>5
<1>8. DebugPoolAllocation => hot = tls - 1 /\ Frame.stop = 0
  <2>1. DebugPoolAllocation => Frame.stop = 0
    BY <1>1 DEF FrameOK
  <2> QED
    BY <1>1, <2>1
\* Places below the pop that ends are below or on the page that is hot now.
<1>9. \A p \in Nat : p < tls \/ (p = tls /\ ~DebugPoolAllocation) => p <= hot
  BY <1>1, <1>2, <1>8
<1>10. Types(hot, ps2, tokens, fs2)
  <2>1. hot \in 1..Len(ps2)
    BY <1>2, <1>4
  <2> QED
    BY <1>3, <1>4, <1>5, <2>1 DEF Types
\* Without frames, no page below is empty.
<1>11. fs2 = <<>> /\ ~LeaksWhileDebugging => \A j \in 1..Len(pages) : j < tls => pages[j] # <<>>
  <2> SUFFICES ASSUME fs2 = <<>>, ~LeaksWhileDebugging, NEW j \in 1..Len(pages), j < tls, pages[j] = <<>> PROVE FALSE
    OBVIOUS
  <2>1. m = 1
    BY <1>1, <1>5, EmptyLen
  <2>2. \A i \in 1..m : ~MadeBy(tokens, frames, i, j)
    BY <1>1, <2>1 DEF MadeBy
  <2> QED
    BY <1>0, <2>2 DEF EmptyInv, NoneEmpty
<1>12. HotInv(hot, ps2, fs2)
  <2>1. ~(hot < 1) /\ hot # Placeholder
    BY <1>2 DEF Placeholder
  <2>2. \A k \in 1..Len(ps2) : k > hot => ps2[k] = <<>>
    <3> SUFFICES ASSUME NEW k \in 1..Len(ps2), k > hot PROVE ps2[k] = <<>>
      OBVIOUS
    <3>1. hot = tls
      BY <1>1, <1>2, <1>4
    <3> QED
      BY <1>0, <1>6, <3>1 DEF HotInv
  <2>3. 1 \in 1..Len(ps2) /\ hot \in 1..Len(ps2) /\ 1 \in 1..Len(pages) /\ hot \in 1..Len(pages) /\ pages # <<>>
    BY <1>1, <1>2, <1>4, <1>3
  <2>4. ps2[1] = pages[1] /\ ps2[hot] = pages[hot]
    BY <1>6, <2>3
  <2>5. DebugMissingPools /\ ps2[1] # <<>> => ps2[1][1] = Boundary
    BY <1>0, <2>3, <2>4 DEF HotInv
  <2>6. (fs2 # <<>> => fs2[1].page > 1) /\ Debugging => pages[1] # <<>>
    <3> SUFFICES ASSUME fs2 # <<>> => fs2[1].page > 1, Debugging, pages[1] = <<>> PROVE FALSE
      OBVIOUS
    <3>0. ~(frames[1].page > 1)
      BY <1>0, <1>1 DEF HotInv
    <3>a. fs2 # <<>> => fs2[1] = frames[1]
      <4>1. fs2 # <<>> => 1 \in 1..Len(fs2)
        BY <1>5, EmptyLen
      <4> QED
        BY <1>7, <4>1
    <3>1. fs2 = <<>>
      BY <3>0, <3>a
    <3>b. m = 1
      BY <1>1, <1>5, <3>1, EmptyLen
    <3>2. tls = 1 /\ hot = tls
      BY <1>1, <1>2, <3>0, <3>b
    <3> QED
      BY <1>2, <1>8, <3>2 DEF Debugging
  <2>7. fs2 = <<>> /\ DebugPoolAllocation /\ ~LeaksWhileDebugging => pages[hot] # <<>>
    <3>1. DebugPoolAllocation => hot < tls
      BY <1>1, <1>8
    <3> QED
      BY <1>11, <2>3, <3>1
  <2> QED
    BY <2>1, <2>2, <2>4, <2>5, <2>6, <2>7 DEF HotInv
<1>13. \A p, s : BoundaryAt(pages, p, s) /\ p <= hot => BoundaryAt(ps2, p, s)
  <2> SUFFICES ASSUME NEW p, NEW s, BoundaryAt(pages, p, s), p <= hot PROVE BoundaryAt(ps2, p, s)
    OBVIOUS
  <2>1. p \in 1..Len(pages) /\ s \in 1..Len(pages[p]) /\ pages[p][s] = Boundary
    BY DEF BoundaryAt
  <2>2. p \in 1..Len(ps2)
    BY <1>2, <1>4, <2>1
  <2> QED
    BY <1>6, <2>1, <2>2 DEF BoundaryAt
<1>14. \A n \in 1..Len(tokens) : PageOf(tokens[n]) \in 1..hot /\ PageOf(tokens[n]) <= hot
  <2> SUFFICES ASSUME NEW n \in 1..Len(tokens) PROVE PageOf(tokens[n]) \in 1..hot
    BY <1>2
  <2>1. Under(Frame, PageOf(tokens[n]), SlotOf(tokens[n]))
    BY TokensBelow
  <2>2. PageOf(tokens[n]) \in 1..tls /\ SlotOf(tokens[n]) \in 1..Len(pages[PageOf(tokens[n])])
    BY <1>0, <1>1, TokenPlace
  <2>3. PageOf(tokens[n]) < tls \/ (PageOf(tokens[n]) = tls /\ ~DebugPoolAllocation)
    <3>1. PageOf(tokens[n]) = tls /\ DebugPoolAllocation => FALSE
      <4>1. SlotOf(tokens[n]) \in Nat
        BY <1>0, Typing
      <4> QED
        BY <1>1, <1>8, <2>1, <2>2, <4>1 DEF Under
    <3> QED
      BY <1>1, <2>2, <3>1
  <2>4. PageOf(tokens[n]) <= hot
    BY <1>9, <2>2, <2>3
  <2> QED
    BY <1>2, <2>2, <2>4
<1>15. TokenInv(hot, ps2, tokens)
  <2>1. ASSUME NEW n \in 1..Len(tokens) PROVE BoundaryAt(ps2, PageOf(tokens[n]), SlotOf(tokens[n]))
    <3>1. BoundaryAt(pages, PageOf(tokens[n]), SlotOf(tokens[n]))
      BY <1>0, <1>1, TokenPlace
    <3> QED
      BY <1>13, <1>14, <3>1
  <2> QED
    BY <1>0, <2>1 DEF TokenInv
<1>16. FrameInv(hot, ps2, tokens, fs2)
  <2> SUFFICES ASSUME NEW i \in 1..Len(fs2) PROVE FrameOK(hot, ps2, tokens, fs2, i)
    BY DEF FrameInv
  <2>0. i \in 1..m /\ i # m /\ fs2[i] = frames[i]
    BY <1>7
  <2>1. /\ frames[i].running /\ FrameOK(tls, pages, tokens, frames, i)
        /\ Anchored(frames[i]) => BoundaryAt(pages, frames[i].page, frames[i].stop + 1)
        /\ Over(frames[i], tls, Frame.stop + 1) /\ frames[i].page <= tls
    BY <2>0, OlderFrames
  <2>2. frames[i].page \in Nat /\ frames[i].page >= 1 /\ frames[i].stop \in Nat
    BY <1>0, <2>0, Typing
  <2>3. frames[i].page <= hot
    <3>1. frames[i].page < tls \/ (frames[i].page = tls /\ ~DebugPoolAllocation)
      BY <1>1, <2>1, <2>2 DEF Over
    <3> QED
      BY <1>9, <2>2, <3>1
  <2>4. frames[i].page \in 1..Len(ps2) /\ ps2[frames[i].page] = pages[frames[i].page]
    <3>1. frames[i].page \in 1..Len(ps2)
      BY <1>2, <1>4, <2>2, <2>3
    <3> QED
      BY <1>6, <3>1
  <2>5. frames[i].stop <= Len(ps2[frames[i].page])
    BY <2>1, <2>4 DEF FrameOK
  <2>6. Anchored(frames[i]) => BoundaryAt(ps2, frames[i].page, frames[i].stop + 1)
    BY <1>13, <2>1, <2>3
  <2>7. \A j \in 1..Len(fs2) : i < j => Over(frames[i], fs2[j].page, fs2[j].stop + 1) /\ Older(frames[i], tokens) <= Older(fs2[j], tokens)
    BY <1>7, <2>1 DEF FrameOK
  <2> QED
    BY <2>0, <2>1, <2>3, <2>4, <2>5, <2>6, <2>7 DEF FrameOK
<1>17. EmptyInv(hot, ps2, tokens, fs2)
  <2> SUFFICES ASSUME ~LeaksWhileDebugging PROVE NoneEmpty(hot, ps2, tokens, fs2)
    BY DEF EmptyInv
  <2>1. ASSUME NEW j \in 1..Len(pages), j < tls, pages[j] = <<>>
        PROVE  /\ DebugPoolAllocation
               /\ \E i \in 1..Len(fs2) : /\ MadeBy(tokens, frames, i, j)
                                         /\ j + 1 # tls => MadeBy(tokens, fs2, i, j)
    <3>1. DebugPoolAllocation /\ \E i \in 1..m : MadeBy(tokens, frames, i, j)
      BY <1>0, <2>1 DEF EmptyInv, NoneEmpty
    <3>2. PICK i \in 1..m : MadeBy(tokens, frames, i, j)
      BY <3>1
    <3>3. i # m /\ i \in 1..Len(fs2)
      <4>1. i # m
        BY <1>1, <3>2 DEF MadeBy
      <4> QED
        BY <1>1, <1>5, <4>1
    <3>4. fs2[i] = frames[i]
      BY <1>7, <3>3
    <3>5. ASSUME j + 1 # tls PROVE MadeBy(tokens, fs2, i, j)
      <4>1. CASE frames[i].pools < Len(tokens) /\ PageOf(tokens[frames[i].pools + 1]) = j + 1
        BY <3>2, <3>4, <4>1 DEF MadeBy
      <4>2. CASE i < m /\ frames[i + 1].page = j + 1 /\ Older(frames[i + 1], tokens) = frames[i].pools
        <5>1. i + 1 # m
          BY <1>1, <3>5, <4>2
        <5>2. i < Len(fs2) /\ i + 1 \in 1..Len(fs2)
          <6>1. i \in Nat /\ i >= 1 /\ i + 1 < m
            BY <1>1, <4>2, <5>1
          <6> HIDE DEF m
          <6> QED
            BY <1>1, <1>5, <6>1
        <5>3. fs2[i + 1] = frames[i + 1]
          BY <1>7, <5>2
        <5> QED
          BY <3>2, <3>4, <4>2, <5>2, <5>3 DEF MadeBy
      <4> QED
        BY <3>2, <4>1, <4>2 DEF MadeBy
    <3> QED
      BY <3>1, <3>2, <3>3, <3>5
  <2>2. \A j \in 1..Len(ps2) : j < hot /\ ps2[j] = <<>> => DebugPoolAllocation /\ \E i \in 1..Len(fs2) : MadeBy(tokens, fs2, i, j)
    <3> SUFFICES ASSUME NEW j \in 1..Len(ps2), j < hot, ps2[j] = <<>>
                 PROVE  DebugPoolAllocation /\ \E i \in 1..Len(fs2) : MadeBy(tokens, fs2, i, j)
      OBVIOUS
    <3>1. j \in 1..Len(pages) /\ pages[j] = <<>> /\ j < tls
      BY <1>1, <1>2, <1>6
    <3>2. DebugPoolAllocation
      BY <2>1, <3>1
    <3>3. j + 1 # tls
      BY <1>1, <1>2, <1>8, <3>2
    <3> QED
      BY <2>1, <3>1, <3>2, <3>3
  <2>3. ASSUME fs2 # <<>>, DebugPoolAllocation, ps2[hot] = <<>> PROVE Len(tokens) = fs2[Len(fs2)].pools
    <3>1. hot = tls - 1 /\ hot \in 1..Len(pages) /\ hot < tls /\ hot + 1 = tls /\ pages[hot] = <<>>
      <4>1. hot \in 1..Len(ps2)
        BY <1>2, <1>4
      <4>2. pages[hot] = <<>> /\ hot \in 1..Len(pages)
        BY <1>6, <2>3, <4>1
      <4> QED
        BY <1>1, <1>2, <1>8, <2>3, <4>2
    <3>2. PICK i \in 1..Len(fs2) : MadeBy(tokens, frames, i, hot)
      BY <2>1, <3>1
    <3>3. fs2[i] = frames[i] /\ i \in 1..m /\ i # m /\ i + 1 \in 1..m /\ frames[i].pools \in Nat
      <4>1. fs2[i] = frames[i] /\ i \in 1..m /\ i # m /\ i + 1 \in 1..m
        BY <1>7
      <4> QED
        BY <1>0, <4>1, Typing
    <3>4. ~(frames[i].pools < Len(tokens) /\ PageOf(tokens[frames[i].pools + 1]) = hot + 1)
      <4> SUFFICES ASSUME frames[i].pools < Len(tokens), PageOf(tokens[frames[i].pools + 1]) = hot + 1 PROVE FALSE
        OBVIOUS
      <4>1. frames[i].pools + 1 \in 1..Len(tokens)
        <5>1. frames[i].pools \in Nat /\ Len(tokens) \in Nat
          BY <1>3, <3>3
        <5> QED
          BY <5>1
      <4>2. PageOf(tokens[frames[i].pools + 1]) <= hot
        BY <1>14, <4>1
      <4> QED
        BY <1>2, <4>2
    <3>5. frames[i + 1].page = tls /\ Older(frames[i + 1], tokens) = frames[i].pools
      BY <3>1, <3>2, <3>4 DEF MadeBy
    <3>6. i + 1 = m
      <4> SUFFICES ASSUME i + 1 # m PROVE FALSE
        OBVIOUS
      <4>1. Over(frames[i + 1], tls, Frame.stop + 1)
        BY <3>3, OlderFrames
      <4> QED
        BY <1>1, <2>3, <3>5, <4>1 DEF Over
    <3>7. Older(Frame, tokens) = Len(tokens) /\ frames[i + 1] = Frame
      BY <1>1, <3>6 DEF Older
    <3>8. i = Len(fs2)
      BY <1>1, <1>5, <3>3, <3>6
    <3> QED
      BY <3>3, <3>5, <3>7, <3>8
  <2> QED
    BY <2>2, <2>3 DEF NoneEmpty
<1> QED
  BY <1>10, <1>12, <1>15, <1>16, <1>17 DEF Inv, ps2, fs2

LEMMA KeptByFinishPop ==
  ASSUME PoolInv, FinishPop
  PROVE  Inv(tls', pages', tokens', frames')
<1> DEFINE m == Len(frames)
           kept == IF Frame.exits /\ ~Debugging THEN 0 ELSE Kept(Frame.page)
           left == IF kept < Len(pages) THEN kept ELSE Len(pages)
<1>0. /\ Types(tls, pages, tokens, frames) /\ HotInv(tls, pages, frames) /\ TokenInv(tls, pages, tokens)
      /\ FrameInv(tls, pages, tokens, frames) /\ Inv(tls, pages, tokens, frames)
  BY DEF PoolInv, Inv
<1>1. /\ Looping /\ AtStop /\ frames # <<>> /\ ~Frame.running /\ Len(pages[Frame.page]) = Frame.stop
      /\ pages' = SubSeq(pages, 1, left) /\ frames' = Front(frames) /\ tokens' = tokens
      /\ tls' = IF Frame.exits THEN Nil ELSE IF kept < Frame.page THEN kept ELSE Frame.page
  BY DEF FinishPop, Looping, AtStop
<1>2. ~Frame.exits => tls = Frame.page
  BY <1>1, DrainedIsHot
<1>3. /\ Frame = frames[m] /\ m \in Nat /\ m \in 1..m /\ FrameOK(tls, pages, tokens, frames, m)
      /\ tls \in Nat /\ tls >= 1 /\ Len(pages) \in Nat /\ tls <= Len(pages) /\ Frame.stop \in Nat
      /\ Frame.page \in 1..Len(pages) /\ (pages[Frame.page] = <<>> <=> Len(pages[Frame.page]) = 0)
  BY <1>1, Newest
<1>4. frames \in Seq(Drain) /\ tokens \in Seq(Token) /\ pages \in Seq(Seq(Entry)) /\ Len(tokens) \in Nat
  BY <1>0 DEF Types
<1>5. Len(Front(frames)) = m - 1 /\ Front(frames) \in Seq(Drain)
  BY <1>1, <1>4, FrontEffect
\* What is drained to the first slot of the first page leaves no tokens.
<1>6. Frame.page = 1 /\ Frame.stop = 0 => tokens = <<>>
  <2> SUFFICES ASSUME Frame.page = 1, Frame.stop = 0, tokens # <<>> PROVE FALSE
    OBVIOUS
  <2>1. 1 \in 1..Len(tokens)
    BY <1>4, EmptyLen
  <2>2. Under(Frame, PageOf(tokens[1]), SlotOf(tokens[1]))
    BY <1>1, <2>1, TokensBelow
  <2>3. PageOf(tokens[1]) \in 1..tls /\ SlotOf(tokens[1]) \in 1..Len(pages[PageOf(tokens[1])])
    BY <1>0, <1>3, <2>1, TokenPlace
  <2>4. SlotOf(tokens[1]) \in Nat /\ PageOf(tokens[1]) \in Nat /\ SlotOf(tokens[1]) >= 1 /\ PageOf(tokens[1]) >= 1
    BY <1>0, <2>1, <2>3, Typing
  <2> QED
    BY <2>2, <2>4 DEF Under
<1>7. CASE Frame.exits
  <2>1. m = 1 /\ Frame.page = 1 /\ Frame.stop = 0
    BY <1>3, <1>7 DEF FrameOK
  <2>2. pages[1] = <<>>
    BY <1>1, <1>3, <2>1
  <2>3. kept = 0
    <3>1. Debugging => Kept(1) = 0
      BY <2>2 DEF Kept, Debugging
    <3>2. Frame.page = 1
      BY <2>1
    <3>3. CASE Debugging
      BY <3>1, <3>2, <3>3
    <3>4. CASE ~Debugging
      BY <1>7, <3>4
    <3> QED
      BY <3>3, <3>4
  <2>4. pages' = <<>>
    BY <1>1, <1>3, <1>4, <2>3
  <2>5. frames' = <<>>
    BY <1>1, <1>5, <2>1, EmptyLen
  <2>6. tokens' = <<>> /\ tls' = Nil
    BY <1>1, <1>6, <1>7, <2>1
  <2> QED
    BY <2>4, <2>5, <2>6, NothingThere
<1>8. CASE ~Frame.exits
  <2>0. tls = Frame.page /\ kept = Kept(tls) /\ tls' = IF kept < tls THEN kept ELSE tls
    BY <1>1, <1>2, <1>8
  <2>1. CASE DebugPoolAllocation /\ pages[tls] = <<>> /\ tls > 1
    <3>1. kept = tls - 1
      BY <2>0, <2>1 DEF Kept
    <3> HIDE DEF kept
    <3>2. left = tls - 1 /\ tls' = tls - 1 /\ tls - 1 \in 1..tls /\ tls - 1 \in (tls - 1)..Len(pages)
      BY <1>3, <2>0, <2>1, <3>1
    <3> HIDE DEF left
    <3>3. Inv(tls - 1, SubSeq(pages, 1, tls - 1), tokens, Front(frames))
      BY <1>1, <2>0, <2>1, <3>2, PopEnds
    <3> QED
      BY <1>1, <3>2, <3>3
  <2>2. CASE Debugging /\ pages[tls] = <<>> /\ tls = 1
    <3>1. kept = 0
      <4>1. Kept(1) = 0
        BY <2>2 DEF Kept, Debugging
      <4> HIDE DEF kept
      <4> QED
        BY <2>0, <2>2, <4>1
    <3>2. tls' = Nil
      BY <2>0, <2>2, <3>1 DEF Nil
    <3>3. pages' = <<>>
      BY <1>1, <1>3, <1>4, <3>1
    <3>4. Frame.stop = 0
      BY <1>1, <1>3, <2>0, <2>2
    <3>5. m = 1
      <4> SUFFICES ASSUME m # 1 PROVE FALSE
        OBVIOUS
      <4>1. 1 \in 1..m
        BY <1>3
      <4>2. Over(frames[1], 1, 1) /\ FrameOK(tls, pages, tokens, frames, 1)
        <5>1. Over(frames[1], Frame.page, Frame.stop + 1) /\ FrameOK(tls, pages, tokens, frames, 1)
          BY <1>1, <4>1, OlderFrames
        <5>2. Frame.page = 1 /\ Frame.stop + 1 = 1
          BY <2>0, <2>2, <3>4
        <5> QED
          BY <5>1, <5>2
      <4>3. frames[1].page \in Nat /\ frames[1].page >= 1 /\ frames[1].stop \in Nat
        BY <1>0, <4>1, Typing
      <4> QED
        BY <2>2, <4>2, <4>3 DEF Over, Anchored, Debugging
    <3>6. frames' = <<>>
      BY <1>1, <1>5, <3>5, EmptyLen
    <3> QED
      BY <1>1, <1>6, <2>0, <2>2, <3>2, <3>3, <3>4, <3>6, NothingThere
  <2>3. CASE ~(DebugPoolAllocation /\ pages[tls] = <<>>) /\ ~(DebugMissingPools /\ pages[tls] = <<>> /\ tls = 1)
    <3>1. kept \in {tls, tls + 1}
      BY <2>0, <2>3 DEF Kept
    <3> HIDE DEF kept
    <3>2. left \in tls..Len(pages) /\ tls' = tls /\ tls \in 1..tls
      BY <1>3, <2>0, <3>1
    <3> HIDE DEF left
    <3>3. Inv(tls, SubSeq(pages, 1, left), tokens, Front(frames))
      BY <1>1, <2>0, <2>3, <3>2, PopEnds
    <3> QED
      BY <1>1, <3>2, <3>3
  <2> QED
    BY <1>3, <2>1, <2>2, <2>3 DEF Debugging
<1> QED
  BY <1>7, <1>8

----------------------------------------------------------------------------
(* The theorems.                                                           *)

LEMMA NextKeeps ==
  ASSUME PoolInv, [Next]_vars
  PROVE  PoolInv'
<1>1. CASE UNCHANGED vars
  <2>1. env' = env /\ tls' = tls /\ pages' = pages /\ tokens' = tokens /\ frames' = frames
    BY <1>1 DEF vars
  <2> QED
    BY <2>1 DEF PoolInv, Inv, Types, HotInv, TokenInv, FrameInv, EmptyInv, FrameOK, MadeBy, BoundaryAt, Over, Under,
                Older, Anchored, Debugging, DebugPoolAllocation, DebugMissingPools, LeaksWhileDebugging, NoneEmpty,
                Drain, Token, Entry
<1>2. CASE Next
  <2>1. env' = env /\ Step
    BY <1>2 DEF Next
  <2>2. Inv(tls', pages', tokens', frames')
    BY <2>1, KeptByAutorelease, KeptByPush, KeptByPop, KeptByThreadExit, KeptByReleaseNext, KeptByCallRelease,
       KeptByReleaseReturns, KeptByFinishPop DEF Step
  <2>3. (DebugPoolAllocation <=> DebugPoolAllocation') /\ (DebugMissingPools <=> DebugMissingPools') /\ (Debugging <=> Debugging')
        /\ (LeaksWhileDebugging <=> LeaksWhileDebugging')
    BY <2>1 DEF Debugging, DebugPoolAllocation, DebugMissingPools, LeaksWhileDebugging
  <2>4. /\ Types(tls', pages', tokens', frames') /\ HotInv(tls', pages', frames') /\ TokenInv(tls', pages', tokens')
        /\ FrameInv(tls', pages', tokens', frames') /\ EmptyInv(tls', pages', tokens', frames')
    BY <2>2 DEF Inv
  <2>5. Types(tls, pages, tokens, frames)'
    BY <2>4 DEF Types
  <2>6. HotInv(tls, pages, frames)'
    BY <2>3, <2>4 DEF HotInv
  <2>7. TokenInv(tls, pages, tokens)'
    BY <2>3, <2>4 DEF TokenInv
  <2>8. EmptyInv(tls, pages, tokens, frames)'
    BY <2>3, <2>4 DEF EmptyInv, NoneEmpty
  <2>9. FrameInv(tls, pages, tokens, frames)'
    BY <2>3, <2>4 DEF FrameInv, FrameOK, Anchored, Over
  <2> QED
    BY <2>1, <2>5, <2>6, <2>7, <2>8, <2>9 DEF PoolInv, Inv
<1> QED
  BY <1>1, <1>2

\* The invariant holds throughout: tokens and pops in progress are at boundaries, in
\* order, whatever -dealloc methods push, pop and autorelease in the middle of a pop.
THEOREM PoolInvariance == Spec => []PoolInv
<1>1. Init => PoolInv
  BY NothingThere DEF Init, PoolInv
<1>2. PoolInv /\ [Next]_vars => PoolInv'
  BY NextKeeps
<1> QED
  BY <1>1, <1>2, PTL DEF Spec

\* The token of a pool that is not popped yet points to a boundary, and the page a pop
\* in progress works on stays: "Invalid or prematurely-freed autorelease pool" is never
\* reported to a client that pops its pools in order.
THEOREM TokensNeverDangle == Spec => []TokensStayValid
<1>1. PoolInv => TokensStayValid
  <2> SUFFICES ASSUME PoolInv PROVE TokensStayValid
    OBVIOUS
  <2>0. Types(tls, pages, tokens, frames) /\ TokenInv(tls, pages, tokens) /\ FrameInv(tls, pages, tokens, frames)
    BY DEF PoolInv, Inv
  <2>1. tokens \in Seq(Token) /\ frames \in Seq(Drain) /\ pages \in Seq(Seq(Entry))
    BY <2>0 DEF Types
  <2>2. DOMAIN tokens = 1..Len(tokens) /\ DOMAIN frames = 1..Len(frames) /\ DOMAIN pages = 1..Len(pages)
        /\ \A k \in 1..Len(pages) : DOMAIN pages[k] = 1..Len(pages[k])
    BY <2>1
  <2>3. ASSUME NEW n \in 1..Len(tokens)
        PROVE  IF tokens[n] = PlaceholderToken
               THEN tls = Placeholder \/ (pages # <<>> /\ pages[1] # <<>> /\ pages[1][1] = Boundary)
               ELSE tokens[n].page \in 1..Len(pages) /\ tokens[n].slot \in 1..Len(pages[tokens[n].page]) /\ pages[tokens[n].page][tokens[n].slot] = Boundary
    <3>1. (tls = Placeholder /\ tokens[n] = PlaceholderToken) \/ BoundaryAt(pages, PageOf(tokens[n]), SlotOf(tokens[n]))
      BY <2>0 DEF TokenInv
    <3>2. CASE tokens[n] = PlaceholderToken
      <4>1. PageOf(tokens[n]) = 1 /\ SlotOf(tokens[n]) = 1
        BY <3>2 DEF PageOf, SlotOf
      <4>2. SUFFICES ASSUME BoundaryAt(pages, 1, 1) PROVE pages # <<>> /\ pages[1] # <<>> /\ pages[1][1] = Boundary
        BY <3>1, <3>2, <4>1
      <4>3. 1 \in 1..Len(pages) /\ 1 \in 1..Len(pages[1]) /\ pages[1][1] = Boundary
        BY <4>2 DEF BoundaryAt
      <4>4. Len(<<>>) = 0
        OBVIOUS
      <4> QED
        BY <4>3, <4>4
    <3>3. CASE tokens[n] # PlaceholderToken
      BY <3>1, <3>3 DEF PageOf, SlotOf, BoundaryAt
    <3> QED
      BY <3>2, <3>3
  <2>4. NoBadPop
    BY <2>2, <2>3 DEF NoBadPop
  <2>5. FramesStayValid
    <3> SUFFICES ASSUME NEW i \in 1..Len(frames) PROVE frames[i].page \in 1..Len(pages) /\ Len(pages[frames[i].page]) >= frames[i].stop
      BY <2>2 DEF FramesStayValid
    <3>1. frames[i].page \in 1..Len(pages) /\ frames[i].stop <= Len(pages[frames[i].page])
      BY <2>0 DEF FrameInv, FrameOK
    <3> QED
      BY <3>1
  <2> QED
    BY <2>4, <2>5 DEF TokensStayValid
<1> QED
  BY <1>1, PoolInvariance, PTL

\* A pop that has drained its page finds all children empty, or is the exit of a thread
\* where a -dealloc left a pool on a page of its own; and no page is lost between pops
\* or when the thread has exited.
THEOREM PagesGetDrained == Spec => []PagesAreDrained
<1>1. PoolInv => PagesAreDrained
  <2> SUFFICES ASSUME PoolInv PROVE PagesAreDrained
    OBVIOUS
  <2>0. Types(tls, pages, tokens, frames) /\ HotInv(tls, pages, frames) /\ Inv(tls, pages, tokens, frames)
    BY DEF PoolInv, Inv
  <2>1. ChildrenAreEmpty
    <3> SUFFICES ASSUME Looping, AtStop, ~(Frame.exits /\ LeaksWhileDebugging), NEW k \in Frame.page + 1 .. Len(pages) PROVE pages[k] = <<>>
      BY DEF ChildrenAreEmpty
    <3>1. tls = Frame.page
      BY DrainedIsHot
    <3>2. tls \in Nat /\ tls >= 1 /\ Len(pages) \in Nat
      BY Newest DEF Looping
    <3>3. k \in 1..Len(pages) /\ k > tls
      BY <3>1, <3>2
    <3> QED
      BY <2>0, <3>3 DEF HotInv
  <2>2. NoPageIsLost
    <3> SUFFICES ASSUME HotPage = Nil PROVE pages = <<>>
      BY DEF NoPageIsLost
    <3>1. tls < 1
      BY DEF HotPage, Nil, Placeholder
    <3> QED
      BY <2>0, <3>1 DEF HotInv
  <2> QED
    BY <2>1, <2>2 DEF PagesAreDrained
<1> QED
  BY <1>1, PoolInvariance, PTL

\* "fixme I think this `while` can be `if`, but I can't prove it" in releaseUntil: when
\* something is left to release, the hot page or its parent has an entry of the pop; where
\* a -dealloc may leave a pool on a page of its own, some page down to that of the pop.
THEOREM TheWalkEnds == Spec => []WalkBackEnds
<1>1. PoolInv => WalkBackEnds
  <2> SUFFICES ASSUME PoolInv, Looping, ~AtStop
               PROVE  \E k \in Frame.page .. tls : pages[k] # <<>> /\ (k < tls - 1 => LeaksWhileDebugging)
    BY DEF WalkBackEnds
  <2>0. Types(tls, pages, tokens, frames) /\ EmptyInv(tls, pages, tokens, frames) /\ FrameInv(tls, pages, tokens, frames)
    BY DEF PoolInv, Inv
  <2>1. frames # <<>> /\ ~Frame.running /\ Len(pages[Frame.page]) # Frame.stop
    BY DEF Looping, AtStop
  <2>2. /\ Frame = frames[Len(frames)] /\ Len(frames) \in Nat
        /\ tls \in Nat /\ tls >= 1 /\ Len(pages) \in Nat /\ tls <= Len(pages)
        /\ Frame.page \in 1..Len(pages) /\ Frame.page \in 1..tls /\ Frame.stop \in Nat /\ Frame.stop <= Len(pages[Frame.page])
        /\ Len(pages[Frame.page]) \in Nat /\ (pages[Frame.page] = <<>> <=> Len(pages[Frame.page]) = 0)
    BY <2>1, Newest
  <2>3. pages[Frame.page] # <<>>
    BY <2>1, <2>2
  <2>a. CASE LeaksWhileDebugging
    <3>1. Frame.page \in Frame.page .. tls
      BY <2>2
    <3> QED
      BY <2>3, <2>a, <3>1
  <2>b. CASE pages[tls] # <<>>
    <3>1. tls \in Frame.page .. tls /\ ~(tls < tls - 1)
      BY <2>2
    <3> QED
      BY <2>b, <3>1
  <2> SUFFICES ASSUME ~LeaksWhileDebugging, pages[tls] = <<>>
               PROVE  \E k \in Frame.page .. tls : pages[k] # <<>> /\ ~(k < tls - 1)
    BY <2>a, <2>b
  <2>4. tls > 1 /\ Frame.page < tls
    BY <2>2, <2>3
  <2>5. ASSUME pages[tls - 1] = <<>> PROVE FALSE
    <3>1. tls - 1 \in 1..Len(pages) /\ tls - 1 < tls /\ (tls - 1) + 1 = tls
      BY <2>2, <2>4
    <3>2. PICK i \in 1..Len(frames) : MadeBy(tokens, frames, i, tls - 1)
      BY <2>0, <2>5, <3>1 DEF EmptyInv, NoneEmpty
    <3>3. frames[i].pools \in Nat /\ Len(tokens) \in Nat
      BY <2>0, Typing
    <3>4. CASE frames[i].pools < Len(tokens) /\ PageOf(tokens[frames[i].pools + 1]) = tls
      <4>1. frames[i].pools + 1 \in 1..Len(tokens)
        BY <3>3, <3>4
      <4>2. PageOf(tokens[frames[i].pools + 1]) <= Frame.page
        BY <2>1, <4>1, TokensBelow
      <4> QED
        BY <2>2, <2>4, <3>4, <4>2
    <3>5. CASE i < Len(frames) /\ frames[i + 1].page = tls
      <4>1. i + 1 \in 1..Len(frames)
        BY <2>2, <3>5
      <4>2. frames[i + 1].page <= Frame.page
        <5>1. CASE i + 1 = Len(frames)
          BY <2>2, <5>1
        <5>2. CASE i + 1 # Len(frames)
          BY <2>1, <4>1, <5>2, OlderFrames
        <5> QED
          BY <5>1, <5>2
      <4> QED
        BY <2>2, <2>4, <3>5, <4>2
    <3> QED
      BY <3>1, <3>2, <3>4, <3>5 DEF MadeBy
  <2>6. tls - 1 \in Frame.page .. tls /\ ~(tls - 1 < tls - 1)
    BY <2>2, <2>4
  <2> QED
    BY <2>5, <2>6
<1> QED
  BY <1>1, PoolInvariance, PTL
=============================================================================
