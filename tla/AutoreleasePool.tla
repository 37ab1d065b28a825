--------------------------- MODULE AutoreleasePool ---------------------------
(***************************************************************************)
(* The autorelease pools of one thread (NSObject.mm, AutoreleasePoolPage): *)
(* a stack of entries in a linked list of pages, the hot page in thread    *)
(* local storage, coalescing of entries, and pops whose releases run       *)
(* -dealloc methods that use the pools again.                              *)
(*                                                                         *)
(* Pages are numbered from the cold one; pages[k] holds the entries of     *)
(* page k below its next pointer, and page k + 1 is its child.  Client     *)
(* code runs between pops and in every release; it pops only pools it      *)
(* pushed itself, and popping one discards the ones pushed after it.       *)
(***************************************************************************)
EXTENDS Integers, Sequences, SequencesExt

CONSTANTS
  Objects,
  LookBack,              \* 4: entries the LRU strategy looks at
  MaxCount,              \* 65535: AutoreleasePoolEntry::maxCount
  Environments,          \* sets of OBJC_ environment variables to start with
  LeakyEnvironments,     \* those where a -dealloc may leave its pools pushed
  PageSize,              \* PageSize[e]: entries of a page in environment e
  MaxPages,              \* MaxPages[e]: bound, pages of a thread
  MaxFrames,             \* bound: nested pops
  NoObject

ASSUME PoolAssumption ==
  /\ NoObject \notin Objects
  /\ LookBack \in Nat /\ MaxCount \in Nat /\ MaxFrames \in Nat
  /\ PageSize \in [Environments -> Nat \ {0}] /\ MaxPages \in [Environments -> Nat]
  /\ LeakyEnvironments \subseteq Environments
  /\ Environments \subseteq SUBSET {"DEBUG_POOL_ALLOCATION", "DEBUG_MISSING_POOLS",
                                    "DISABLE_AUTORELEASE_COALESCING",
                                    "DISABLE_AUTORELEASE_COALESCING_LRU"}

VARIABLES
  env,      \* the environment variables the process was started with
  tls,      \* number of the hot page, Nil or Placeholder
  pages,
  tokens,   \* tokens of the pools the client has pushed, newest last
  frames,   \* releaseUntil calls in progress, newest last
  owed      \* ghost: autoreleases of an object not followed by a release; a thread
            \* that has exited owes nothing

vars == <<env, tls, pages, tokens, frames, owed>>

DebugPoolAllocation == "DEBUG_POOL_ALLOCATION" \in env
DebugMissingPools == "DEBUG_MISSING_POOLS" \in env
DisableAutoreleaseCoalescing == "DISABLE_AUTORELEASE_COALESCING" \in env
DisableAutoreleaseCoalescingLRU == "DISABLE_AUTORELEASE_COALESCING_LRU" \in env

\* Pools have pages of their own, and a -dealloc may leave such a page behind.
LeaksWhileDebugging == DebugPoolAllocation /\ env \in LeakyEnvironments

Nil == 0
Placeholder == -1
PlaceholderToken == [page |-> Nil, slot |-> 0]
Boundary == [ptr |-> NoObject, count |-> 0]

HotPage == IF tls = Placeholder THEN Nil ELSE tls

Full(p) == Len(p) = PageSize[env]
LessThanHalfFull(p) == Len(p) < PageSize[env] \div 2

----------------------------------------------------------------------------
(* AutoreleasePoolPage::add                                                *)

\* Entries the LRU strategy looks at: up to a boundary, never the first one.
LookBackAt(p) == {i \in 2..Len(p) : i > Len(p) - LookBack /\ \A j \in i..Len(p) : p[j] # Boundary}

CandidatesAt(p) ==
  IF ~DisableAutoreleaseCoalescingLRU THEN LookBackAt(p)
  ELSE IF ~DisableAutoreleaseCoalescing THEN {Len(p)} \ {0} ELSE {}

Coalescible(p, obj) ==
  IF obj = NoObject THEN {}
  ELSE {i \in CandidatesAt(p) : p[i].ptr = obj /\ p[i].count < MaxCount}

\* Mutant: the entry that is found is not moved to the top.
MutAdd(p, obj) ==
  IF Coalescible(p, obj) = {} THEN Append(p, [ptr |-> obj, count |-> 0])
  ELSE LET i == Max(Coalescible(p, obj))
       IN  [p EXCEPT ![Len(p)].count = p[i].count + 1]

\* The newest entry that fits moves to the top and counts one more.
Add(p, obj) ==
  IF Coalescible(p, obj) = {} THEN Append(p, [ptr |-> obj, count |-> 0])
  ELSE LET i == Max(Coalescible(p, obj))
       IN  Append(RemoveAt(p, i), [p[i] EXCEPT !.count = @ + 1])

----------------------------------------------------------------------------
(* autoreleaseFast, autoreleaseFullPage, autoreleaseNoPage                 *)

AddToHotPage(obj) ==
  /\ pages' = [pages EXCEPT ![tls] = Add(@, obj)]
  /\ UNCHANGED tls

\* Mutant: a new page each time, whatever children there are.
MutNextPage == Len(pages) + 1

\* The next page that is not full, a new one if need be.
NextPage == CHOOSE k \in tls + 1 .. Len(pages) + 1 :
              /\ k = Len(pages) + 1 \/ ~Full(pages[k])
              /\ \A j \in tls + 1 .. k - 1 : Full(pages[j])

AutoreleaseFullPage(obj) ==
  /\ NextPage <= MaxPages[env]
  /\ tls' = NextPage
  /\ pages' = IF NextPage > Len(pages) THEN Append(pages, Add(<<>>, obj))
              ELSE [pages EXCEPT ![NextPage] = Add(@, obj)]

\* The first page starts with a boundary for the pool the placeholder stands for.
FirstPage(obj) == Add(IF tls = Placeholder THEN Add(<<>>, NoObject) ELSE <<>>, obj)

\* An object without a pool is leaked when missing pools are debugged.
AutoreleaseNoPage(obj) ==
  IF tls # Placeholder /\ obj # NoObject /\ DebugMissingPools THEN UNCHANGED <<tls, pages>>
  ELSE IF tls # Placeholder /\ obj = NoObject /\ ~DebugPoolAllocation
  THEN tls' = Placeholder /\ UNCHANGED pages
  ELSE tls' = 1 /\ pages' = <<FirstPage(obj)>>

AutoreleaseFast(obj) ==
  IF HotPage = Nil THEN AutoreleaseNoPage(obj)
  ELSE IF Full(pages[tls]) THEN AutoreleaseFullPage(obj) ELSE AddToHotPage(obj)

AutoreleaseNewPage(obj) ==
  IF HotPage = Nil THEN AutoreleaseNoPage(obj) ELSE AutoreleaseFullPage(obj)

----------------------------------------------------------------------------
(* What clients do, between pops or in a release.                          *)

Frame == Last(frames)
ClientRuns == frames # <<>> => Frame.running
PoolsOutside == IF frames = <<>> THEN 0 ELSE Frame.pools

Autorelease(o) ==
  /\ ClientRuns
  /\ AutoreleaseFast(o)
  /\ owed' = IF pages' = pages THEN owed ELSE [owed EXCEPT ![o] = @ + 1]
  /\ UNCHANGED <<tokens, frames>>

Push ==
  /\ ClientRuns /\ Len(frames) < MaxFrames
  /\ IF DebugPoolAllocation THEN AutoreleaseNewPage(NoObject) ELSE AutoreleaseFast(NoObject)
  /\ tokens' = Append(tokens, IF tls' = Placeholder THEN PlaceholderToken
                              ELSE [page |-> tls', slot |-> Len(pages'[tls'])])
  /\ UNCHANGED <<frames, owed>>

\* popPage: drain the page down to the entries below the token.
PopPage(page, slot, exits) ==
  /\ frames' = Append(frames, [page |-> page, stop |-> slot - 1, obj |-> NoObject, left |-> 0,
                               exits |-> exits, running |-> FALSE, pools |-> 0])
  /\ UNCHANGED owed

\* A placeholder's pool starts at the cold page, if there is one by now.
Pop(i) ==
  /\ ClientRuns /\ i > PoolsOutside
  /\ tokens' = SubSeq(tokens, 1, i - 1)
  /\ IF tokens[i] = PlaceholderToken
     THEN IF HotPage = Nil THEN tls' = Nil /\ UNCHANGED <<frames, owed>>
          ELSE PopPage(1, 1, FALSE) /\ UNCHANGED tls
     ELSE PopPage(tokens[i].page, tokens[i].slot, FALSE) /\ UNCHANGED tls
  /\ UNCHANGED pages

Debugging == DebugMissingPools \/ DebugPoolAllocation

\* tls_dealloc: all pools are popped, then the pages go.
ThreadExit ==
  /\ frames = <<>> /\ tls # Nil
  /\ tokens' = <<>>
  /\ IF HotPage # Nil /\ pages[1] # <<>>
     THEN PopPage(1, 1, TRUE) /\ UNCHANGED <<tls, pages>>
     ELSE /\ tls' = Nil
          /\ pages' = IF Debugging THEN pages ELSE <<>>
          /\ UNCHANGED <<frames, owed>>

----------------------------------------------------------------------------
(* releaseUntil and popPage                                                *)

SetFrame(f) == frames' = [frames EXCEPT ![Len(frames)] = f]
Looping == frames # <<>> /\ ~Frame.running /\ Frame.left = 0
AtStop == Len(pages[Frame.page]) = Frame.stop

\* Mutant: the entry is taken from the page of the token.
MutReleaseNext ==
  /\ Looping /\ ~AtStop
  /\ LET k == Frame.page
         e == Last(pages[k])
     IN  /\ tls' = k
         /\ pages' = [pages EXCEPT ![k] = Front(@)]
         /\ SetFrame(IF e = Boundary THEN Frame ELSE [Frame EXCEPT !.obj = e.ptr, !.left = e.count + 1])
  /\ UNCHANGED <<tokens, owed>>

\* The newest entry: of the hot page, or of the first page before it with one.
ReleaseNext ==
  /\ Looping /\ ~AtStop
  /\ LET k == Max({j \in 1..tls : pages[j] # <<>>})
         e == Last(pages[k])
     IN  /\ tls' = k
         /\ pages' = [pages EXCEPT ![k] = Front(@)]
         /\ SetFrame(IF e = Boundary THEN Frame ELSE [Frame EXCEPT !.obj = e.ptr, !.left = e.count + 1])
  /\ UNCHANGED <<tokens, owed>>

\* objc_release may run the object's -dealloc, client code that uses the pools.
CallRelease ==
  /\ frames # <<>> /\ ~Frame.running /\ Frame.left > 0
  /\ SetFrame([Frame EXCEPT !.left = @ - 1, !.running = TRUE, !.pools = Len(tokens)])
  /\ owed' = [owed EXCEPT ![Frame.obj] = @ - 1]
  /\ UNCHANGED <<tls, pages, tokens>>

ReleaseReturns ==
  /\ frames # <<>> /\ Frame.running
  /\ env \in LeakyEnvironments \/ Len(tokens) = Frame.pools
  /\ tokens' = SubSeq(tokens, 1, Frame.pools)
  /\ SetFrame([Frame EXCEPT !.running = FALSE, !.obj = IF Frame.left = 0 THEN NoObject ELSE @])
  /\ UNCHANGED <<tls, pages, owed>>

\* Mutant: the hysteresis counts from the page itself.
MutKept(k) ==
  IF DebugPoolAllocation /\ pages[k] = <<>> THEN k - 1
  ELSE IF DebugMissingPools /\ pages[k] = <<>> /\ k = 1 THEN 0
  ELSE IF LessThanHalfFull(pages[k]) THEN k - 1 ELSE k

\* Pages that remain after a pop that ended on page k.
Kept(k) ==
  IF DebugPoolAllocation /\ pages[k] = <<>> THEN k - 1
  ELSE IF DebugMissingPools /\ pages[k] = <<>> /\ k = 1 THEN 0
  ELSE IF LessThanHalfFull(pages[k]) THEN k ELSE k + 1

\* The page of the token is hot again, or its parent if it was killed.
FinishPop ==
  /\ Looping /\ AtStop
  /\ LET kept == IF Frame.exits /\ ~Debugging THEN 0 ELSE Kept(Frame.page)
     IN  /\ pages' = SubSeq(pages, 1, IF kept < Len(pages) THEN kept ELSE Len(pages))
         /\ tls' = IF Frame.exits THEN Nil ELSE IF kept < Frame.page THEN kept ELSE Frame.page
  /\ frames' = Front(frames)
  /\ owed' = IF Frame.exits THEN [o \in Objects |-> 0] ELSE owed
  /\ UNCHANGED tokens

----------------------------------------------------------------------------

Init ==
  /\ env \in Environments
  /\ tls = Nil /\ pages = <<>> /\ tokens = <<>> /\ frames = <<>>
  /\ owed = [o \in Objects |-> 0]

Step ==
  \/ \E o \in Objects : Autorelease(o)
  \/ Push \/ \E i \in 1..Len(tokens) : Pop(i)
  \/ ThreadExit
  \/ ReleaseNext \/ CallRelease \/ ReleaseReturns \/ FinishPop

Next == Step /\ UNCHANGED env

Spec == Init /\ [][Next]_vars

----------------------------------------------------------------------------
(* Properties.                                                             *)

Entries == [ptr : Objects, count : 0..MaxCount] \cup {Boundary}

\* Every variable has its type; a page holds no more than fits.
TypeOK ==
  /\ env \in Environments
  /\ tls \in {Placeholder, Nil} \cup 1..Len(pages)
  /\ Len(pages) <= MaxPages[env] /\ \A k \in DOMAIN pages : Len(pages[k]) <= PageSize[env] /\ Range(pages[k]) \subseteq Entries
  /\ \A i \in DOMAIN tokens : tokens[i] = PlaceholderToken \/ tokens[i] \in [page : 1..MaxPages[env], slot : 1..PageSize[env]]
  /\ \A i \in DOMAIN frames : frames[i].left \in 0 .. MaxCount + 1
  /\ owed \in [Objects -> Nat]

\* The pools as the client sees them.
Sorted(entries) ==
  FoldLeft(LAMBDA bags, e : IF e = Boundary THEN Append(bags, [o \in Objects |-> 0])
                            ELSE [bags EXCEPT ![Len(bags)][e.ptr] = @ + e.count + 1],
           <<[o \in Objects |-> 0]>>, entries)

Levels == Sorted(FlattenSeq(pages) \o IF tls = Placeholder THEN <<Boundary>> ELSE <<>>)

Below(f) == FlattenSeq(SubSeq(pages, 1, f.page - 1)) \o SubSeq(pages[f.page], 1, f.stop)

Drains == [i \in DOMAIN frames |->
             [keep |-> IF frames[i].exits THEN 0 ELSE Len(Sorted(Below(frames[i]))),
              obj |-> IF frames[i].left = 0 THEN NoObject ELSE frames[i].obj, left |-> frames[i].left]]

\* Pages, placeholder, coalescing and hysteresis implement a stack of pools:
\* every object is released as often as it was autoreleased, by the pop of
\* its own pool or of an older one, and no pop returns early.  The one exception: an
\* exiting thread that frees a page with objects a -dealloc left there while pools
\* are debugged.
Pools == INSTANCE PoolStack WITH levels <- Levels, drains <- Drains, abandons <- LeaksWhileDebugging
ImplementsPoolStack == Pools!Spec

NoBadPop ==
  \A i \in DOMAIN tokens :
    LET t == tokens[i]
    IN  IF t = PlaceholderToken
        THEN tls = Placeholder \/ (pages # <<>> /\ pages[1] # <<>> /\ pages[1][1] = Boundary)
        ELSE t.page \in DOMAIN pages /\ t.slot \in DOMAIN pages[t.page] /\ pages[t.page][t.slot] = Boundary

FramesStayValid ==
  \A i \in DOMAIN frames :
    frames[i].page \in DOMAIN pages /\ Len(pages[frames[i].page]) >= frames[i].stop

\* The token of a pool that is not popped yet points to a boundary: a client
\* that pops in order is never told "Invalid or prematurely-freed autorelease
\* pool"; and the page a pop in progress works on is not deleted by the pops of
\* the objects it releases, nor emptied below its token.
TokensStayValid == NoBadPop /\ FramesStayValid

ChildrenAreEmpty ==
  Looping /\ AtStop => \/ \A k \in Frame.page + 1 .. Len(pages) : pages[k] = <<>>
                       \/ Frame.exits /\ LeaksWhileDebugging

\* The walk from an empty hot page to its parents finds an entry before it leaves the
\* pages of the pop.  "I think this `while` can be `if`, but I can't prove it": one turn
\* is enough, except where pools have pages of their own and a -dealloc leaves one.
WalkBackEnds ==
  Looping /\ ~AtStop =>
    \E k \in Frame.page .. tls : pages[k] # <<>> /\ (k < tls - 1 => LeaksWhileDebugging)

NoPageIsLost == frames = <<>> /\ HotPage = Nil => pages = <<>>

\* "we expect any children to be completely empty" when a pop has drained its page,
\* which fails only for an exiting thread where a -dealloc left a pool while pools are
\* debugged; between pops all pages can be reached from the hot one, and a thread that
\* has exited has none.
PagesAreDrained == ChildrenAreEmpty /\ NoPageIsLost
=============================================================================
