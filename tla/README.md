# A verification project for the Objective-C runtime (objc4-824)

The repository is a buildable copy of Apple's Objective-C runtime,
`src/objc4-824`, together with lecture copies of the same sources (`src/代码`)
and other Apple libraries for reading (`src/资料`). The program is the runtime
in `src/objc4-824/runtime`, compiled for the modern ABI (`__OBJC2__`,
`SUPPORT_NONPOINTER_ISA`). This directory holds TLA+ models of its parts, the
TLC configurations that check them and TLAPS proofs. File names without a
directory below are those of `src/objc4-824/runtime`.

## 1. The system

| part | state it keeps | operations | where it is hard |
|---|---|---|---|
| retain counting (`objc-object.h`, `NSObject.mm`) | the packed isa word of an object, the object's word in a side table, the side table's lock | retain, release, tryRetain, retainCount, changeIsa, dealloc | lock-free compare-and-swap loops on isa that fall back to a locked table when the inline count overflows or underflows; the count is briefly in neither word |
| weak references (`NSObject.mm`, `objc-weak.mm`) | weak variables, the weak table of each stripe | storeWeak, loadWeakRetained, copyWeak, moveWeak, destroyWeak, clear at dealloc | two striped locks taken in address order, re-checks after locking, a load that races the last release |
| autorelease pools (`NSObject.mm`) | a doubly linked list of pages per thread, the hot page, the empty-pool placeholder | push, pop, autorelease, releaseUntil, kill, TLS destructor | releases run arbitrary code that autoreleases again while the pool is being popped; repeated objects share an entry |
| `@synchronized` (`objc-sync.mm`) | SyncData list per stripe, per-thread caches, thread counts | enter, exit, try enter | records are reused when their thread count falls to zero; thread-local caches hold on to records without the lock |
| method caches (`objc-cache.mm`) | bucket array, mask, occupied count of each class; garbage | insert, fill, grow, flush, collect | readers take no lock; buckets are retired while a reader may be inside |
| method lookup (`objc-runtime-new.mm`) | method lists of the class hierarchy, categories | lookUpImpOrForward, resolveMethod, method_exchange, addMethod, attachCategories | lookups fill caches while methods are replaced and caches flushed |
| `+initialize` (`objc-initialize.mm`) | a state per class, the per-thread list of initializing classes, pending-completion map | initializeNonMetaClass, wait, finish, fork handling | threads wait for each other; superclasses first; a thread re-enters its own class |
| `+load` (`objc-loadmethod.mm`) | lists of loadable classes and categories | add, remove, call | `+load` may load further images while the lists are being called |
| associated objects (`objc-references.mm`) | table of object to key to value | set, get, remove | values retained and released outside the lock |
| property accessors (`objc-accessors.mm`) | ivar slots, striped locks | get, set, copy struct | atomic getters retain under the lock, setters release outside it |
| images and class realization (`objc-runtime-new.mm`, `objc-os.mm`) | image list, class table, realized flags | map, read, realize, unmap | classes are realized lazily under a global lock |
| selectors, hash tables, zones (`objc-sel.mm`, `hashtable2.mm`, `maptable.mm`, `objc-zalloc.mm`) | open-addressing and chained tables | intern, insert, remove, rehash | rehash boundaries |
| layouts, type encodings (`objc-layout.mm`, `objc-typeencoding.mm`) | none | pure functions | bit and nibble boundaries |

How they interact: a message to a class goes through method lookup, which runs
`+initialize` before it fills a cache. Retain counting and weak references
share the striped side tables: a weak load try-retains under the stripe's lock
and a dealloc clears the weak table under it. Pops of autorelease pools release
objects, whose `-dealloc` methods call back into every part. Atomic accessors
and associated objects retain and release with their own striped or global
locks. `_objc_atfork_prepare` takes every lock there is, in one order.

What makes each part correct:

* retain counting: the count spread over two words is the number of owners;
  `-dealloc` runs once, when there are none; no weak variable, side table entry
  or call outlives the memory;
* `@synchronized`: one recursive lock per object, whatever record stands for
  it; an exit by a holder always succeeds;
* pools: each object is released as often as it was autoreleased, by the pop of
  its own pool or an older one, and no pop loses its page to a nested one;
* `+initialize`: once per class, superclass first, everybody else waits, and
  nobody waits forever;
* weak references: a load gives nil or a live object; every variable is zeroed;
* method caches: a reader finds the current implementation or misses, and never
  reads buckets that were freed;
* method lookup: whatever a class has cached is what its method lists answer;
  later categories win; a class's own resolver is asked before a message is
  forwarded;
* `+load`: each once, superclasses and classes before categories;
* associations and accessors: each value is retained and released in balance.

## 2. The plan

| # | module | what it is | state |
|---|---|---|---|
| 1 | `RefCount`, `ObjectLifetime`, `MCRefCount`, `RefCountProofs` | retain counting, its abstract specification, model checking, proofs | done |
| 2 | `Sync`, `Monitors`, `MCSync`, `SyncProofs` | `@synchronized`, recursive locks it implements, proofs | done |
| 3 | `AutoreleasePool`, `PoolStack`, `MCPool`, `PoolProofs` | pool pages, the stack of pools they implement, proofs | done; the refinement stays with TLC |
| 4 | `Initialize`, `MCInitialize`, `InitializeProofs` | `+initialize`, forks and exceptions included; proofs | done |
| 5 | `WeakRefs`, `MCWeakRefs`, `WeakProofs` | store, init, load, copy, move and destroy over striped locks, dealloc; uses `ObjectLifetime`; proofs | done |
| 6 | `MethodCache`, `MCMethodCache`, `CacheProofs` | readers without a lock against insert, growth, flush and collection; proofs | done |
| 7 | `LoadMethods`, `MCLoadMethods` | `+load` lists with re-entrant mapping and unmapping | model-checked |
| 8 | `Values`, `Associations`, `Accessors`, `Storage`, `Registers`, `MCStorage`, `StorageProofs` | associated objects and properties of one object, the registers they implement, proofs | done |
| 9 | `MethodLookup`, `MCMethodLookup`, `LookupProofs` | lookup, resolution, categories and cache fill against every change of methods; proofs | done |
| 10 | the tables of `objc-weak.mm` | open addressing, growth and compaction against a set of pairs | open |
| 11 | realization, lock order at fork, hash tables, layouts | | open |

The most used and least testable code comes first: the compare-and-swap loops
of retain counting, then the places where a lock is dropped and something read
before is used after.

## 3. The models and the code

A step of a model is one atomic access to shared memory or one critical
section, unless said otherwise. `PROJECT.json` maps every definition to its
lines.

### RefCount

One object. `isa` and `side` are its two words with the fields the runtime
tells apart; `lock` is its side table's spinlock; the other variables are the
locals of the loops in `rootRetain`, `rootRelease`, `changeIsa` and
`setWeaklyReferenced_nolock`. `LoadExclusive` and `StoreExclusive` are a read
and a compare-and-swap of `isa`; with `SpuriousFailure` a store may fail for no
reason, as it does on arm64. `extra_rc` has `2 * RC_HALF` values and overflows
at its width; the side count has `SideLimit` values and pins at half of that,
as `SIDE_TABLE_RC_PINNED` does. Ghosts (`refs`, `selfRefs`, `deallocators`) say
what the clients own. Clients follow the ownership rules; `-dealloc` may retain
and release `self`. Freed memory is allocated again at the same address.

`ObjectLifetime` is the promise: a count, a phase (live, dealloc, free) and a
zeroing weak variable, all atomic. The refinement mapping takes the phase from
`freed` and `deallocators` and the count from the owners.

Left out: classes with their own `retain`/`release`, tagged pointers,
`rootReleaseShouldDealloc`, the Swift entry points, and what `object_dispose`
does between `rootDealloc` and `clearDeallocating` (C++ destructors,
associations).

### Sync

One stripe of `sDataLists`; stripes share nothing. `list`, `object`,
`threadCount` and the mutexes are the records; `lockCount`, `fast` and
`allocated` are a thread's two caches (one entry in thread-local storage, one
array). `id2data` is split into the look into the caches, the walk under the
stripe's lock, and what follows. An exit uncounts the record before it unlocks
the mutex, as the code does, so a record can be given to another object while
its mutex is still held. `NewRecord` may be taken although a record became
unused behind the walk; the code walks under the lock while counts fall
without it, so it may miss one too.

Clients nest blocks in the order of the objects' addresses; a client that does
not can deadlock, with these locks as with any others. `Monitors` is the
promise: per object, a recursive lock.

Left out: thread exit, which frees the caches; `objc_sync_enter(nil)`; the
`CHECK` mode of `id2data`, which nobody uses.

### AutoreleasePool

One thread; pages never move between threads. `pages[k]` are the entries of the
k-th page from the cold one, `tls` the hot page, nil or the placeholder,
`frames` the calls of `releaseUntil` in progress. Client code runs when no pop
is in progress and inside of every release; it autoreleases, pushes, and pops
what it pushed itself. A step is a whole push or autorelease, one turn of the
loop in `releaseUntil`, one release, or the end of `popPage`. `env` is the set
of environment variables the process was started with: coalescing on or off,
and the two debugging modes. How many entries fit into a page, and how many
pages are explored, may differ from one environment to another.

`PoolStack` is the promise: a stack of bags of objects; a pop drains the bags
it covers, newest first, whatever is pushed and popped meanwhile; an object's
releases equal its autoreleases. `ImplementsPoolStack` says that the pages keep
it. The refinement mapping flattens the pages and
cuts them at the boundaries.

Left out: tokens popped twice or out of order (`badPop`), high-water marks, the
page-count fault, page checks and protection. A `-dealloc` may leave pools
pushed (`LeakyEnvironments`). With `OBJC_DEBUG_POOL_ALLOCATION` such a pool stays
on a page of its own (`LeaksWhileDebugging`), the one case where the drain of an
exiting thread may end with objects left, which `PoolStack` allows as `Abandon`
(section 6).

### Initialize

`initializing` and `initialized` are the flags, `metaclasses[t]` the list of
thread t, `pending` the map of subclasses that wait (each waits for its own
superclass, so the classes determine the map), `stack[t]` the calls of
`initializeNonMetaClass` in progress. `classInitLock` is held for whole steps;
reads of the flags outside of it are steps of their own. A `+initialize` sends
messages to the classes in `Uses`, returns or throws; an exception unwinds the
calls that wait for a superclass and stops at client code. `Fork` follows the
child: one thread survives, the flags stay, the other threads' lists are gone,
and `MultithreadedForkChild` is on. Will-initialize functions are told of a
class by the call that initializes it or by the call that adds the function;
objc-internal.h:1023 asks them not to send messages, and here they do not.

Left out: the growth of the list's array, the scan for overridden methods in
`setInitialized`, `OBJC_DISABLE_INITIALIZE_FORK_SAFETY`.

### WeakRefs

Several objects, several weak variables, any number of threads. `lock` has one
spinlock per stripe; `Stripe` says which objects share one. `op[t]` is the call
a thread is in: it reads a variable without a lock (`ReadOld`, `ReadWeak`),
takes the one or two stripes in address order (`lockTwo`), and then either
finds that the variable has changed and starts over (`Retry`), lets the locks
go to run `+initialize` first, or does its critical section. An object follows
`ObjectLifetime`, which `RefCount` implements: its last release begins a
dealloc, which clears its variables under the stripe's lock and frees the
memory. `-dealloc` may store and load weak variables, of the object itself too.
Where a comment says "IS NOT thread-safe with respect to concurrent
modifications" (init, destroy, copy to its destination, move) the clients keep
to it (`ExclusiveUse`). The weak table is the set of pairs it stores: its hashing and
growth are not modelled.

### MethodCache

One class. `content` are the blocks of buckets on the heap, `buckets`, `mask`
and `occupied` the words of `cache_t`, `garbage` the blocks that wait to be
freed, `w` the thread that holds `runtimeLock`, with a program counter for each
store it makes, and `reader[r]` a thread between the first load of
`CacheLookup` and the call. Three builds: x86_64 (two words, an end marker,
3/4 full), arm64 (mask and buckets in one word, probing downwards, completely
full when small) with restartable ranges, and arm64 without them, where
`_collecting_in_critical` samples the threads one by one. `Synchronize` is
`task_restartable_ranges_synchronize`: every reader in a range goes to its miss
path. A signal may send a reader there as well (`Signal`), and the lock holder's
own lookup in `shouldFlush`: the cache then keeps a replaced implementation, and
the ghost `stale` remembers which. What becomes of a miss is the subject of
`MethodLookup`; here `insert` can be called with the current implementation at
any time the lock is free. `EmptyBuckets` names the shared empty block of each
capacity above `EMPTY_SIZE`; capacities may share the block of a larger one, as
`emptyBucketsForCapacity` makes them do.

### MethodLookup

Several classes. `methods[c]` are the method lists of a realized class in the
order they are searched, `unattached[c]` the categories that wait for its
realization, `cache[c]` what it has cached: an implementation, `forward_imp`, or
nothing. Everything under one hold of `runtimeLock` is one step. A thread's
`call` goes from a cache miss through realization and `+initialize` (one step,
with the lock dropped before and after) to the search, which consults the caches
of superclasses; if nothing is found the resolver is asked with the lock
dropped, the result is looked up again and cached, good or bad, and the message
is looked up once more. A resolver adds the method or does not. `then` says
which of these lookups is in progress: for a metaclass `resolveClassMethod` is
asked and then, if nothing was added, `resolveInstanceMethod`; `Resolvers` and
the ghost `asked` tell the two questions apart. Meanwhile categories are
loaded and clients add, replace and exchange methods, those hidden by categories
too, and change superclasses, with which the superclasses of the metaclasses
change. A program has the metaclasses of all its classes or, where only instance
methods matter, none. Each change flushes the part of the hierarchy,
or the caches, that the code flushes. A cache that grows forgets its entries. An
image with several categories is loaded as several images.

Left out: constant caches of the shared cache, the order inside a list, message
logging, `lookupMethodInClassAndLoadCache`, and the fatal error of
`resolveClassMethod` (objc-runtime-new.mm:6196) for a metaclass whose class was
never realized: the callers of `class_getInstanceMethod` have the class from a
lookup that realized it.

### LoadMethods

The steps of the thread that holds `loadMethodLock`. `loadable_classes` and
`loadable_categories` are the static lists, `detached` is what is left of the
list that `call_class_loads` or `call_category_loads` has taken, `running` the
entry whose `+load` is being called. Images are mapped, and bundles unmapped,
when nothing runs or from within a `+load`. dyld maps an image after the images
it needs. Unmapping searches the static lists only: an entry of the image in
`detached`, or the one that runs, becomes `Dangling`, and once the process calls
it or returns to it, it is in code that is gone and takes no further step.

### Values, Associations, Accessors, Storage

One object and the values kept in it. `Values` has what both parts need: retain
counts (single steps, which `RefCount` justifies), the references that client
code owns, the life of the object and of its values. `Associations` is
`objc-references.mm`: the table changes under `AssociationsManagerLock`, while
the retain before it, the release after it and the flag `has_assoc` are outside.
A copy answers the value itself, a new one or nil; the code erases only when the
value it was passed is nil, so a copy that answers nil is kept, as an association
with nil (objc-references.mm:181).
`Accessors` is `objc-accessors.mm`: atomic and nonatomic properties, and
`objc_copyStruct`, which locks the stripes of its source and of its destination.
`Storage` composes the two: both share the object, whose dealloc releases the
properties and removes the associations, and the values.

`Registers` is the promise: every get, set and remove takes effect at one
moment, and a new object at the same address finds nothing of the old one.

## 4. The runs

| run | checks | bounds and why they are enough |
|---|---|---|
| `refcount` | all safety properties and the refinement of `ObjectLifetime` | 3 threads, `RC_HALF` = 2, 6 references: one thread can be in a borrow, one in an overflow and one in a weak load or dealloc; the count crosses the inline range in both directions |
| `refcount_change` | `object_setClass` to raw and other classes against retains and releases; the inductive invariant; a dealloc that has begun ends | 2 threads, one of them changes the class; no spurious failures, so that loops end |
| `refcount_try_unlock` | violated, see findings | 2 threads |
| `sync` | the counts and the slots of the caches (`BooksAreExact`); some waiter gets the mutex | 2 threads, 3 objects, 3 records, depth 2: records are reused while their mutex is held; one entry in thread-local storage and one in the array, so the third object makes the array grow |
| `sync_misuse` | exits, fatal checks, the inductive invariant and the refinement, with failed tries and exits by strangers | 2 threads, 2 objects, 2 records |
| `pool` | tokens, pages, nested pops and the refinement of `PoolStack`, with coalescing off, on, and in both debugging modes | 2 objects, 2 nested pops. Without coalescing 3 pages of 2 entries: the hysteresis (half full, child, grandchild) needs three. With coalescing one page of 5, counts to 1, look-back 2: an entry is inside the look-back, beyond it, or across a boundary. Pools with pages of their own once with `-dealloc` methods that pop what they push, once with ones that need not: with 3 pages two empty ones in a row occur |
| `initialize` | all of `Initialize`, with forks and exceptions | 2 threads, 4 classes: a root, a class that uses its subclass and a sibling, these two |
| `weak` | the tables and the variables agree, every object lives as `ObjectLifetime` says, no cycle of waiting | 2 threads, 2 objects on two stripes, nil on one of them, 2 variables; one class is not initialized, one has methods of its own |
| `cache` | readers stay in live buckets, hits are current, the cache keeps its shape, lookups end | 1 reader, 3 selectors of which two collide in the small cache and one is replaced, 2 blocks: enough to grow once with the old block in the garbage, or to flush, free and reuse |
| `lookup` | caches agree with the method lists, later categories win, resolvers come first | 2 threads and five programs: three categories of one class with a buffer for two; three classes in a chain that resolve the same selector; two metaclasses above the root class, one with both resolvers; three classes with their metaclasses and an inherited class method, to change superclasses; two selectors to exchange, one overridden. Up to two calls that change methods, besides those of resolvers and categories |
| `load` | order, nothing forgotten, everything called | 6 images: subclass before superclass in link order, categories of a class in another bundle, a category of a class of the same pass; 9 mappings, so that bundles come back |
| `storage` | counts, torn accesses, the refinement of `Registers` | 2 threads, 2 values, an association that is copied or assigned, one that survives removal, a property, three structs of which two share a lock |

Threads and records that are interchangeable are declared symmetric in the runs
that check no liveness.

Fairness. `RefCount`: threads run, a thread that waits for the spinlock is not
passed over for ever, and the client's `-dealloc` calls `[super dealloc]`.
`Sync`: threads run and leave the blocks they are in; nothing is assumed of who
gets a mutex. `Initialize`: threads run and `+initialize` methods return after
finitely many messages; whether a waiter is woken is not assumed but follows
from `notifyAll`. `MethodCache`: the reader runs; nothing is assumed of the
thread that holds `runtimeLock`. `LoadMethods`: the thread runs and `+load`
methods return after finitely many mappings. Client code that calls for ever is excluded, as the runtime
cannot do anything about it. Deadlock is not checked where clients may simply
stop (`RefCount`, `WeakRefs`, `LoadMethods`) or the process may halt
(`Initialize`, where `SendReturns` says more; `WeakRefs`, where
`NobodyWaitsForever` does).

`Initialize` assumes that the relation `Uses` has no cycle between unrelated
classes: two `+initialize` methods that use each other's classes do deadlock.
Uses of one's own sub- and superclasses, the case objc-initialize.mm:61 to 93
is about, are in the run. (This is an assumption of the liveness property only;
the safety properties hold, and are proved, without it.) Where the process may
fork, the `+initialize` of a root class and one that is inherited from a root
class are empty, as objc-initialize.mm:437 assumes.

## 5. What is proved

TLAPS checks eight modules of proofs. Each covers every value of the constants
that satisfies the assumptions of the module it is about: any number of threads,
objects, classes, selectors, pages and so on, of which the runs check a few.
`PROJECT.json` lists the theorems and the property of a run that each states.
Every safety theorem follows from an inductive invariant, preserved by each
action (one lemma per action, named after it), and `PTL`. The invariants were
model-checked on the instances of the runs before they were proved.

| proofs | assumed | results |
|---|---|---|
| `RefCountProofs` | `RefCountAssumption`; at most one thread changes the object's class (`OneChanger`) | `Invariance`, `TypeCorrect`, `CountCovers`, `DeallocOnce`, `FreedSafely`, `FreedForgotten`, `BorrowSucceeds` |
| | `RefCountAssumption`; nobody changes it (`Changers = {}`) | `CountIsExact`, `Refinement` |
| `SyncProofs` | `SyncAssumption`; for `BooksStayExact` also no tries and no stray exits | `SyncInvariance`, `ExitsSucceed`, `RecordsAreUnique`, `FatalUnreachable`, `BooksStayExact`, `SyncRefinement` |
| `PoolProofs` | `PoolAssumption` | `PoolInvariance`, `TokensNeverDangle`, `PagesGetDrained`, `TheWalkEnds` |
| `InitializeProofs` | `InitializeAssumption` | `InitializeInvariance`, `InitializeTypeCorrect`, `InitializedOnce`, `SubtreeIsContiguous`, `ClaimsStayKept`, `MessagesAreHeld` |
| `WeakProofs` | `ConstantsOK` | `WeakInvariance`, `WeakRegistered`, `NobodyWaits`, `EachLives` |
| `CacheProofs` | `MethodCacheAssumption` | `CacheInvariance`, `LookupsStayInside`, `HitsAreCurrent`, `CacheStaysWellFormed` |
| `LookupProofs` | `MethodLookupAssumption`, `ProgramsAssumption` | `LookupInvariance`, `CachesStayRight`, `CategoriesStayOrdered`, `ResolverIsAsked` |
| `StorageProofs` | `ValuesAssumption`, `AssociationsAssumption`, `AccessorsAssumption`, `StorageAssumption` | `StorageInvariance`, `AccessesAreWhole`, `OwnersAreCounted`, `StorageRefinement` |

What the assumptions say of the code: sets of threads, objects, keys and
properties are finite; nil is not one of them; sizes and bounds are numbers, not
zero where the code divides or allocates by them. Beyond that,
`RefCountAssumption` keeps the references below the side table's pinned count;
`ProgramsAssumption` says that going
from class to superclass comes to an end, in the image as the compiler made it
(`class_setSuperclass` is a step of the model, by clients that make no cycle),
and that a program with some metaclasses has them all;
`InitializeAssumption` says the same of its classes and, where the process may
fork, what section 4 says of empty `+initialize` methods. `OneChanger` is needed:
with two class changes at once `changeIsa` makes a raw `isa` nonpointer again, and
the count falls below the references (section 6).

The arguments, and why the property alone is not inductive:

* `RefCountProofs`: an overflowing retain stores `isa` before it adds to the side
  table, a borrow takes from the side table before it stores `isa`. `CountInv`
  counts the half that is in flight, `LockInv` says who may have it in flight,
  `LoopInv` what a thread's copy of `isa` still has in common with the word, and
  `PhaseInv`, `DeallocInv` and `WeakInv` tie the ghosts to the bits.
  `Refinement` shows that every step is a step or a stutter of `ObjectLifetime`.
  `ChangeInv` is about `changeIsa`: what `newisa` has kept from earlier turns is a
  class and nothing else whenever the store is going to use it; between the store
  of a raw `isa` and the move of the count (`Moving`) the references are in the
  thread's copy of the old `isa` and in the side table, and the lock keeps
  everybody else from both. The move pins the count when the inline part was
  zero (`Leaked`, section 6); from then on the count only covers the references,
  which is why `CountIsExact` and `Refinement` need `Changers = {}`.
* `SyncProofs`, failed tries and stray exits included: `MutexInv` says that the
  depth of a record's mutex is the number of blocks its owner is in plus one for
  an exit that has not unlocked it yet, though the record may belong to another
  object by then. `CountInv` says that whoever has cached a record is counted, so
  the record keeps its object. `BooksStayExact` adds `BookInv`, which makes the
  counts equalities and bounds the entries of a cache by its slots.
* `PoolProofs`: `PoolInv` gives the tokens and the pops in progress one order.
  A token points to a boundary; a pop in progress ends at one that it has not
  taken yet, has the tokens it leaves alone below it (`Under`), and those its
  releases pushed, and the pops of these, above (`Over`). So nested pops work
  above the outer one's boundary and cannot delete its page. `EmptyInv` is what
  the fixme at NSObject.mm:920 lacks: a page below the hot one is empty only
  where every pool has a page of its own, and then the next page belongs to a
  pool that a running release pushed, or to the pop of that pool (`MadeBy`); when
  a pop looks for its next entry, no such release runs above it. That is lost
  where a `-dealloc` leaves a pool with a page of its own; `EmptyInv` is not
  claimed there, and `TheWalkEnds` says no more than that the walk stops at a page
  of the pop. The rest of the invariant holds there too, except that the hot
  page of an exiting thread need not be the first when it has drained that one.
* `InitializeProofs`: `Calls` says what each call on a thread's stack knows of the
  flags when it goes on, and that every class on the thread's list is pending or
  belongs to one of the calls; `ClaimInv` that a claim comes after the one of the
  superclass, `FlagInv` and `PendingInv` what the flags and the waiting classes
  have to do with each other. Before a fork the books are exact (`ParentInv`: no
  two threads claim a class, each function is told or owed to be told once). In
  the child they are not: `ChildInv` has one thread that survives with the list it
  had, and fresh ones, and says when the survivor is bound to halt. Superclasses
  are the least set closed under `Superclass`, so that nothing needs induction.
* `WeakProofs`: variables and tables agree (`TableInv`) because a call's stripes
  are locked from the check of the variable to the change (`LockInv`), clients
  use a variable alone where they have to (`ExclusiveInv`), and a dealloc clears
  the table once (`DisposeInv`, `ClearInv`). `NobodyWaits` takes a set of threads
  that wait for each other and looks at the one that waits for the greatest
  stripe: its holder cannot wait for a stripe, nor hold one in `+initialize`.
  Two threads in the `+initialize` methods of classes that need each other do
  wait for ever; no lock order helps against that, and the property excludes it.
* `CacheProofs`: `CurrentInv` describes the two stores of `setBucketsAndMask`
  halfway, `GarbageInv` where a dropped block is, `Good` what a reader may hold:
  a block that is current, about to be dropped or in the garbage, with a mask no
  greater than the block. `SampleInv` is the point of the collector without
  restartable ranges: a thread whose program counter was sampled outside of a
  lookup cannot reach the garbage again, since the garbage is no longer in
  `buckets`. `EntryInv` says that what the buckets hold is valid: current, being
  replaced, or in `stale`, which is emptied when the buckets word is stored. The
  allocator may return any free block, and capacities may share their empty
  blocks in any way.
* `LookupProofs`: `RealizeInv` says that whatever has something in its cache is
  realized together with its superclasses and metaclass, so that the flushes,
  which visit realized classes, reach it; `AskInv` that a call which may not ask
  the resolver, or asks the second one of a metaclass, has asked the first. The superclasses of a class, the search and the attachment of
  categories have closed forms in the model, so that nothing needs induction.
* `StorageProofs`: the owners of a value are counted by kind (`CountInv`);
  `ReadInv` says that what a call has read is still there while it is in the
  lock, `EmptyInv` that `has_assoc` may lag behind the table only while a thread
  is about to set it. `StorageRefinement` maps every critical section to one step
  of `Registers`.

Only model-checked:

* liveness (`SendReturns`, `EnterProgress`, `LookupEnds`, `EachIsCalled`,
  `DeallocFinishes`): out of the prover's reach;
* `ImplementsPoolStack` and `LoadOrder`: the mapping folds over the pages, and the
  order of `+load` comes from recursion over the superclasses, so both need
  induction over data.

## 6. Findings

* `refcount_try_unlock`: a weak load that overflowed, lost its store and finds
  the object deallocating unlocks a lock its caller holds and will unlock.

Met while modelling, without a run of their own:

* `sidetable_moveExtraRC_nolock` adds `extra_rc - 1` (NSObject.mm:1529). With
  `extra_rc` 0 and a count in the side table the subtraction wraps and the count
  becomes pinned: `object_setClass` to a class with raw isas makes the object
  leak. `RetainCountExact` fails in `refcount_change`, which therefore checks
  `RetainCountCovers`;
* for a class method, `resolveClassMethod` caches "not implemented" before
  `resolveInstanceMethod` is asked (objc-runtime-new.mm:6290): a message sent by
  another thread in between is forwarded, although the second resolver would
  have added the method. `ResolverComesFirst` therefore asks for the first of the
  two resolvers;
* a failed `objc_sync_try_enter` leaves a cache entry that counts a lock that
  was never taken (objc-sync.mm:310), although objc-sync.mm:42 calls it the
  "number of times THIS THREAD locked this block"; `sync_misuse` shows that no
  lock is broken by it. `id2data` also increments `threadCount` for an exit by a
  thread that holds nothing and does not take it back (objc-sync.mm:211);
* with `OBJC_DEBUG_POOL_ALLOCATION`, a `-dealloc` that leaves a pool pushed while
  its own entry is the first of the cold page makes the drain of an exiting
  thread end at NSObject.mm:915 with entries in the child, where NSObject.mm:955
  says "we expect any children to be completely empty": the assertion at
  NSObject.mm:957 fails, and a build without assertions frees the page and leaks
  the objects. `PagesAreDrained` and `ImplementsPoolStack` except that case. It is
  also where the `while` of NSObject.mm:921 cannot be an `if`: with page 1 holding
  [boundary, o1] and page 2 [o2], a pool that o2 leaves on page 3 makes pages 3
  and 2 empty while o1 is left. `WalkBackEnds` says that one turn is enough
  everywhere else;
* `OBJC_DISABLE_AUTORELEASE_COALESCING` alone leaves the look-back strategy on
  (NSObject.mm:861);
* two concurrent class changes can store a nonpointer `isa` from an earlier turn
  of the loop in `changeIsa` (objc-object.h:445): with two changers
  `RetainCountCovers` fails, and so does "a raw `isa` stays raw".
  `refcount_change` and the proofs have one (`OneChanger`);
* a fork child that finishes a class without `+initialize` whose subclasses a
  lost thread had left pending would halt in
  `_setThisThreadIsNotInitializingClass` (objc-initialize.mm:320).
  `ClaimsAreKept` needs the assumption that such a class, whose `+initialize` is
  its root class's, runs nothing and so makes no subclass wait;
* `shouldFlush` (objc-runtime-new.h:478) asks `cache_getImp`, a restartable
  range, whether a class has the replaced implementation in its cache. A signal
  in the middle of it resets the thread to the miss path
  (Messengers.subproj/objc-msg-x86_64.s:376), the answer is no, and the cache
  keeps the old implementation after `method_setImplementation` has returned.
  The model does the same; `HitIsCurrent` bounds the damage: such an
  implementation can be called until the cache gets other buckets, by growing or
  by another flush, and nothing else outdated ever is. Without the exception the
  run finds it violated. `MethodLookup` takes the answer of `shouldFlush` as
  exact, so `CachesAgree` is about executions in which no signal does this;
* without restartable ranges a reader that a signal handler has interrupted has
  its program counter in the handler, where `_collecting_in_critical` does not
  see that it is in the middle of a lookup;
* a `+load` that unmaps a bundle whose own `+load` comes later in the list being
  called leaves its entry there, since `remove_class_from_loadable_list` searches
  the static list only (objc-loadmethod.mm:138); the method is then called in
  memory that is gone, although lines 127-130 call the class "no longer loadable
  (because its image is being unmapped)". The model does the same, and
  `LoadOrder` and `EachIsCalled` are stated up to that call;
* `prepare_load_methods` schedules superclasses, but not the class of a
  category: the order of `+load` between a category and its class in another
  image rests on dyld's order, which a cycle of images has not;
* `objc_removeAssociatedObjects` tests `has_assoc` without the lock
  (objc-references.mm:215 sets it after the table is unlocked), so it may do
  nothing while another thread sets the first association. `Registers!Clear`
  allows that;
* an association set on an object by its own `-dealloc`, after
  `objc_destructInstance` has read the flags, is never removed; the clients of
  the model do not do that.

## 7. Not modelled

Weak references: the open-addressing tables of `objc-weak.mm` (a set of pairs in
`WeakRefs`). Method caches and lookup: caches preoptimized in the shared
cache. Images and realization (beyond what `MethodLookup` needs), selectors and hash tables, layouts and type
encodings are open (section 2). Lock debugging, exceptions, trampolines and
messengers, error reporting and the classic ABI are left out for good; the
reasons are in `PROJECT.json`.
