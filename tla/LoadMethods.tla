---------------------------- MODULE LoadMethods -----------------------------
(***************************************************************************)
(* +load (objc-loadmethod.mm, prepare_load_methods, _unload_image): lists  *)
(* of classes and categories wait for their +load; the outermost           *)
(* call_load_methods detaches one list after the other and calls its       *)
(* entries, and any +load may map and unmap further images.  A recursive   *)
(* lock, loadMethodLock, keeps other threads out until the outermost call  *)
(* is done, so the steps are those of the thread that holds it.            *)
(***************************************************************************)
EXTENDS Integers, Sequences, SequencesExt

CONSTANTS
  Images,
  ClassList,       \* the non-lazy classes of each image, in link order
  CategoryList,    \* and its non-lazy categories
  super,           \* the superclass of each class, or nil
  class_of,        \* the class of each category
  HasLoad,         \* classes with a +load method
  Needs,           \* the images that dyld initializes before each image
  Bundles,         \* images that can be unmapped
  nil,
  Dangling,        \* stands for the pointers of an entry whose image is gone
  MaxMaps          \* bound on the images mapped

Classes == DOMAIN super
Categories == DOMAIN class_of
Entries == Classes \cup Categories

VARIABLES
  mapped,               \* images that are mapped and went through load_images
  RW_LOADED,            \* classes that were scheduled
  loadable_classes, loadable_categories,
  loading,              \* which loop of call_load_methods runs
  detached,             \* what is left of the list that call_..._loads took
  running,              \* the entry whose +load runs, or nil
  finished,             \* entries of mapped images whose +load has returned
  again,                \* an entry was called twice
  maps                  \* images mapped so far

vars == <<mapped, RW_LOADED, loadable_classes, loadable_categories, loading, detached, running,
          finished, again, maps>>
lists == <<loadable_classes, loadable_categories>>

ASSUME LoadAssumption ==
  /\ ClassList \in [Images -> Seq(Classes)] /\ CategoryList \in [Images -> Seq(Categories)]
  /\ super \in [Classes -> Classes \cup {nil}] /\ class_of \in [Categories -> Classes]
  /\ HasLoad \subseteq Classes /\ Needs \in [Images -> SUBSET Images] /\ Bundles \subseteq Images
  /\ MaxMaps \in Nat /\ nil # Dangling /\ {nil, Dangling} \cap Entries = {}

Loads(i) == (Range(ClassList[i]) \cap HasLoad) \cup Range(CategoryList[i])

Init ==
  /\ mapped = {} /\ RW_LOADED = {} /\ loadable_classes = <<>> /\ loadable_categories = <<>>
  /\ loading = "no" /\ detached = <<>> /\ running = nil /\ finished = {} /\ again = FALSE /\ maps = 0

(***************************************************************************)
(* load_images and unmap_image, called by dyld when no +load runs or from  *)
(* a +load.                                                                *)
(***************************************************************************)
\* The class and its superclasses that were not scheduled yet, superclasses first.
schedule_class_load[c \in Classes \cup {nil}, loaded \in SUBSET Classes] ==
  IF c = nil \/ c \in loaded THEN <<>>
  ELSE Append(schedule_class_load[super[c], loaded], c)

prepare_load_methods(i) ==
  LET add(scheduled, c) == scheduled \o schedule_class_load[c, RW_LOADED \cup Range(scheduled)]
      scheduled == FoldLeft(add, <<>>, ClassList[i])
  IN /\ RW_LOADED' = RW_LOADED \cup Range(scheduled)
     /\ loadable_classes' = loadable_classes \o SelectSeq(scheduled, LAMBDA c : c \in HasLoad)
     /\ loadable_categories' = loadable_categories \o CategoryList[i]

AtRest == loading = "no" \/ running \in Entries

\* Re-entrant calls of call_load_methods do nothing.
load_images(i) ==
  /\ AtRest /\ maps < MaxMaps
  /\ i \notin mapped /\ Needs[i] \subseteq mapped
  /\ mapped' = mapped \cup {i} /\ maps' = maps + 1
  /\ IF Loads(i) = {} THEN UNCHANGED <<RW_LOADED, lists, loading>>
     ELSE /\ prepare_load_methods(i)
          /\ loading' = IF loading = "no" THEN "classes" ELSE loading
  /\ UNCHANGED <<detached, running, finished, again>>

remove_from_loadable_list(list, gone) == SelectSeq(list, LAMBDA e : e \notin gone)

\* Only the static lists are searched: what call_class_loads or call_category_loads has
\* detached, and what runs, is left with pointers into the image that is gone.
unmap_image(i) ==
  LET gone == Range(ClassList[i]) \cup Range(CategoryList[i])
      left(e) == IF e \in gone THEN Dangling ELSE e
  IN /\ AtRest
     /\ i \in mapped \cap Bundles /\ \A j \in mapped : i \notin Needs[j]
     /\ mapped' = mapped \ {i}
     /\ loadable_classes' = remove_from_loadable_list(loadable_classes, gone)
     /\ loadable_categories' = remove_from_loadable_list(loadable_categories, gone)
     /\ detached' = [k \in DOMAIN detached |-> left(detached[k])] /\ running' = left(running)
     /\ RW_LOADED' = RW_LOADED \ gone /\ finished' = finished \ gone
     /\ UNCHANGED <<loading, again, maps>>

(***************************************************************************)
(* call_load_methods.                                                      *)
(***************************************************************************)
Between == running = nil /\ detached = <<>>
Still == UNCHANGED <<mapped, RW_LOADED, finished, again, maps>>

call_class_loads ==
  /\ loading = "classes" /\ Between /\ loadable_classes # <<>>
  /\ detached' = loadable_classes /\ loadable_classes' = <<>>
  /\ Still /\ UNCHANGED <<loadable_categories, loading, running>>

\* Mutant: the categories are called although classes are waiting.
Mutcall_category_loads ==
  /\ loading = "classes" /\ Between
  /\ loading' = "categories"
  /\ detached' = loadable_categories /\ loadable_categories' = <<>>
  /\ Still /\ UNCHANGED <<loadable_classes, running>>

\* No class is left: the categories are called once.  With none the list is empty.
call_category_loads ==
  /\ loading = "classes" /\ Between /\ loadable_classes = <<>>
  /\ loading' = "categories"
  /\ detached' = loadable_categories /\ loadable_categories' = <<>>
  /\ Still /\ UNCHANGED <<loadable_classes, running>>

\* With pointers that dangle the process is in code that is gone, and stays there.
CallLoad ==
  /\ loading # "no" /\ running = nil /\ detached # <<>>
  /\ running' = Head(detached) /\ detached' = Tail(detached)
  /\ again' = (again \/ running' \in finished)
  /\ UNCHANGED <<mapped, RW_LOADED, lists, loading, finished, maps>>

LoadReturns ==
  /\ running \in Entries
  /\ finished' = finished \cup {running} /\ running' = nil
  /\ UNCHANGED <<mapped, RW_LOADED, lists, loading, detached, again, maps>>

\* Mutant: categories added during the pass do not count.
MutMoreLoads == loadable_classes # <<>>

\* Classes that are waiting, or categories that were added during the pass.
MoreLoads == loadable_classes # <<>> \/ loadable_categories # <<>>

EndOfPass ==
  /\ loading = "categories" /\ Between
  /\ loading' = IF MoreLoads THEN "classes" ELSE "no"
  /\ Still /\ UNCHANGED <<lists, detached, running>>

call_load_methods == call_class_loads \/ call_category_loads \/ CallLoad \/ LoadReturns \/ EndOfPass

Next == call_load_methods \/ \E i \in Images : load_images(i) \/ unmap_image(i)

Spec == Init /\ [][Next]_vars
FairSpec == Spec /\ WF_vars(call_load_methods) /\ WF_vars(LoadReturns)

(***************************************************************************)
(* Properties.                                                             *)
(***************************************************************************)
Waiting == (Range(loadable_classes) \cup Range(loadable_categories) \cup Range(detached)) \ {Dangling}
Alive == UNION {Loads(i) : i \in mapped}

\* When a +load runs, those of all superclasses and, for a category, of its class and
\* of all the classes above it have returned, whatever images the +loads in between
\* mapped and unmapped; no +load is called twice, and none whose image was unmapped
\* while it waited in loadable_classes or loadable_categories.  None is forgotten: each
\* one of a mapped image has returned, is running or is in one of the lists, and none
\* waits once call_load_methods is done.
Above[c \in Classes \cup {nil}] == IF c = nil THEN {} ELSE {c} \cup Above[super[c]]
LoadOrder ==
  /\ running \in Classes => (Above[super[running]] \cap HasLoad) \subseteq finished
  /\ running \in Categories => (Above[class_of[running]] \cap HasLoad) \subseteq finished
  /\ ~again
  /\ (Waiting \cup {running}) \ {nil, Dangling} \subseteq Alive
  /\ Alive \subseteq finished \cup {running} \cup Waiting
  /\ finished \cap Waiting = {} /\ finished \subseteq Alive
  /\ loading = "no" => Waiting = {}

\* Every +load that waits is called, or its image goes away, unless the process has
\* called or returned into an image that a +load unmapped.
EachIsCalled == \A e \in Entries : e \in Waiting ~> e \notin Waiting \/ running = Dangling
=============================================================================
