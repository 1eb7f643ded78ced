---------------------------- MODULE CatalogProofs ----------------------------
(***************************************************************************)
(* The caches of an attached org under lock_, for any number of            *)
(* connections, objects and references: a refresh takes effect, nothing is *)
(* described twice, every lookup keeps to its two levels, and a table      *)
(* shows exactly the parents it may.                                       *)
(*                                                                         *)
(* The argument is mutual exclusion.  Whoever fills or empties tables_ and *)
(* the parents' describes holds the lock from the check that found nothing *)
(* to the insertion, the requests between them included, and a refresh     *)
(* waits for the lock; so what a lookup has put together so far is never   *)
(* older than the last refresh.                                            *)
(*                                                                         *)
(* The second part is about BuildRelationshipFields' recursion: at any     *)
(* moment an entry shows the paths that ExpandablePaths defines, less the  *)
(* missed ones and the ones that its stack still has to visit.             *)
(***************************************************************************)
EXTENDS Catalog, SequenceTheorems, FiniteSetTheorems, TLAPS

Versions == 0 .. MaxChanges

(* A level of the recursion. *)
FrameType ==
  [ object : Objects, path : Seq(DOMAIN References), todo : SUBSET (DOMAIN References) ]

(* What a thread is doing. *)
TaskType ==
  [ pc : {"idle", "tooling", "describe", "expand", "list", "json", "store"},
    object : Objects, entry : Entry, stack : Seq(FrameType), visited : SUBSET Objects ]

Locked == {"tooling", "describe", "expand", "list"}

(* A cache has at most one answer for an object. *)
Single(S) == \A x, y \in S : x = y

ShapeInv ==
  /\ version \in Versions /\ lock \in Threads \cup {None}
  /\ listing \subseteq Objects /\ loaded \in BOOLEAN
  /\ tables \in [Objects -> SUBSET Entry] /\ \A o \in Objects : Single(tables[o])
  /\ parents \in [Objects -> SUBSET Versions] /\ \A o \in Objects : Single(parents[o])
  /\ json \in [Objects -> SUBSET Versions] /\ \A o \in Objects : Single(json[o])
  /\ task \in [Threads -> TaskType]
  /\ refreshed \in [Objects -> Versions] /\ refreshed_all \in Versions
  /\ described \in [Objects -> [ table : Nat, parent : Nat ]]

(* The lock is held by the thread that fills a cache, and by no other. *)
LockInv == \A t \in Threads : (lock = t) <=> task[t].pc \in Locked

(* The recursion of a lookup: one frame for each level, never more of them *)
(* than the depth asked for.                                               *)
StackOf(k) ==
  IF k.pc = "expand"
  THEN /\ Len(k.stack) \in 1 .. 2
       /\ \A i \in 1 .. Len(k.stack) : Len(k.stack[i].path) = i - 1
       /\ \/ Len(k.stack) <= k.entry.depth
          \/ Len(k.stack) = 1 /\ k.stack[1].todo = {}
  ELSE k.stack = << >>

StackInv == \A t \in Threads : StackOf(task[t])

(* What a lookup has put together is as new as the last refresh. *)
FreshOf(k) ==
  k.pc = "expand" => /\ refreshed[k.object] <= k.entry.version
                     /\ \A s \in k.entry.shows : refreshed_all <= s.version

FreshInv ==
  /\ \A o \in Objects : refreshed_all <= refreshed[o] /\ refreshed[o] <= version
  /\ \A t \in Threads : FreshOf(task[t])

(* A describe that was counted is in its cache, or on its way there. *)
CountOf(o) ==
  /\ \/ described[o].table = 0
     \/ /\ described[o].table = 1
        /\ tables[o] # {} \/ \E t \in Threads : task[t].pc = "expand" /\ task[t].object = o
  /\ \/ described[o].parent = 0
     \/ described[o].parent = 1 /\ parents[o] # {}

CountInv ==
  /\ \A o \in Objects : CountOf(o)
  /\ \A t \in Threads : task[t].pc \in {"tooling", "describe", "expand"}
                        => tables[task[t].object] = {}

(* The inductive invariant. *)
IInv == ShapeInv /\ LockInv /\ StackInv /\ FreshInv /\ CountInv /\ NothingStale

-----------------------------------------------------------------------------
(* Values.                                                                 *)

(* The positions of the references. *)
LEMMA Positions ==
  /\ DOMAIN References = 1 .. Len(References) /\ Len(References) \in Nat
  /\ \A f \in DOMAIN References : References[f].to \subseteq Objects
  <1> DEFINE R == [ from : Objects, rel : STRING, to : SUBSET Objects, clash : BOOLEAN ]
  <1>1. References \in Seq(R)
    BY CatalogAssumption
  <1>2. \A r \in R : r.to \subseteq Objects
    OBVIOUS
  <1> HIDE DEF R
  <1>3. DOMAIN References = 1 .. Len(References) /\ Len(References) \in Nat
    BY <1>1, LenProperties
  <1>4. \A f \in 1 .. Len(References) : References[f] \in R
    BY <1>1, ElementOfSeq
  <1> QED
    BY <1>2, <1>3, <1>4

(* An entry without parents. *)
LEMMA BareType ==
  ASSUME NEW v \in Versions, NEW d \in 0 .. 2
  PROVE  /\ Bare(v, d) \in Entry
         /\ Bare(v, d).version = v /\ Bare(v, d).depth = d /\ Bare(v, d).shows = {}
  BY DEF Bare, Entry, Versions

(* What a thread does before and after an operation: nothing. *)
LEMMA IdleType == Idle \in TaskType /\ Idle.pc = "idle" /\ Idle.stack = << >>
  <1>1. (CHOOSE o \in Objects : TRUE) \in Objects
    BY CatalogAssumption
  <1>2. 0 \in Versions /\ 0 \in 0 .. 2
    BY CatalogAssumption DEF Versions
  <1>3. Bare(0, 0) \in Entry
    BY <1>2, BareType
  <1>4. << >> \in Seq(FrameType)
    BY EmptySeq
  <1> QED
    BY <1>1, <1>3, <1>4 DEF Idle, TaskType

(* One or two fields are a path. *)
LEMMA PathType ==
  ASSUME NEW p \in Seq(DOMAIN References), Len(p) \in 1 .. 2
  PROVE  p \in Path
  <1>1. p \in [1 .. Len(p) -> DOMAIN References]
    BY LenProperties
  <1> QED
    BY <1>1 DEF Path

(* A set of at most one element. *)
LEMMA SingleCardinality ==
  ASSUME NEW S, Single(S)
  PROVE  Cardinality(S) <= 1
  <1>1. CASE S = {}
    BY <1>1, FS_EmptySet
  <1>2. CASE S # {}
    <2>1. PICK x \in S : S = {x}
      BY <1>2 DEF Single
    <2> QED
      BY <2>1, FS_Singleton
  <1> QED
    BY <1>1, <1>2

(* Who holds the lock is the only one to fill a cache. *)
LEMMA Alone ==
  ASSUME IInv, NEW t \in Threads, NEW u \in Threads, task[t].pc \in Locked, task[u].pc \in Locked
  PROVE  t = u
  BY DEF IInv, LockInv

(* While nobody holds it, no lookup is under way. *)
LEMMA Unlocked ==
  ASSUME IInv, lock = None, NEW t \in Threads
  PROVE  task[t].pc \notin Locked
  BY CatalogAssumption DEF IInv, LockInv

-----------------------------------------------------------------------------
(* The initial state.                                                      *)

LEMMA IInit == Init => IInv
  <1> SUFFICES ASSUME Init PROVE IInv
    OBVIOUS
  <1>1. 0 \in Versions /\ 0 \in Nat
    BY CatalogAssumption DEF Versions
  <1>2. \A t \in Threads : task[t] = Idle
    BY DEF Init
  <1>3. ShapeInv
    <2>1. task \in [Threads -> TaskType]
      BY IdleType DEF Init
    <2>2. tables \in [Objects -> SUBSET Entry] /\ \A o \in Objects : Single(tables[o])
      BY DEF Init, Single
    <2>3. parents \in [Objects -> SUBSET Versions] /\ \A o \in Objects : Single(parents[o])
      BY DEF Init, Single
    <2>4. json \in [Objects -> SUBSET Versions] /\ \A o \in Objects : Single(json[o])
      BY DEF Init, Single
    <2>5. described \in [Objects -> [ table : Nat, parent : Nat ]]
      BY DEF Init
    <2>6. refreshed \in [Objects -> Versions] /\ refreshed_all \in Versions /\ version \in Versions
      BY <1>1 DEF Init
    <2> QED
      BY <2>1, <2>2, <2>3, <2>4, <2>5, <2>6 DEF Init, ShapeInv
  <1>4. LockInv
    BY <1>2, IdleType, CatalogAssumption DEF Init, LockInv, Locked
  <1>5. StackInv
    BY <1>2, IdleType DEF StackInv, StackOf
  <1>6. FreshInv
    BY <1>1, <1>2, IdleType DEF Init, FreshInv, FreshOf
  <1>7. CountInv
    BY <1>2, IdleType DEF Init, CountInv, CountOf
  <1>8. NothingStale
    BY DEF Init, NothingStale
  <1> QED
    BY <1>3, <1>4, <1>5, <1>6, <1>7, <1>8 DEF IInv

-----------------------------------------------------------------------------
(* The steps.                                                              *)

(* A step of thread t, as the other threads see it. *)
LEMMA TaskChange ==
  ASSUME IInv, NEW t \in Threads, NEW k \in TaskType, task' = [task EXCEPT ![t] = k],
         lock' \in Threads \cup {None}, \A u \in Threads \ {t} : (lock' = u) <=> (lock = u),
         (lock' = t) <=> k.pc \in Locked,
         StackOf(k), FreshOf(k), UNCHANGED <<version, refreshed, refreshed_all>>
  PROVE  /\ task' \in [Threads -> TaskType] /\ task'[t] = k
         /\ \A u \in Threads \ {t} : task'[u] = task[u]
         /\ LockInv' /\ StackInv' /\ FreshInv'
  <1>1. /\ task' \in [Threads -> TaskType] /\ task'[t] = k
        /\ \A u \in Threads \ {t} : task'[u] = task[u]
    BY DEF IInv, ShapeInv
  <1>2. LockInv'
    BY <1>1 DEF IInv, LockInv
  <1>3. StackInv'
    BY <1>1 DEF IInv, StackInv, StackOf
  <1>4. FreshInv'
    BY <1>1 DEF IInv, FreshInv, FreshOf
  <1> QED
    BY <1>1, <1>2, <1>3, <1>4

(* A step that changes no cache and counts nothing. *)
LEMMA LocalStep ==
  ASSUME IInv, NEW t \in Threads, NEW k \in TaskType, task' = [task EXCEPT ![t] = k],
         lock' \in Threads \cup {None}, \A u \in Threads \ {t} : (lock' = u) <=> (lock = u),
         (lock' = t) <=> k.pc \in Locked,
         StackOf(k), FreshOf(k),
         UNCHANGED <<version, cacheVars, histVars>>,
         k.pc \in {"tooling", "describe", "expand"} => tables[k.object] = {},
         task[t].pc = "expand" => k.pc = "expand" /\ k.object = task[t].object
  PROVE  IInv'
  <1> USE DEF cacheVars, histVars
  <1>1. /\ task' \in [Threads -> TaskType] /\ task'[t] = k
        /\ \A u \in Threads \ {t} : task'[u] = task[u]
        /\ LockInv' /\ StackInv' /\ FreshInv'
    BY TaskChange
  <1>2. ShapeInv'
    BY <1>1 DEF IInv, ShapeInv
  <1>3. CountInv'
    <2>1. ASSUME NEW o \in Objects PROVE CountOf(o)'
      BY <1>1 DEF IInv, CountInv, CountOf
    <2>2. ASSUME NEW u \in Threads, task'[u].pc \in {"tooling", "describe", "expand"}
          PROVE  tables'[task'[u].object] = {}
      BY <1>1, <2>2 DEF IInv, CountInv
    <2> QED
      BY <2>1, <2>2 DEF CountInv
  <1>4. NothingStale'
    BY DEF IInv, NothingStale
  <1> QED
    BY <1>1, <1>2, <1>3, <1>4 DEF IInv

(* The org's metadata changes. *)
LEMMA SchemaChangeStep == IInv /\ SchemaChange => IInv'
  <1> SUFFICES ASSUME IInv, SchemaChange PROVE IInv'
    OBVIOUS
  <1> USE DEF SchemaChange, cacheVars, histVars
  <1>1. version \in Nat /\ version' \in Versions /\ version' = version + 1
    BY CatalogAssumption DEF IInv, ShapeInv, Versions
  <1>2. ShapeInv'
    BY <1>1 DEF IInv, ShapeInv
  <1>3. LockInv' /\ StackInv'
    BY DEF IInv, LockInv, StackInv, StackOf
  <1>4. FreshInv'
    <2>1. \A o \in Objects : refreshed[o] \in Int
      BY DEF IInv, ShapeInv, Versions
    <2>2. \A o \in Objects : refreshed[o] <= version'
      BY <1>1, <2>1 DEF IInv, FreshInv
    <2> QED
      BY <2>2 DEF IInv, FreshInv, FreshOf
  <1>5. CountInv' /\ NothingStale'
    BY DEF IInv, CountInv, CountOf, NothingStale
  <1> QED
    BY <1>2, <1>3, <1>4, <1>5 DEF IInv

(* A lookup that found no entry. *)
LEMMA LookupMissStep ==
  ASSUME IInv, NEW t \in Threads, NEW o \in Queried, NEW source \in {"describe", "tooling"},
         NEW depth \in Depths, LookupMiss(t, o, source, depth)
  PROVE  IInv'
  <1> DEFINE k == [Idle EXCEPT !.pc = source, !.object = o, !.entry = Bare(0, depth)]
  <1>1. Bare(0, depth) \in Entry /\ o \in Objects
    BY BareType, CatalogAssumption DEF Depths, Versions
  <1>2. k \in TaskType /\ k.pc = source /\ k.object = o /\ k.stack = << >>
    BY <1>1, IdleType DEF TaskType
  <1>3. lock = None /\ lock' = t /\ tables[o] = {} /\ task[t].pc = "idle"
        /\ task' = [task EXCEPT ![t] = k] /\ UNCHANGED <<version, cacheVars, histVars>>
    BY DEF LookupMiss, At
  <1> HIDE DEF k
  <1>4. StackOf(k) /\ FreshOf(k)
    BY <1>2 DEF StackOf, FreshOf
  <1> QED
    BY <1>2, <1>3, <1>4, LocalStep, CatalogAssumption DEF Locked

(* Whatever a thread does ends without a trace: an exception. *)
LEMMA ReleaseStep ==
  ASSUME IInv, NEW t \in Threads, Release(t), UNCHANGED <<version, cacheVars, histVars>>,
         task[t].pc # "expand"
  PROVE  IInv'
  <1>1. task' = [task EXCEPT ![t] = Idle] /\ lock' = IF lock = t THEN None ELSE lock
    BY DEF Release
  <1>2. lock' \in Threads \cup {None} /\ lock' # t
        /\ \A u \in Threads \ {t} : (lock' = u) <=> (lock = u)
    BY <1>1, CatalogAssumption DEF IInv, ShapeInv
  <1>3. StackOf(Idle) /\ FreshOf(Idle)
    BY IdleType DEF StackOf, FreshOf
  <1> QED
    BY <1>1, <1>2, <1>3, IdleType, LocalStep DEF Locked

(* A request of t throws. *)
LEMMA RequestFailsStep == ASSUME IInv, NEW t \in Threads, RequestFails(t) PROVE IInv'
  BY ReleaseStep DEF RequestFails

(* A listing begins. *)
LEMMA ListObjectsStep == ASSUME IInv, NEW t \in Threads, ListObjects(t) PROVE IInv'
  <1> DEFINE k == [task[t] EXCEPT !.pc = "list"]
  <1>1. task[t] \in TaskType /\ task[t].pc = "idle" /\ task[t].stack = << >>
    BY DEF IInv, ShapeInv, StackInv, StackOf, ListObjects, At
  <1>2. k \in TaskType /\ k.pc = "list" /\ k.stack = << >>
    BY <1>1 DEF TaskType
  <1>3. lock = None /\ lock' = t /\ task' = [task EXCEPT ![t] = k]
        /\ UNCHANGED <<version, cacheVars, histVars>>
    BY DEF ListObjects
  <1> HIDE DEF k
  <1>4. StackOf(k) /\ FreshOf(k)
    BY <1>2 DEF StackOf, FreshOf
  <1> QED
    BY <1>1, <1>2, <1>3, <1>4, LocalStep, CatalogAssumption DEF Locked

(* The listing is there. *)
LEMMA EnsureObjectListLoadedStep ==
  ASSUME IInv, NEW t \in Threads, EnsureObjectListLoaded(t) PROVE IInv'
  <1>1. /\ task' = [task EXCEPT ![t] = Idle] /\ lock' = IF lock = t THEN None ELSE lock
        /\ task[t].pc = "list" /\ UNCHANGED <<version, tables, parents, json, histVars>>
        /\ listing' \subseteq Objects /\ loaded' = TRUE
    BY DEF EnsureObjectListLoaded, Release, At, IInv, ShapeInv
  <1>2. lock' \in Threads \cup {None} /\ lock' # t
        /\ \A u \in Threads \ {t} : (lock' = u) <=> (lock = u)
    BY <1>1, CatalogAssumption DEF IInv, ShapeInv
  <1>3. StackOf(Idle) /\ FreshOf(Idle)
    BY IdleType DEF StackOf, FreshOf
  <1> USE DEF histVars
  <1>4. /\ task' \in [Threads -> TaskType] /\ task'[t] = Idle
        /\ \A u \in Threads \ {t} : task'[u] = task[u]
        /\ LockInv' /\ StackInv' /\ FreshInv'
    BY <1>1, <1>2, <1>3, IdleType, TaskChange DEF Locked
  <1>5. ShapeInv'
    BY <1>1, <1>2, <1>4 DEF IInv, ShapeInv
  <1>6. CountInv'
    BY <1>1, <1>4, IdleType DEF IInv, CountInv, CountOf
  <1>7. NothingStale'
    BY <1>1 DEF IInv, NothingStale
  <1> QED
    BY <1>4, <1>5, <1>6, <1>7 DEF IInv

(* DescribeJsonCached begins. *)
LEMMA JsonMissStep ==
  ASSUME IInv, NEW t \in Threads, NEW o \in JsonObjects, JsonMiss(t, o) PROVE IInv'
  <1> DEFINE k == [task[t] EXCEPT !.pc = "json", !.object = o]
  <1>1. task[t] \in TaskType /\ task[t].pc = "idle" /\ task[t].stack = << >> /\ o \in Objects
    BY CatalogAssumption DEF IInv, ShapeInv, StackInv, StackOf, JsonMiss, At
  <1>2. k \in TaskType /\ k.pc = "json" /\ k.stack = << >>
    BY <1>1 DEF TaskType
  <1>3. lock' = lock /\ lock = None /\ UNCHANGED <<version, cacheVars, histVars>>
        /\ task' = [task EXCEPT ![t] = k]
    BY <1>1 DEF JsonMiss, TaskType, IInv, ShapeInv
  <1> HIDE DEF k
  <1>4. StackOf(k) /\ FreshOf(k)
    BY <1>2 DEF StackOf, FreshOf
  <1> QED
    BY <1>1, <1>2, <1>3, <1>4, LocalStep, CatalogAssumption DEF Locked

(* It has its answer; no lock is held. *)
LEMMA DescribeJsonStep == ASSUME IInv, NEW t \in Threads, DescribeJson(t) PROVE IInv'
  <1> DEFINE k == [task[t] EXCEPT !.pc = "store", !.entry = Bare(version, 0)]
  <1>1. task[t] \in TaskType /\ task[t].pc = "json" /\ task[t].stack = << >>
        /\ version \in Versions /\ lock \in Threads \cup {None} /\ lock # t
    BY DEF IInv, ShapeInv, StackInv, StackOf, LockInv, Locked, DescribeJson, At
  <1>2. k \in TaskType /\ k.pc = "store" /\ k.stack = << >>
    <2>1. Bare(version, 0) \in Entry
      BY <1>1, BareType
    <2> QED
      BY <1>1, <2>1 DEF TaskType
  <1>3. lock' = lock /\ UNCHANGED <<version, cacheVars, histVars>>
        /\ task' = [task EXCEPT ![t] = k]
    BY <1>1 DEF DescribeJson, TaskType, IInv, ShapeInv
  <1> HIDE DEF k
  <1>4. StackOf(k) /\ FreshOf(k)
    BY <1>2 DEF StackOf, FreshOf
  <1> QED
    BY <1>1, <1>2, <1>3, <1>4, LocalStep DEF Locked

(* It stores the answer. *)
LEMMA DescribeJsonCachedStep ==
  ASSUME IInv, NEW t \in Threads, DescribeJsonCached(t) PROVE IInv'
  <1>1. /\ task' = [task EXCEPT ![t] = Idle] /\ lock' = None /\ lock = None
        /\ task[t].pc = "store" /\ UNCHANGED <<version, tables, listing, loaded, parents, histVars>>
        /\ json' = [json EXCEPT ![task[t].object] = {task[t].entry.version}]
        /\ task[t] \in TaskType
    BY DEF DescribeJsonCached, Release, At, IInv, ShapeInv
  <1>2. StackOf(Idle) /\ FreshOf(Idle)
    BY IdleType DEF StackOf, FreshOf
  <1> USE DEF histVars
  <1>3. /\ task' \in [Threads -> TaskType] /\ task'[t] = Idle
        /\ \A u \in Threads \ {t} : task'[u] = task[u]
        /\ LockInv' /\ StackInv' /\ FreshInv'
    BY <1>1, <1>2, IdleType, TaskChange, CatalogAssumption DEF Locked
  <1>4. json' \in [Objects -> SUBSET Versions] /\ \A o \in Objects : Single(json'[o])
    <2>1. task[t].object \in Objects /\ task[t].entry.version \in Versions
      BY <1>1 DEF TaskType, Entry, Versions
    <2>2. json \in [Objects -> SUBSET Versions] /\ \A o \in Objects : Single(json[o])
      BY DEF IInv, ShapeInv
    <2> QED
      BY <1>1, <2>1, <2>2 DEF Single
  <1>5. ShapeInv'
    BY <1>1, <1>3, <1>4 DEF IInv, ShapeInv
  <1>6. CountInv'
    BY <1>1, <1>3, IdleType DEF IInv, CountInv, CountOf
  <1>7. NothingStale'
    BY <1>1 DEF IInv, NothingStale
  <1> QED
    BY <1>3, <1>5, <1>6, <1>7 DEF IInv

(* Everything is dropped: no lookup is under way that could bring an old   *)
(* answer back.                                                            *)
LEMMA RefreshAllStep == IInv /\ RefreshAll => IInv'
  <1> SUFFICES ASSUME IInv, RefreshAll PROVE IInv'
    OBVIOUS
  <1>1. \A t \in Threads : task[t].pc \notin Locked
    BY Unlocked DEF RefreshAll
  <1>2. version \in Versions /\ version \in Int
    BY DEF IInv, ShapeInv, Versions
  <1>3. ShapeInv'
    <2>1. tables' \in [Objects -> SUBSET Entry] /\ \A o \in Objects : Single(tables'[o])
      BY DEF RefreshAll, Single
    <2>2. parents' \in [Objects -> SUBSET Versions] /\ \A o \in Objects : Single(parents'[o])
      BY DEF RefreshAll, Single
    <2>3. json' \in [Objects -> SUBSET Versions] /\ \A o \in Objects : Single(json'[o])
      BY DEF RefreshAll, Single
    <2>4. described' \in [Objects -> [ table : Nat, parent : Nat ]]
      BY DEF RefreshAll
    <2>5. refreshed' \in [Objects -> Versions] /\ refreshed_all' \in Versions
      BY <1>2 DEF RefreshAll
    <2> QED
      BY <2>1, <2>2, <2>3, <2>4, <2>5 DEF RefreshAll, IInv, ShapeInv
  <1>4. LockInv' /\ StackInv'
    BY DEF RefreshAll, IInv, LockInv, StackInv, StackOf
  <1>5. FreshInv'
    BY <1>1, <1>2 DEF RefreshAll, FreshInv, FreshOf, Locked
  <1>6. CountInv'
    BY <1>1 DEF RefreshAll, CountInv, CountOf, Locked
  <1>7. NothingStale'
    BY DEF RefreshAll, NothingStale
  <1> QED
    BY <1>3, <1>4, <1>5, <1>6, <1>7 DEF IInv

(* One object is dropped, likewise. *)
LEMMA RefreshObjectStep == ASSUME IInv, NEW o \in Objects, RefreshObject(o) PROVE IInv'
  <1>1. \A t \in Threads : task[t].pc \notin Locked
    BY Unlocked DEF RefreshObject
  <1>2. version \in Versions /\ version \in Int /\ refreshed_all \in Int
        /\ \A x \in Objects : refreshed[x] \in Int
    BY DEF IInv, ShapeInv, Versions
  <1>3. \A x \in Objects \ {o} :
          /\ tables'[x] = tables[x] /\ parents'[x] = parents[x] /\ json'[x] = json[x]
          /\ refreshed'[x] = refreshed[x] /\ described'[x] = described[x]
    BY DEF RefreshObject, IInv, ShapeInv
  <1>4. /\ tables'[o] = {} /\ parents'[o] = {} /\ json'[o] = {} /\ refreshed'[o] = version
        /\ described'[o] = [table |-> 0, parent |-> 0]
        /\ UNCHANGED <<version, lock, task, listing, loaded, refreshed_all>>
    BY DEF RefreshObject, IInv, ShapeInv
  <1>5. ShapeInv'
    <2>1. tables' \in [Objects -> SUBSET Entry] /\ \A x \in Objects : Single(tables'[x])
      BY <1>3, <1>4 DEF RefreshObject, IInv, ShapeInv, Single
    <2>2. parents' \in [Objects -> SUBSET Versions] /\ \A x \in Objects : Single(parents'[x])
      BY <1>3, <1>4 DEF RefreshObject, IInv, ShapeInv, Single
    <2>3. json' \in [Objects -> SUBSET Versions] /\ \A x \in Objects : Single(json'[x])
      BY <1>3, <1>4 DEF RefreshObject, IInv, ShapeInv, Single
    <2>4. described' \in [Objects -> [ table : Nat, parent : Nat ]]
      BY DEF RefreshObject, IInv, ShapeInv
    <2>5. refreshed' \in [Objects -> Versions]
      BY <1>2 DEF RefreshObject, IInv, ShapeInv
    <2> QED
      BY <1>4, <2>1, <2>2, <2>3, <2>4, <2>5 DEF IInv, ShapeInv
  <1>6. LockInv' /\ StackInv'
    BY <1>4 DEF IInv, LockInv, StackInv, StackOf
  <1>7. FreshInv'
    <2>1. ASSUME NEW x \in Objects
          PROVE  refreshed_all' <= refreshed'[x] /\ refreshed'[x] <= version'
      <3>1. refreshed_all <= refreshed[x] /\ refreshed[x] <= version
        BY DEF IInv, FreshInv
      <3> QED
        BY <1>2, <1>3, <1>4, <3>1
    <2> QED
      BY <1>1, <1>4, <2>1 DEF FreshInv, FreshOf, Locked
  <1>8. CountInv'
    <2>1. ASSUME NEW x \in Objects PROVE CountOf(x)'
      <3>1. CASE x = o
        BY <1>4, <3>1 DEF CountOf
      <3>2. CASE x # o
        <4>1. CountOf(x)
          BY DEF IInv, CountInv
        <4> QED
          BY <1>3, <1>4, <3>2, <4>1 DEF CountOf
      <3> QED
        BY <3>1, <3>2
    <2> QED
      BY <1>1, <1>4, <2>1 DEF CountInv, Locked
  <1>9. NothingStale'
    <2>1. ASSUME NEW x \in Objects \ {o}
          PROVE  /\ \A v \in parents'[x] : v >= refreshed'[x]
                 /\ \A e \in tables'[x] :
                      /\ e.version >= refreshed'[x]
                      /\ \A s \in e.shows : s.version >= refreshed_all'
      BY <1>3, <1>4 DEF IInv, NothingStale
    <2> QED
      BY <1>4, <2>1 DEF NothingStale
  <1> QED
    BY <1>5, <1>6, <1>7, <1>8, <1>9 DEF IInv

(* A Tooling batch answers. *)
LEMMA ToolingDescribeStep ==
  ASSUME IInv, NEW t \in Threads, NEW clear \in SUBSET Objects, ToolingDescribe(t, clear)
  PROVE  IInv'
  <1> USE DEF histVars
  <1> DEFINE o == task[t].object
             k == IF o \in clear THEN Idle ELSE [task[t] EXCEPT !.pc = "describe"]
  <1>1. /\ task[t] \in TaskType /\ task[t].pc = "tooling" /\ task[t].stack = << >> /\ lock = t
        /\ o \in Objects /\ version \in Versions /\ tables[o] = {}
    BY DEF IInv, ShapeInv, StackInv, StackOf, LockInv, Locked, CountInv, TaskType,
           ToolingDescribe, At
  <1>2. /\ k \in TaskType /\ k.stack = << >>
        /\ k.pc = IF o \in clear THEN "idle" ELSE "describe"
        /\ o \notin clear => k.object = o
    BY <1>1, IdleType DEF TaskType
  <1>3. /\ task' = [task EXCEPT ![t] = k] /\ lock' = IF o \in clear THEN None ELSE t
        /\ UNCHANGED <<version, listing, loaded, parents, json, histVars>>
        /\ Warm(clear)
    BY <1>1 DEF ToolingDescribe, Release, TaskType, IInv, ShapeInv
  <1>4. StackOf(k) /\ FreshOf(k)
    BY <1>2 DEF StackOf, FreshOf
  <1> HIDE DEF k, o
  <1>5. /\ task' \in [Threads -> TaskType] /\ task'[t] = k
        /\ \A u \in Threads \ {t} : task'[u] = task[u]
        /\ LockInv' /\ StackInv' /\ FreshInv'
    BY <1>1, <1>2, <1>3, <1>4, TaskChange, CatalogAssumption DEF Locked
  <1>6. /\ Bare(version, 0) \in Entry /\ Bare(version, 0).version = version
        /\ Bare(version, 0).shows = {}
    BY <1>1, BareType
  <1>7. \A x \in Objects : tables'[x] = IF x \in clear /\ tables[x] = {}
                                        THEN {Bare(version, 0)} ELSE tables[x]
    BY <1>3 DEF Warm
  <1>8. tables' \in [Objects -> SUBSET Entry] /\ \A x \in Objects : Single(tables'[x])
    <2>1. ASSUME NEW x \in Objects PROVE Single(tables'[x])
      BY <1>7 DEF IInv, ShapeInv, Single
    <2>2. tables' \in [Objects -> SUBSET Entry]
      BY <1>3, <1>6 DEF Warm, IInv, ShapeInv
    <2> QED
      BY <2>1, <2>2
  <1>9. ShapeInv'
    BY <1>1, <1>3, <1>5, <1>8 DEF IInv, ShapeInv
  <1>10. CountInv'
    <2>1. ASSUME NEW x \in Objects PROVE CountOf(x)'
      <3>1. CountOf(x)
        BY DEF IInv, CountInv
      <3>2. \A u \in Threads : task[u].pc = "expand" => task'[u] = task[u]
        BY <1>1, <1>5
      <3>3. tables[x] # {} => tables'[x] # {}
        BY <1>7
      <3> QED
        BY <1>3, <3>1, <3>2, <3>3 DEF CountOf
    <2>2. ASSUME NEW u \in Threads, task'[u].pc \in {"tooling", "describe", "expand"}
          PROVE  tables'[task'[u].object] = {}
      <3>1. u = t
        <4>1. CASE u # t
          BY <1>1, <1>5, <2>2, <4>1, Alone DEF Locked
        <4> QED
          BY <4>1
      <3>2. o \notin clear /\ task'[u].object = o
        BY <1>2, <1>5, <2>2, <3>1
      <3> QED
        BY <1>1, <1>7, <3>2
    <2> QED
      BY <2>1, <2>2 DEF CountInv
  <1>11. NothingStale'
    <2>1. ASSUME NEW x \in Objects, NEW e \in tables'[x]
          PROVE  e.version >= refreshed[x] /\ \A s \in e.shows : s.version >= refreshed_all
      <3>1. CASE e \in tables[x]
        BY <3>1 DEF IInv, NothingStale
      <3>2. CASE e = Bare(version, 0)
        <4>1. refreshed[x] <= version /\ refreshed[x] \in Int /\ version \in Int
          BY DEF IInv, FreshInv, ShapeInv, Versions
        <4> QED
          BY <1>6, <3>2, <4>1
      <3> QED
        BY <1>7, <3>1, <3>2
    <2> QED
      BY <1>3, <2>1 DEF IInv, NothingStale
  <1> QED
    BY <1>5, <1>9, <1>10, <1>11 DEF IInv

(* The REST describe of the object itself. *)
LEMMA DescribeStep == ASSUME IInv, NEW t \in Threads, Describe(t) PROVE IInv'
  <1> DEFINE o == task[t].object
             d == task[t].entry.depth
             frame == [object |-> o, path |-> << >>, todo |-> IF d = 0 THEN {} ELSE FieldsOf(o)]
             k == [task[t] EXCEPT !.pc = "expand", !.entry = Bare(version, d), !.visited = {o},
                                  !.stack = << frame >>]
  <1>1. /\ task[t] \in TaskType /\ task[t].pc = "describe" /\ lock = t
        /\ o \in Objects /\ d \in 0 .. 2 /\ version \in Versions /\ tables[o] = {}
    BY DEF IInv, ShapeInv, LockInv, Locked, CountInv, TaskType, Entry, Describe, At
  <1>2. frame \in FrameType /\ frame.path = << >> /\ frame.todo = IF d = 0 THEN {} ELSE FieldsOf(o)
    <2>1. << >> \in Seq(DOMAIN References)
      BY EmptySeq
    <2> QED
      BY <1>1, <2>1 DEF FrameType, FieldsOf
  <1>3. << frame >> \in Seq(FrameType) /\ Len(<< frame >>) = 1 /\ << frame >>[1] = frame
    BY <1>2
  <1>4. /\ Bare(version, d) \in Entry /\ Bare(version, d).version = version
        /\ Bare(version, d).depth = d /\ Bare(version, d).shows = {}
    BY <1>1, BareType
  <1>5. /\ k \in TaskType /\ k.pc = "expand" /\ k.object = o /\ k.entry = Bare(version, d)
        /\ k.stack = << frame >>
    BY <1>1, <1>3, <1>4 DEF TaskType
  <1>6. /\ lock' = lock /\ task' = [task EXCEPT ![t] = k]
        /\ described' = [described EXCEPT ![o].table = @ + 1]
        /\ UNCHANGED <<version, cacheVars, refreshed, refreshed_all>>
    BY <1>1 DEF Describe, TaskType, IInv, ShapeInv
  <1> HIDE DEF k, frame, d, o
  <1>7. StackOf(k)
    <2>1. Len(<< >>) = 0
      OBVIOUS
    <2> QED
      BY <1>1, <1>2, <1>3, <1>4, <1>5, <2>1 DEF StackOf
  <1>8. FreshOf(k)
    <2>1. refreshed[o] <= version
      BY <1>1 DEF IInv, FreshInv
    <2> QED
      BY <1>4, <1>5, <2>1 DEF FreshOf
  <1>9. /\ task' \in [Threads -> TaskType] /\ task'[t] = k
        /\ \A u \in Threads \ {t} : task'[u] = task[u]
        /\ LockInv' /\ StackInv' /\ FreshInv'
    BY <1>1, <1>5, <1>6, <1>7, <1>8, TaskChange DEF Locked
  <1>10. /\ described' \in [Objects -> [ table : Nat, parent : Nat ]]
         /\ described'[o].table = described[o].table + 1
         /\ described'[o].parent = described[o].parent
         /\ \A x \in Objects \ {o} : described'[x] = described[x]
    BY <1>1, <1>6 DEF IInv, ShapeInv
  <1> USE DEF cacheVars
  <1>11. ShapeInv'
    BY <1>6, <1>9, <1>10 DEF IInv, ShapeInv
  <1>12. CountInv'
    <2>1. \A u \in Threads : task[u].pc # "expand"
      <3> SUFFICES ASSUME NEW u \in Threads, task[u].pc = "expand" PROVE FALSE
        OBVIOUS
      <3>1. task[u].pc \in Locked /\ task[t].pc \in Locked
        BY <1>1 DEF Locked
      <3>2. u = t
        BY <3>1, Alone
      <3> QED
        BY <1>1, <3>2
    <2>2. ASSUME NEW x \in Objects PROVE CountOf(x)'
      <3>1. CountOf(x)
        BY DEF IInv, CountInv
      <3>2. CASE x = o
        <4>1. described[o].table = 0
          BY <1>1, <2>1, <3>1, <3>2 DEF CountOf
        <4>2. task'[t].pc = "expand" /\ task'[t].object = o
          BY <1>5, <1>9
        <4> QED
          BY <1>6, <1>10, <3>1, <3>2, <4>1, <4>2 DEF CountOf
      <3>3. CASE x # o
        BY <1>6, <1>10, <2>1, <3>1, <3>3 DEF CountOf
      <3> QED
        BY <3>2, <3>3
    <2>3. ASSUME NEW u \in Threads, task'[u].pc \in {"tooling", "describe", "expand"}
          PROVE  tables'[task'[u].object] = {}
      <3>1. CASE u = t
        BY <1>1, <1>5, <1>6, <1>9, <3>1
      <3>2. CASE u # t
        BY <1>6, <1>9, <2>3, <3>2 DEF IInv, CountInv
      <3> QED
        BY <3>1, <3>2
    <2> QED
      BY <2>2, <2>3 DEF CountInv
  <1>13. NothingStale'
    BY <1>6 DEF IInv, NothingStale
  <1> QED
    BY <1>9, <1>11, <1>12, <1>13 DEF IInv

(* A thread inside BuildRelationshipFields. *)
LEMMA Expanding ==
  ASSUME IInv, NEW t \in Threads, task[t].pc = "expand"
  PROVE  /\ task[t] \in TaskType /\ lock = t /\ task[t].stack \in Seq(FrameType)
         /\ Len(task[t].stack) \in 1 .. 2 /\ Frame(t) \in FrameType
         /\ Len(Frame(t).path) = Len(task[t].stack) - 1
         /\ task[t].entry \in Entry /\ task[t].object \in Objects
         /\ tables[task[t].object] = {}
  <1>1. /\ task[t] \in TaskType /\ lock = t /\ Len(task[t].stack) \in 1 .. 2
        /\ \A i \in 1 .. Len(task[t].stack) : Len(task[t].stack[i].path) = i - 1
        /\ tables[task[t].object] = {}
    BY DEF IInv, ShapeInv, LockInv, Locked, StackInv, StackOf, CountInv
  <1>2. task[t].stack \in Seq(FrameType) /\ task[t].entry \in Entry /\ task[t].object \in Objects
    BY <1>1 DEF TaskType
  <1>3. Len(task[t].stack) \in 1 .. Len(task[t].stack)
    <2>1. \A m \in 1 .. 2 : m \in 1 .. m
      OBVIOUS
    <2> QED
      BY <1>1, <2>1, Zenon
  <1>4. Frame(t) \in FrameType
    BY <1>2, <1>3, ElementOfSeq DEF Frame
  <1>5. Len(Frame(t).path) = Len(task[t].stack) - 1
    BY <1>1, <1>3, Zenon DEF Frame
  <1> QED
    BY <1>1, <1>2, <1>4, <1>5

(* One round of the loop: the innermost frame is one field further. *)
LEMMA PassedTask ==
  ASSUME IInv, NEW t \in Threads, task[t].pc = "expand", NEW f \in Frame(t).todo
  PROVE  LET k == task[t]
             n == Len(task[t].stack)
             p == Passed(t, f)
         IN  /\ p \in TaskType /\ p.pc = "expand" /\ p.object = k.object /\ p.entry = k.entry
             /\ p.visited = k.visited /\ Len(p.stack) = n
             /\ \A i \in 1 .. n :
                  /\ p.stack[i].object = k.stack[i].object /\ p.stack[i].path = k.stack[i].path
                  /\ p.stack[i].todo = IF i = n THEN k.stack[i].todo \ {f} ELSE k.stack[i].todo
             /\ n \in 1 .. 2 /\ n <= k.entry.depth /\ k.entry.depth \in 0 .. 2
             /\ f \in DOMAIN References
             /\ Append(Frame(t).path, f) \in Seq(DOMAIN References)
             /\ Len(Append(Frame(t).path, f)) = n
             /\ Append(Frame(t).path, f) \in Path
  <1> DEFINE k == task[t]
             n == Len(task[t].stack)
             fr == [Frame(t) EXCEPT !.todo = @ \ {f}]
             st == [k.stack EXCEPT ![n] = fr]
             p == Passed(t, f)
  <1>1. /\ k \in TaskType /\ k.stack \in Seq(FrameType) /\ n \in 1 .. 2 /\ Frame(t) \in FrameType
        /\ k.entry \in Entry /\ Len(Frame(t).path) = n - 1 /\ n \in 1 .. Len(k.stack)
    BY Expanding
  <1>2. fr \in FrameType /\ fr.object = Frame(t).object /\ fr.path = Frame(t).path
        /\ fr.todo = Frame(t).todo \ {f}
    BY <1>1 DEF FrameType
  <1> HIDE DEF fr
  <1>3. /\ st \in Seq(FrameType) /\ Len(st) = n
        /\ \A i \in 1 .. n : st[i] = IF i = n THEN fr ELSE k.stack[i]
    BY <1>1, <1>2, ExceptSeq
  <1>4. p = [k EXCEPT !.stack = st]
    BY DEF Passed, Frame, fr
  <1> HIDE DEF st
  <1>5. /\ p \in TaskType /\ p.pc = "expand" /\ p.object = k.object /\ p.entry = k.entry
        /\ p.visited = k.visited /\ p.stack = st
    BY <1>1, <1>3, <1>4 DEF TaskType
  <1>6. f \in DOMAIN References /\ Frame(t).path \in Seq(DOMAIN References)
    BY <1>1 DEF FrameType
  <1>7. k.entry.depth \in 0 .. 2 /\ n <= k.entry.depth
    BY <1>1 DEF Entry, IInv, StackInv, StackOf, Frame
  <1>8. Append(Frame(t).path, f) \in Seq(DOMAIN References) /\ Len(Append(Frame(t).path, f)) = n
    BY <1>1, <1>6, AppendProperties
  <1>9. Append(Frame(t).path, f) \in Path
    BY <1>1, <1>8, PathType
  <1> QED
    BY <1>1, <1>2, <1>3, <1>5, <1>6, <1>7, <1>8, <1>9 DEF Frame

(* An object the loop goes up to: the one target of the field. *)
LEMMA OneTarget ==
  ASSUME NEW t \in Threads, NEW f \in DOMAIN References, ~ Skipped(t, f)
  PROVE  \E p \in Objects : References[f].to = {p}
  <1>1. References[f].to \subseteq Objects /\ Cardinality(References[f].to) = 1
    BY Positions DEF Skipped
  <1>2. IsFiniteSet(References[f].to)
    BY <1>1, FS_Subset, CatalogAssumption
  <1>3. \E p : References[f].to = {p}
    BY <1>1, <1>2, FS_Singleton
  <1> QED
    BY <1>1, <1>3

(* The task k that filling the STRUCT of field f makes of q. *)
Filled(k, q, f, path, v) ==
  /\ k.entry.depth = q.entry.depth /\ k.entry.missed = q.entry.missed
  /\ k.entry.shows = q.entry.shows \union {[path |-> path, version |-> v]}
  /\ IF Len(path) = q.entry.depth THEN k.stack = q.stack /\ k.visited = q.visited
     ELSE \E p \in References[f].to :
            /\ k.visited = q.visited \union {p}
            /\ k.stack = Append(q.stack, [object |-> p, path |-> path, todo |-> FieldsOf(p)])

(* The STRUCT of a field is filled, and the recursion goes up unless the   *)
(* depth is reached.                                                       *)
LEMMA ExpandFieldTask ==
  ASSUME IInv, NEW t \in Threads, task[t].pc = "expand", NEW f \in Frame(t).todo, ~ Skipped(t, f),
         NEW v \in Versions, refreshed_all <= v, ExpandField(t, f, v)
  PROVE  \E k \in TaskType : /\ task' = [task EXCEPT ![t] = k]
                             /\ k.pc = "expand" /\ k.object = task[t].object
                             /\ StackOf(k) /\ FreshOf(k)
                             /\ Filled(k, Passed(t, f), f, Append(Frame(t).path, f), v)
  <1> DEFINE p    == CHOOSE o \in References[f].to : TRUE
             path == Append(Frame(t).path, f)
             n    == Len(task[t].stack)
             show == [path |-> path, version |-> v]
             e    == [task[t].entry EXCEPT !.shows = @ \union {show}]
             rest == [Passed(t, f) EXCEPT !.entry.shows = @ \union {show}]
             push == [object |-> p, path |-> path, todo |-> FieldsOf(p)]
             up   == [rest EXCEPT !.visited = @ \union {p}, !.stack = Append(@, push)]
             k    == IF Len(path) = task[t].entry.depth THEN rest ELSE up
  <1>1. /\ Passed(t, f) \in TaskType /\ Passed(t, f).pc = "expand"
        /\ Passed(t, f).object = task[t].object /\ Passed(t, f).entry = task[t].entry
        /\ Len(Passed(t, f).stack) = n
        /\ \A i \in 1 .. n : Passed(t, f).stack[i].path = task[t].stack[i].path
        /\ n \in 1 .. 2 /\ n <= task[t].entry.depth /\ task[t].entry.depth \in 0 .. 2
        /\ f \in DOMAIN References
        /\ path \in Seq(DOMAIN References) /\ Len(path) = n /\ path \in Path
    BY PassedTask
  <1>2. p \in Objects /\ p \in References[f].to
    BY <1>1, OneTarget
  <1>3. /\ task[t].entry \in Entry
        /\ \A i \in 1 .. n : Len(task[t].stack[i].path) = i - 1
    BY Expanding DEF IInv, StackInv, StackOf
  <1>4. task' = [task EXCEPT ![t] = k]
    BY Zenon DEF ExpandField
  <1>5. /\ e \in Entry /\ e.version = task[t].entry.version /\ e.depth = task[t].entry.depth
        /\ e.shows = task[t].entry.shows \union {show} /\ e.missed = task[t].entry.missed
    <2>1. show \in [ path : Path, version : 0 .. MaxChanges ]
      BY <1>1 DEF Versions
    <2> HIDE DEF show
    <2> QED
      BY <1>3, <2>1 DEF Entry
  <1>6. show.version = v
    OBVIOUS
  <1>7. push \in FrameType /\ push.path = path
    BY <1>1, <1>2 DEF FrameType, FieldsOf
  <1>8. rest = [Passed(t, f) EXCEPT !.entry = e]
    BY <1>1 DEF TaskType
  <1> HIDE DEF e, push, p, path, show, rest
  <1>9. /\ rest \in TaskType /\ rest.pc = "expand" /\ rest.object = task[t].object
        /\ rest.entry = e /\ rest.stack = Passed(t, f).stack /\ rest.visited = Passed(t, f).visited
    BY <1>1, <1>5, <1>8 DEF TaskType
  <1>10. /\ rest.stack \in Seq(FrameType) /\ Append(rest.stack, push) \in Seq(FrameType)
         /\ Len(Append(rest.stack, push)) = n + 1
         /\ \A i \in 1 .. n : Append(rest.stack, push)[i] = rest.stack[i]
         /\ Append(rest.stack, push)[n + 1] = push
    <2>1. rest.stack \in Seq(FrameType) /\ Len(rest.stack) = n
      BY <1>1, <1>9 DEF TaskType
    <2> QED
      BY <1>7, <2>1, AppendProperties
  <1>11. /\ up \in TaskType /\ up.pc = "expand" /\ up.object = task[t].object
         /\ up.entry = e /\ up.stack = Append(rest.stack, push)
         /\ up.visited = rest.visited \union {p}
    BY <1>2, <1>9, <1>10 DEF TaskType
  <1> HIDE DEF up
  <1>12. FreshOf(rest) /\ FreshOf(up)
    <2>1. refreshed[task[t].object] <= e.version /\ \A s \in e.shows : refreshed_all <= s.version
      BY <1>5, <1>6 DEF IInv, FreshInv, FreshOf
    <2> QED
      BY <1>9, <1>11, <2>1 DEF FreshOf
  <1>13. StackOf(rest)
    BY <1>1, <1>3, <1>5, <1>9 DEF StackOf
  <1>14. n # task[t].entry.depth => StackOf(up)
    <2> SUFFICES ASSUME n # task[t].entry.depth PROVE StackOf(up)
      OBVIOUS
    <2>1. n + 1 \in 1 .. 2 /\ n + 1 <= task[t].entry.depth
      BY <1>1
    <2>2. ASSUME NEW i \in 1 .. n + 1 PROVE Len(up.stack[i].path) = i - 1
      <3>1. CASE i <= n
        <4>1. i \in 1 .. n
          BY <1>1, <3>1
        <4>2. up.stack[i] = Passed(t, f).stack[i]
          BY <1>9, <1>10, <1>11, <4>1
        <4>3. up.stack[i].path = task[t].stack[i].path
          BY <1>1, <4>1, <4>2, Zenon
        <4> QED
          BY <1>3, <4>1, <4>3
      <3>2. CASE i = n + 1
        BY <1>1, <1>7, <1>10, <1>11, <3>2
      <3> QED
        BY <1>1, <3>1, <3>2
    <2> QED
      BY <1>5, <1>10, <1>11, <2>1, <2>2 DEF StackOf
  <1>15. k \in TaskType /\ k.pc = "expand" /\ k.object = task[t].object /\ StackOf(k) /\ FreshOf(k)
    BY <1>1, <1>9, <1>11, <1>12, <1>13, <1>14
  <1>16. Filled(k, Passed(t, f), f, path, v)
    <2>1. CASE Len(path) = task[t].entry.depth
      BY <1>1, <1>5, <1>9, <2>1, Zenon DEF Filled, show
    <2>2. CASE Len(path) # task[t].entry.depth
      BY <1>1, <1>2, <1>5, <1>9, <1>11, <2>2, Zenon DEF Filled, show, push
    <2> QED
      BY <2>1, <2>2
  <1> QED
    BY <1>4, <1>15, <1>16 DEF path

(* The steps of the loop that ask nothing of the org. *)
LEMMA ExpandLocalStep ==
  ASSUME IInv, NEW t \in Threads, task[t].pc = "expand", NEW k \in TaskType,
         task' = [task EXCEPT ![t] = k], k.pc = "expand", k.object = task[t].object,
         StackOf(k), FreshOf(k), UNCHANGED <<version, lock, cacheVars, histVars>>
  PROVE  IInv'
  <1>1. lock = t /\ tables[task[t].object] = {}
    BY Expanding
  <1> QED
    BY <1>1, LocalStep DEF Locked

(* One round of the loop: the field is skipped, its parent is in the       *)
(* cache, is described, or cannot be.                                      *)
LEMMA BuildRelationshipFieldStep ==
  ASSUME IInv, NEW t \in Threads, BuildRelationshipField(t) PROVE IInv'
  <1>1. task[t].pc = "expand"
    BY DEF BuildRelationshipField, At
  <1>2. PICK f \in Frame(t).todo :
          SkipField(t, f) \/ ExpandCached(t, f) \/ ExpandDescribed(t, f) \/ ExpandMissed(t, f)
    BY DEF BuildRelationshipField
  <1>3. UNCHANGED <<version, lock, tables, listing, loaded, json, refreshed, refreshed_all>>
    BY DEF BuildRelationshipField
  <1> DEFINE q == Passed(t, f)
             n == Len(task[t].stack)
             path == Append(Frame(t).path, f)
  <1>4. /\ q \in TaskType /\ q.pc = "expand" /\ q.object = task[t].object /\ q.entry = task[t].entry
        /\ Len(q.stack) = n
        /\ \A i \in 1 .. n : q.stack[i].path = task[t].stack[i].path
        /\ n \in 1 .. 2 /\ n <= task[t].entry.depth /\ path \in Path /\ f \in DOMAIN References
    BY <1>1, PassedTask
  <1>5. /\ \A i \in 1 .. n : Len(task[t].stack[i].path) = i - 1
        /\ task[t].entry \in Entry
    BY <1>1, Expanding DEF IInv, StackInv, StackOf
  <1>6. FreshOf(task[t])
    BY DEF IInv, FreshInv
  <1>7. CASE SkipField(t, f)
    <2>1. task' = [task EXCEPT ![t] = q] /\ UNCHANGED <<version, lock, cacheVars, histVars>>
      BY <1>3, <1>7 DEF SkipField, cacheVars, histVars
    <2>2. StackOf(q) /\ FreshOf(q)
      BY <1>1, <1>4, <1>5, <1>6 DEF StackOf, FreshOf
    <2> QED
      BY <1>1, <1>4, <2>1, <2>2, ExpandLocalStep
  <1>8. CASE ExpandMissed(t, f)
    <2> DEFINE e == [task[t].entry EXCEPT !.missed = @ \union {path}]
               k == [q EXCEPT !.entry = e]
    <2>1. /\ e \in Entry /\ e.version = task[t].entry.version /\ e.depth = task[t].entry.depth
          /\ e.shows = task[t].entry.shows
      BY <1>4, <1>5 DEF Entry
    <2>2. k = [q EXCEPT !.entry.missed = @ \union {path}]
      BY <1>4 DEF TaskType
    <2>3. task' = [task EXCEPT ![t] = k] /\ UNCHANGED <<version, lock, cacheVars, histVars>>
      BY <1>3, <1>8, <2>2 DEF ExpandMissed, cacheVars, histVars
    <2> HIDE DEF q, e
    <2>4. k \in TaskType /\ k.pc = "expand" /\ k.object = task[t].object /\ k.entry = e
          /\ k.stack = q.stack
      BY <1>4, <2>1 DEF TaskType
    <2> HIDE DEF k
    <2>5. StackOf(k) /\ FreshOf(k)
      BY <1>1, <1>4, <1>5, <1>6, <2>1, <2>4 DEF StackOf, FreshOf
    <2> QED
      BY <1>1, <2>3, <2>4, <2>5, ExpandLocalStep
  <1>9. CASE ExpandCached(t, f)
    <2>1. PICK p \in References[f].to : \E v \in parents[p] : ExpandField(t, f, v)
      BY <1>9 DEF ExpandCached
    <2>2. PICK v \in parents[p] : ExpandField(t, f, v)
      BY <2>1
    <2>3. p \in Objects
      BY <1>4, <2>1, Positions
    <2>4. /\ v \in Versions /\ v >= refreshed[p] /\ refreshed_all <= refreshed[p]
          /\ refreshed[p] \in Int /\ refreshed_all \in Int
      BY <2>2, <2>3 DEF IInv, ShapeInv, NothingStale, FreshInv, Versions
    <2>5. refreshed_all <= v
      BY <2>4 DEF Versions
    <2>6. PICK k \in TaskType : /\ task' = [task EXCEPT ![t] = k]
                                /\ k.pc = "expand" /\ k.object = task[t].object
                                /\ StackOf(k) /\ FreshOf(k)
      BY <1>1, <1>9, <2>2, <2>4, <2>5, ExpandFieldTask DEF ExpandCached
    <2>7. UNCHANGED <<version, lock, cacheVars, histVars>>
      BY <1>3, <1>9 DEF ExpandCached, cacheVars, histVars
    <2> QED
      BY <1>1, <2>6, <2>7, ExpandLocalStep
  <1>10. CASE ExpandDescribed(t, f)
    <2>1. PICK p \in References[f].to :
            /\ parents[p] = {}
            /\ parents' = [parents EXCEPT ![p] = {version}]
            /\ described' = [described EXCEPT ![p].parent = @ + 1]
            /\ ExpandField(t, f, version)
      BY <1>10 DEF ExpandDescribed
    <2>2. p \in Objects
      BY <1>4, <2>1, Positions
    <2>3. /\ version \in Versions /\ refreshed[p] <= version /\ refreshed_all <= refreshed[p]
          /\ refreshed[p] \in Int /\ refreshed_all \in Int /\ version \in Int
      BY <2>2 DEF IInv, ShapeInv, FreshInv, Versions
    <2>4. refreshed_all <= version
      BY <2>3
    <2>5. PICK k \in TaskType : /\ task' = [task EXCEPT ![t] = k]
                                /\ k.pc = "expand" /\ k.object = task[t].object
                                /\ StackOf(k) /\ FreshOf(k)
      BY <1>1, <1>10, <2>1, <2>3, <2>4, ExpandFieldTask DEF ExpandDescribed
    <2>6. /\ task' \in [Threads -> TaskType] /\ task'[t] = k
          /\ \A u \in Threads \ {t} : task'[u] = task[u]
          /\ LockInv' /\ StackInv' /\ FreshInv'
      <3>1. lock = t /\ lock \in Threads \cup {None}
        BY <1>1, Expanding
      <3> QED
        BY <1>3, <2>5, <3>1, TaskChange DEF Locked
    <2>7. /\ parents' \in [Objects -> SUBSET Versions] /\ parents'[p] = {version}
          /\ \A x \in Objects \ {p} : parents'[x] = parents[x]
      BY <2>1, <2>2, <2>3 DEF IInv, ShapeInv
    <2>8. /\ described' \in [Objects -> [ table : Nat, parent : Nat ]]
          /\ described'[p].parent = described[p].parent + 1
          /\ described'[p].table = described[p].table
          /\ \A x \in Objects \ {p} : described'[x] = described[x]
      BY <2>1, <2>2 DEF IInv, ShapeInv
    <2>9. ShapeInv'
      <3>1. \A x \in Objects : Single(parents'[x])
        BY <2>7 DEF IInv, ShapeInv, Single
      <3> QED
        BY <1>3, <2>6, <2>7, <2>8, <3>1 DEF IInv, ShapeInv
    <2>10. CountInv'
      <3>1. ASSUME NEW x \in Objects PROVE CountOf(x)'
        <4>1. CountOf(x)
          BY DEF IInv, CountInv
        <4>2. \A u \in Threads : task[u].pc = "expand"
                => task'[u].pc = "expand" /\ task'[u].object = task[u].object
          BY <2>5, <2>6
        <4>3. CASE x = p
          <5>1. described[p].parent = 0
            BY <2>1, <4>1, <4>3 DEF CountOf
          <5> QED
            BY <1>3, <2>7, <2>8, <4>1, <4>2, <4>3, <5>1 DEF CountOf
        <4>4. CASE x # p
          BY <1>3, <2>7, <2>8, <4>1, <4>2, <4>4 DEF CountOf
        <4> QED
          BY <4>3, <4>4
      <3>2. ASSUME NEW u \in Threads, task'[u].pc \in {"tooling", "describe", "expand"}
            PROVE  tables'[task'[u].object] = {}
        BY <1>1, <1>3, <2>5, <2>6, <3>2 DEF IInv, CountInv
      <3> QED
        BY <3>1, <3>2 DEF CountInv
    <2>11. NothingStale'
      <3>1. ASSUME NEW x \in Objects, NEW v \in parents'[x] PROVE v >= refreshed[x]
        BY <2>3, <2>7 DEF IInv, NothingStale
      <3> QED
        BY <1>3, <3>1 DEF IInv, NothingStale
    <2> QED
      BY <2>6, <2>9, <2>10, <2>11 DEF IInv
  <1> QED
    BY <1>2, <1>7, <1>8, <1>9, <1>10

(* What is left of the stack of a thread that goes back to the child. *)
LEMMA BelowTask ==
  ASSUME IInv, NEW t \in Threads, task[t].pc = "expand", Len(task[t].stack) > 1
  PROVE  /\ Len(task[t].stack) = 2 /\ task[t].entry.depth = 2
         /\ Below(t) \in Seq(FrameType) /\ Len(Below(t)) = 1 /\ Below(t)[1] = task[t].stack[1]
  <1> DEFINE n == Len(task[t].stack)
             d == task[t].entry.depth
  <1>0. task[t].stack \in Seq(FrameType) /\ n \in 1 .. 2 /\ task[t].entry \in Entry
    BY Expanding, Zenon
  <1>1. task[t].stack \in Seq(FrameType) /\ n = 2
    <2>1. \A m \in 1 .. 2 : m > 1 => m = 2
      OBVIOUS
    <2> QED
      BY <1>0, <2>1, Zenon
  <1>2. d = 2
    <2>1. d \in 0 .. 2
      BY <1>0 DEF Entry
    <2>2. n <= d \/ n = 1
      BY Zenon DEF IInv, StackInv, StackOf
    <2> QED
      BY <1>1, <2>1, <2>2
  <1>3. \A i \in 1 .. 1 : task[t].stack[i] \in FrameType
    BY <1>1, ElementOfSeq
  <1>4. /\ SubSeq(task[t].stack, 1, 1) \in Seq(FrameType) /\ Len(SubSeq(task[t].stack, 1, 1)) = 1
        /\ SubSeq(task[t].stack, 1, 1)[1] = task[t].stack[1]
    BY <1>3, SubSeqProperties
  <1> QED
    BY <1>1, <1>2, <1>4 DEF Below

(* Back to the child's fields. *)
LEMMA ReturnFromParentStep == ASSUME IInv, NEW t \in Threads, ReturnFromParent(t) PROVE IInv'
  <1> DEFINE k == [task[t] EXCEPT !.stack = Below(t), !.visited = @ \ {Frame(t).object}]
  <1>1. task[t].pc = "expand" /\ Len(task[t].stack) > 1
        /\ UNCHANGED <<version, lock, cacheVars, histVars>>
    BY DEF ReturnFromParent, At
  <1>2. /\ Len(task[t].stack) = 2 /\ task[t].entry.depth = 2
        /\ Below(t) \in Seq(FrameType) /\ Len(Below(t)) = 1 /\ Below(t)[1] = task[t].stack[1]
    BY <1>1, BelowTask
  <1>3. task[t] \in TaskType
    BY <1>1, Expanding
  <1>4. /\ k \in TaskType /\ k.pc = "expand" /\ k.object = task[t].object
        /\ k.entry = task[t].entry /\ k.stack = Below(t)
    BY <1>1, <1>2, <1>3 DEF TaskType
  <1>5. task' = [task EXCEPT ![t] = k]
    BY <1>3 DEF ReturnFromParent, TaskType, IInv, ShapeInv
  <1> HIDE DEF k
  <1>6. StackOf(k)
    <2>1. Len(task[t].stack[1].path) = 0
      BY <1>1, <1>2 DEF IInv, StackInv, StackOf
    <2>2. 1 <= task[t].entry.depth /\ 1 \in 1 .. 2
      BY <1>2
    <2>3. \A i \in 1 .. 1 : i = 1 /\ 0 = i - 1
      OBVIOUS
    <2> QED
      BY <1>2, <1>4, <2>1, <2>2, <2>3, Zenon DEF StackOf
  <1>7. FreshOf(k)
    BY <1>1, <1>4 DEF IInv, FreshInv, FreshOf
  <1> QED
    BY <1>1, <1>4, <1>5, <1>6, <1>7, ExpandLocalStep

(* The entry is cached; it was on its way, and now it is there. *)
LEMMA FinishLookupStep == ASSUME IInv, NEW t \in Threads, FinishLookup(t) PROVE IInv'
  <1> USE DEF histVars
  <1> DEFINE o == task[t].object
             e == task[t].entry
  <1>1. task[t].pc = "expand" /\ UNCHANGED <<version, listing, loaded, parents, json, histVars>>
        /\ task' = [task EXCEPT ![t] = Idle] /\ lock' = IF lock = t THEN None ELSE lock
    BY DEF FinishLookup, At, Release
  <1>2. lock = t /\ o \in Objects /\ e \in Entry /\ tables[o] = {}
    BY <1>1, Expanding
  <1>3. tables' = [tables EXCEPT ![o] = {e}]
    BY <1>2 DEF FinishLookup, BuildAndCacheEntry
  <1>4. refreshed[o] <= e.version /\ \A s \in e.shows : refreshed_all <= s.version
    BY <1>1 DEF IInv, FreshInv, FreshOf
  <1> HIDE DEF o, e
  <1>5. StackOf(Idle) /\ FreshOf(Idle)
    BY IdleType DEF StackOf, FreshOf
  <1>6. /\ task' \in [Threads -> TaskType] /\ task'[t] = Idle
        /\ \A u \in Threads \ {t} : task'[u] = task[u]
        /\ LockInv' /\ StackInv' /\ FreshInv'
    BY <1>1, <1>2, <1>5, IdleType, TaskChange, CatalogAssumption DEF Locked
  <1>7. /\ tables' \in [Objects -> SUBSET Entry] /\ tables'[o] = {e}
        /\ \A x \in Objects \ {o} : tables'[x] = tables[x]
    BY <1>2, <1>3 DEF IInv, ShapeInv
  <1>8. ShapeInv'
    <2>1. \A x \in Objects : Single(tables'[x])
      BY <1>7 DEF IInv, ShapeInv, Single
    <2> QED
      BY <1>1, <1>2, <1>6, <1>7, <2>1 DEF IInv, ShapeInv
  <1>9. \A u \in Threads \ {t} : task[u].pc \notin Locked
    <2> SUFFICES ASSUME NEW u \in Threads \ {t}, task[u].pc \in Locked PROVE FALSE
      OBVIOUS
    <2>1. task[t].pc \in Locked
      BY <1>1 DEF Locked
    <2> QED
      BY <2>1, Alone
  <1>10. CountInv'
    <2>1. ASSUME NEW x \in Objects PROVE CountOf(x)'
      <3>1. CountOf(x)
        BY DEF IInv, CountInv
      <3>2. CASE x = o
        BY <1>1, <1>7, <3>1, <3>2 DEF CountOf
      <3>3. CASE x # o
        <4>1. \A u \in Threads : ~ (task[u].pc = "expand" /\ task[u].object = x)
          BY <1>9, <3>3 DEF o, Locked
        <4> QED
          BY <1>1, <1>7, <3>1, <3>3, <4>1 DEF CountOf
      <3> QED
        BY <3>2, <3>3
    <2>2. ASSUME NEW u \in Threads PROVE task'[u].pc \notin {"tooling", "describe", "expand"}
      BY <1>6, <1>9, IdleType DEF Locked
    <2> QED
      BY <2>1, <2>2 DEF CountInv
  <1>11. NothingStale'
    <2>1. ASSUME NEW x \in Objects, NEW y \in tables'[x]
          PROVE  y.version >= refreshed[x] /\ \A s \in y.shows : s.version >= refreshed_all
      <3>1. CASE x = o
        <4>1. /\ refreshed[o] \in Int /\ refreshed_all \in Int /\ e.version \in Int
              /\ \A s \in e.shows : s.version \in Int
          BY <1>2 DEF IInv, ShapeInv, Entry, Versions
        <4> QED
          BY <1>4, <1>7, <3>1, <4>1
      <3>2. CASE x # o
        BY <1>7, <3>2 DEF IInv, NothingStale
      <3> QED
        BY <3>1, <3>2
    <2> QED
      BY <1>1, <2>1 DEF IInv, NothingStale
  <1> QED
    BY <1>6, <1>8, <1>10, <1>11 DEF IInv

(* Nothing happens. *)
LEMMA StutterStep == IInv /\ UNCHANGED vars => IInv'
  BY DEF vars, cacheVars, histVars, IInv, ShapeInv, LockInv, StackInv, StackOf, FreshInv, FreshOf,
         CountInv, CountOf, NothingStale

(* Every step keeps the invariant. *)
LEMMA Inductive == IInv /\ [Next]_vars => IInv'
  <1> SUFFICES ASSUME IInv, [Next]_vars PROVE IInv'
    OBVIOUS
  <1>1. ASSUME NEW t \in Threads, Continue(t) PROVE IInv'
    BY <1>1, ToolingDescribeStep, DescribeStep, BuildRelationshipFieldStep, ReturnFromParentStep,
       FinishLookupStep, EnsureObjectListLoadedStep, DescribeJsonStep, DescribeJsonCachedStep,
       RequestFailsStep, Zenon
       DEF Continue
  <1> QED
    BY <1>1, SchemaChangeStep, LookupMissStep, ListObjectsStep, JsonMissStep, RefreshAllStep,
       RefreshObjectStep, StutterStep, Zenon
       DEF Next

(* The invariant holds in every state of every behaviour. *)
LEMMA Invariant == Spec => []IInv
  BY IInit, Inductive, PTL DEF Spec

-----------------------------------------------------------------------------
(* The theorems.                                                           *)

(* Each cache of the schema holds at most one answer for an object, the    *)
(* recursion of BuildRelationshipFields is at most two levels deep, and    *)
(* lock_ is held exactly by a lookup or listing.                           *)
THEOREM CatalogTypeOK == Spec => []TypeOK
  <1>1. IInv => TypeOK
    <2> SUFFICES ASSUME IInv PROVE TypeOK
      OBVIOUS
    <2>1. ASSUME NEW o \in Objects
          PROVE  /\ Cardinality(tables[o]) <= 1 /\ tables[o] \subseteq Entry
                 /\ Cardinality(parents[o]) <= 1 /\ parents[o] \subseteq 0 .. MaxChanges
                 /\ Cardinality(json[o]) <= 1 /\ json[o] \subseteq 0 .. MaxChanges
      <3>1. Single(tables[o]) /\ Single(parents[o]) /\ Single(json[o])
        BY DEF IInv, ShapeInv
      <3>2. /\ Cardinality(tables[o]) <= 1 /\ Cardinality(parents[o]) <= 1
            /\ Cardinality(json[o]) <= 1
        BY <3>1, SingleCardinality
      <3>3. /\ tables[o] \subseteq Entry /\ parents[o] \subseteq 0 .. MaxChanges
            /\ json[o] \subseteq 0 .. MaxChanges
        BY DEF IInv, ShapeInv, Versions
      <3> QED
        BY <3>2, <3>3
    <2>2. ASSUME NEW t \in Threads
          PROVE  /\ task[t].pc \in
                      {"idle", "tooling", "describe", "expand", "list", "json", "store"}
                 /\ task[t].object \in Objects
                 /\ task[t].entry \in Entry
                 /\ Len(task[t].stack) <= 2
                 /\ task[t].visited \subseteq Objects
                 /\ (lock = t) <=> task[t].pc \in {"tooling", "describe", "expand", "list"}
      <3>1. task[t] \in TaskType
        BY DEF IInv, ShapeInv
      <3>2. Len(task[t].stack) <= 2
        <4>1. CASE task[t].pc = "expand"
          <5>1. Len(task[t].stack) \in 1 .. 2
            BY <4>1, Expanding, Zenon
          <5>2. \A m \in 1 .. 2 : m <= 2
            OBVIOUS
          <5> QED
            BY <5>1, <5>2, Zenon
        <4>2. CASE task[t].pc # "expand"
          BY <4>2 DEF IInv, StackInv, StackOf
        <4> QED
          BY <4>1, <4>2
      <3> QED
        BY <3>1, <3>2 DEF TaskType, IInv, LockInv, Locked
    <2> QED
      BY <2>1, <2>2 DEF TypeOK, IInv, ShapeInv, Versions
  <1> QED
    BY <1>1, Invariant, PTL

(* salesforce_refresh_metadata() takes effect, whatever the other          *)
(* connections are doing at that moment: no table and no parent's describe *)
(* is older than the refresh that named it.                                *)
THEOREM RefreshTakesEffect == Spec => []NothingStale
  <1>1. IInv => NothingStale
    BY DEF IInv
  <1> QED
    BY <1>1, Invariant, PTL

(* Between two refreshes an object costs at most one describe as a table   *)
(* and one as a parent, for any number of connections: LookupEntry keeps   *)
(* lock_ while it asks the org.                                            *)
THEOREM ObjectsDescribedOnce == Spec => []DescribedOnce
  <1>1. IInv => DescribedOnce
    BY DEF IInv, CountInv, CountOf, DescribedOnce
  <1> QED
    BY <1>1, Invariant, PTL

-----------------------------------------------------------------------------
(***************************************************************************)
(* The recursion shows what the definition of ExpandablePaths says.  A     *)
(* path is one field or two, so the definition and the progress of the     *)
(* recursion are spelled out for each.                                     *)
(***************************************************************************)

(* Field f of object o may be expanded, and field g of its parent. *)
First(o, f) ==
  /\ References[f].rel # "" /\ ~ References[f].clash /\ Cardinality(References[f].to) = 1
  /\ o \notin References[f].to /\ References[f].from = o

Second(o, f, g) ==
  /\ First(o, f)
  /\ References[g].rel # "" /\ ~ References[g].clash /\ Cardinality(References[g].to) = 1
  /\ o \notin References[g].to /\ References[f].to = {References[g].from}
  /\ References[g].to # References[f].to

(* A parent that the entry shows. *)
Shown(e, p) == \E s \in e.shows : s.path = p

(* The paths that are still to come: the object's own fields, and those of *)
(* the parent that the recursion is in.                                    *)
ToCome1(k, f) == f \in k.stack[1].todo

ToCome2(k, f, g) ==
  \/ f \in k.stack[1].todo
  \/ Len(k.stack) = 2 /\ k.stack[2].path = << f >> /\ g \in k.stack[2].todo

(* An entry of object o shows what it may, less what was missed. *)
Exact(o, e) ==
  /\ \A f \in DOMAIN References :
       Shown(e, << f >>) <=> e.depth >= 1 /\ First(o, f) /\ << f >> \notin e.missed
  /\ \A f, g \in DOMAIN References :
       Shown(e, << f, g >>) <=> /\ e.depth >= 2 /\ Second(o, f, g)
                                /\ << f >> \notin e.missed /\ << f, g >> \notin e.missed

(* A lookup on its way there. *)
Partial(k) ==
  /\ \A f \in DOMAIN References :
       /\ Shown(k.entry, << f >>) <=> /\ k.entry.depth >= 1 /\ First(k.object, f)
                                      /\ << f >> \notin k.entry.missed /\ ~ ToCome1(k, f)
       /\ << f >> \in k.entry.missed => ~ ToCome1(k, f)
  /\ \A f, g \in DOMAIN References :
       /\ Shown(k.entry, << f, g >>) <=>
            /\ k.entry.depth >= 2 /\ Second(k.object, f, g)
            /\ << f >> \notin k.entry.missed /\ << f, g >> \notin k.entry.missed
            /\ ~ ToCome2(k, f, g)
       /\ << f, g >> \in k.entry.missed => ~ ToCome2(k, f, g)

(* Where it is: at the object, or at the parent behind field f of it. *)
AtParent(k, f) ==
  /\ k.stack[2].path = << f >> /\ f \notin k.stack[1].todo /\ First(k.object, f)
  /\ References[f].to = {k.stack[2].object} /\ << f >> \notin k.entry.missed
  /\ k.stack[2].todo \subseteq FieldsOf(k.stack[2].object)
  /\ k.visited = {k.object, k.stack[2].object}

Position(k) ==
  /\ k.stack[1].todo \subseteq FieldsOf(k.object)
  /\ Len(k.stack) = 1 => k.visited = {k.object}
  /\ Len(k.stack) = 2 => \E f \in DOMAIN References : AtParent(k, f)

(* The invariant of the recursion. *)
ExpandInv ==
  /\ \A o \in Objects : \A e \in tables[o] : Exact(o, e)
  /\ \A t \in Threads : task[t].pc = "expand" => Partial(task[t]) /\ Position(task[t])

(* A path is one field or two. *)
LEMMA PathCases ==
  ASSUME NEW p
  PROVE  p \in Path <=> \/ \E f \in DOMAIN References : p = << f >>
                        \/ \E f, g \in DOMAIN References : p = << f, g >>
  <1>1. ASSUME p \in Path
        PROVE  \/ \E f \in DOMAIN References : p = << f >>
               \/ \E f, g \in DOMAIN References : p = << f, g >>
    <2>1. PICK n \in 1 .. 2 : p \in [1 .. n -> DOMAIN References]
      BY <1>1 DEF Path
    <2>2. CASE n = 1
      <3>1. p[1] \in DOMAIN References /\ p = << p[1] >>
        BY <2>1, <2>2
      <3> QED
        BY <3>1
    <2>3. CASE n = 2
      <3>1. p[1] \in DOMAIN References /\ p[2] \in DOMAIN References /\ p = << p[1], p[2] >>
        BY <2>1, <2>3
      <3> QED
        BY <3>1
    <2> QED
      BY <2>2, <2>3
  <1>2. ASSUME NEW f \in DOMAIN References PROVE << f >> \in Path
    <2>1. << f >> \in [1 .. 1 -> DOMAIN References]
      OBVIOUS
    <2> QED
      BY <2>1 DEF Path
  <1>3. ASSUME NEW f \in DOMAIN References, NEW g \in DOMAIN References PROVE << f, g >> \in Path
    <2>1. << f, g >> \in [1 .. 2 -> DOMAIN References]
      OBVIOUS
    <2> QED
      BY <2>1 DEF Path
  <1> QED
    BY <1>1, <1>2, <1>3

(* ExpandablePaths by its definition. *)
LEMMA ExpandableMember ==
  ASSUME NEW o \in Objects, NEW d \in 0 .. 2, NEW p
  PROVE  p \in ExpandablePaths[o][d] <=> p \in Path /\ Len(p) <= d /\ Expandable(o, p)
  BY DEF ExpandablePaths, Depths

(* What ExpandablePaths says of a path of one field. *)
LEMMA ExpandableFirst ==
  ASSUME NEW o \in Objects, NEW d \in 0 .. 2, NEW f \in DOMAIN References
  PROVE  << f >> \in ExpandablePaths[o][d] <=> d >= 1 /\ First(o, f)
  <1> DEFINE p == << f >>
  <1>1. p \in Path /\ Len(p) = 1 /\ p[1] = f
    BY PathCases
  <1>2. p \in ExpandablePaths[o][d] <=> p \in Path /\ Len(p) <= d /\ Expandable(o, p)
    BY ExpandableMember
  <1> HIDE DEF p
  <1>3. Expandable(o, p) <=> First(o, f)
    <2>1. \A i : i \in 1 .. 1 <=> i = 1
      OBVIOUS
    <2>2. \A j : j \notin 1 .. 1 - 1
      OBVIOUS
    <2> QED
      BY <1>1, <2>1, <2>2, Zenon DEF Expandable, First
  <1> QED
    BY <1>1, <1>2, <1>3 DEF p

(* What it says of a path of two. *)
LEMMA ExpandableSecond ==
  ASSUME NEW o \in Objects, NEW d \in 0 .. 2,
         NEW f \in DOMAIN References, NEW g \in DOMAIN References
  PROVE  << f, g >> \in ExpandablePaths[o][d] <=> d >= 2 /\ Second(o, f, g)
  <1> DEFINE p == << f, g >>
             Step(i) == /\ References[p[i]].rel # "" /\ ~ References[p[i]].clash
                        /\ Cardinality(References[p[i]].to) = 1 /\ o \notin References[p[i]].to
                        /\ IF i = 1 THEN References[p[i]].from = o
                           ELSE References[p[i - 1]].to = {References[p[i]].from}
                        /\ \A j \in 1 .. i - 1 : References[p[i]].to # References[p[j]].to
  <1>1. p \in Path /\ Len(p) = 2 /\ p[1] = f /\ p[2] = g
    BY PathCases
  <1>2. p \in ExpandablePaths[o][d] <=> p \in Path /\ Len(p) <= d /\ Expandable(o, p)
    BY ExpandableMember
  <1>3. Expandable(o, p) <=> \A i \in 1 .. Len(p) : Step(i)
    BY Zenon DEF Expandable
  <1> HIDE DEF p
  <1>4. Step(1) <=> First(o, f)
    <2>1. \A j : j \notin 1 .. 1 - 1
      OBVIOUS
    <2> QED
      BY <1>1, <2>1, Zenon DEF First
  <1>5. First(o, f) /\ Step(2) <=> Second(o, f, g)
    <2>1. (\A j : j \in 1 .. 2 - 1 <=> j = 1) /\ 2 - 1 = 1 /\ 2 # 1
      OBVIOUS
    <2> QED
      BY <1>1, <2>1 DEF Second
  <1> HIDE DEF Step
  <1>6. Expandable(o, p) <=> Second(o, f, g)
    <2>1. \A i : i \in 1 .. 2 <=> i = 1 \/ i = 2
      OBVIOUS
    <2>2. Second(o, f, g) => First(o, f)
      BY DEF Second
    <2> QED
      BY <1>1, <1>3, <1>4, <1>5, <2>1, <2>2, Zenon
  <1> QED
    BY <1>1, <1>2, <1>6 DEF p

(* The paths before a path. *)
LEMMA Prefixes ==
  ASSUME NEW q \in Path, NEW f \in DOMAIN References, NEW g \in DOMAIN References
  PROVE  /\ IsPrefixOf(q, << f >>) <=> q = << f >>
         /\ IsPrefixOf(q, << f, g >>) <=> q = << f >> \/ q = << f, g >>
  <1> DEFINE D == DOMAIN References
  <1>1. << f >> \in Seq(D) /\ << f, g >> \in Seq(D) /\ Len(<< f >>) = 1 /\ Len(<< f, g >>) = 2
    OBVIOUS
  <1>2. SubSeq(<< f >>, 1, 1) = << f >> /\ SubSeq(<< f, g >>, 1, 2) = << f, g >>
    BY <1>1, SubSeqFull
  <1>3. SubSeq(<< f, g >>, 1, 1) = << f >>
    <2>1. \A i \in 1 .. 1 : << f, g >>[i] \in D
      OBVIOUS
    <2>2. /\ SubSeq(<< f, g >>, 1, 1) \in Seq(D) /\ Len(SubSeq(<< f, g >>, 1, 1)) = 1
          /\ SubSeq(<< f, g >>, 1, 1)[1] = << f, g >>[1]
      BY <2>1, SubSeqProperties
    <2>3. \A i \in 1 .. 1 : SubSeq(<< f, g >>, 1, 1)[i] = << f >>[i]
      BY <2>2
    <2> QED
      BY <1>1, <2>2, <2>3, SeqEqual
  <1>4. CASE \E x \in D : q = << x >>
    <2>1. PICK x \in D : q = << x >>
      BY <1>4
    <2>2. Len(q) = 1 /\ q # << f, g >> /\ 1 <= 1 /\ 1 <= 2
      BY <2>1
    <2> QED
      BY <1>1, <1>2, <1>3, <2>2 DEF IsPrefixOf
  <1>5. CASE \E x, y \in D : q = << x, y >>
    <2>1. PICK x \in D, y \in D : q = << x, y >>
      BY <1>5
    <2>2. Len(q) = 2 /\ q # << f >> /\ ~ (2 <= 1) /\ 2 <= 2
      BY <2>1
    <2> QED
      BY <1>1, <1>2, <2>2 DEF IsPrefixOf
  <1> QED
    BY <1>4, <1>5, PathCases

(* Exact is ExpansionExact for one entry. *)
LEMMA ExactMeans ==
  ASSUME NEW o \in Objects, NEW e \in Entry, Exact(o, e)
  PROVE  { s.path : s \in e.shows } =
           { p \in ExpandablePaths[o][e.depth] : ~ \E q \in e.missed : IsPrefixOf(q, p) }
  <1>1. /\ e.depth \in 0 .. 2 /\ \A s \in e.shows : s.path \in Path
        /\ \A q \in e.missed : q \in Path
    BY DEF Entry
  <1>2. \A p \in ExpandablePaths[o][e.depth] : p \in Path
    BY <1>1, ExpandableMember
  <1>3. ASSUME NEW p \in Path
        PROVE  Shown(e, p) <=> /\ p \in ExpandablePaths[o][e.depth]
                               /\ ~ \E q \in e.missed : IsPrefixOf(q, p)
    <2>1. ASSUME NEW f \in DOMAIN References, p = << f >>
          PROVE  Shown(e, p) <=> /\ p \in ExpandablePaths[o][e.depth]
                                 /\ ~ \E q \in e.missed : IsPrefixOf(q, p)
      <3>1. Shown(e, << f >>) <=> e.depth >= 1 /\ First(o, f) /\ << f >> \notin e.missed
        BY DEF Exact
      <3>2. << f >> \in ExpandablePaths[o][e.depth] <=> e.depth >= 1 /\ First(o, f)
        BY <1>1, ExpandableFirst
      <3>3. (\E q \in e.missed : IsPrefixOf(q, << f >>)) <=> << f >> \in e.missed
        BY <1>1, Prefixes
      <3> QED
        BY <2>1, <3>1, <3>2, <3>3
    <2>2. ASSUME NEW f \in DOMAIN References, NEW g \in DOMAIN References, p = << f, g >>
          PROVE  Shown(e, p) <=> /\ p \in ExpandablePaths[o][e.depth]
                                 /\ ~ \E q \in e.missed : IsPrefixOf(q, p)
      <3>1. Shown(e, << f, g >>) <=> /\ e.depth >= 2 /\ Second(o, f, g)
                                     /\ << f >> \notin e.missed /\ << f, g >> \notin e.missed
        BY DEF Exact
      <3>2. << f, g >> \in ExpandablePaths[o][e.depth] <=> e.depth >= 2 /\ Second(o, f, g)
        BY <1>1, ExpandableSecond
      <3>3. (\E q \in e.missed : IsPrefixOf(q, << f, g >>))
            <=> << f >> \in e.missed \/ << f, g >> \in e.missed
        BY <1>1, Prefixes
      <3> QED
        BY <2>2, <3>1, <3>2, <3>3
    <2> QED
      BY <2>1, <2>2, PathCases
  <1>4. \A p : p \in { s.path : s \in e.shows } <=> Shown(e, p)
    BY DEF Shown
  <1> QED
    BY <1>1, <1>2, <1>3, <1>4

(* Past a field of the object itself. *)
LEMMA AdvanceFirst ==
  ASSUME NEW k, NEW m, NEW f \in DOMAIN References, Partial(k), ToCome1(k, f),
         m.object = k.object, m.entry.depth = k.entry.depth, k.entry.depth >= 1,
         \A x \in DOMAIN References : ToCome1(m, x) <=> ToCome1(k, x) /\ x # f,
         \A x, y \in DOMAIN References : x # f => (ToCome2(m, x, y) <=> ToCome2(k, x, y)),
         \A y \in DOMAIN References :
           Second(k.object, f, y) /\ k.entry.depth >= 2 /\ << f >> \notin m.entry.missed
             => ToCome2(m, f, y),
         \A x \in DOMAIN References :
           Shown(m.entry, << x >>) <=>
             \/ Shown(k.entry, << x >>)
             \/ x = f /\ First(k.object, f) /\ << f >> \notin m.entry.missed,
         \A x, y \in DOMAIN References : Shown(m.entry, << x, y >>) <=> Shown(k.entry, << x, y >>),
         \A x \in DOMAIN References :
           x # f => (<< x >> \in m.entry.missed <=> << x >> \in k.entry.missed),
         \A x, y \in DOMAIN References :
           << x, y >> \in m.entry.missed <=> << x, y >> \in k.entry.missed
  PROVE  Partial(m)
  <1>1. ASSUME NEW x \in DOMAIN References
        PROVE  /\ Shown(m.entry, << x >>) <=>
                    /\ m.entry.depth >= 1 /\ First(m.object, x)
                    /\ << x >> \notin m.entry.missed /\ ~ ToCome1(m, x)
               /\ << x >> \in m.entry.missed => ~ ToCome1(m, x)
    <2>1. /\ Shown(k.entry, << x >>) <=>
               /\ k.entry.depth >= 1 /\ First(k.object, x)
               /\ << x >> \notin k.entry.missed /\ ~ ToCome1(k, x)
          /\ << x >> \in k.entry.missed => ~ ToCome1(k, x)
      BY Zenon DEF Partial
    <2>2. CASE x = f
      BY <2>1, <2>2, Zenon
    <2>3. CASE x # f
      BY <2>1, <2>3, Zenon
    <2> QED
      BY <2>2, <2>3
  <1>2. ASSUME NEW x \in DOMAIN References, NEW y \in DOMAIN References
        PROVE  /\ Shown(m.entry, << x, y >>) <=>
                    /\ m.entry.depth >= 2 /\ Second(m.object, x, y)
                    /\ << x >> \notin m.entry.missed /\ << x, y >> \notin m.entry.missed
                    /\ ~ ToCome2(m, x, y)
               /\ << x, y >> \in m.entry.missed => ~ ToCome2(m, x, y)
    <2>1. /\ Shown(k.entry, << x, y >>) <=>
               /\ k.entry.depth >= 2 /\ Second(k.object, x, y)
               /\ << x >> \notin k.entry.missed /\ << x, y >> \notin k.entry.missed
               /\ ~ ToCome2(k, x, y)
          /\ << x, y >> \in k.entry.missed => ~ ToCome2(k, x, y)
      BY Zenon DEF Partial
    <2>2. CASE x = f
      <3>1. ToCome2(k, f, y)
        BY DEF ToCome1, ToCome2
      <3> QED
        BY <2>1, <2>2, <3>1, Zenon
    <2>3. CASE x # f
      BY <2>1, <2>3, Zenon
    <2> QED
      BY <2>2, <2>3
  <1> QED
    BY <1>1, <1>2, Zenon DEF Partial

(* Task m is task k past field f of the parent behind field h. *)
PastSecond(k, m, h, f) ==
  /\ ToCome2(k, h, f) /\ << h >> \notin k.entry.missed
  /\ m.object = k.object /\ m.entry.depth = k.entry.depth /\ k.entry.depth >= 2
  /\ \A x \in DOMAIN References : ToCome1(m, x) <=> ToCome1(k, x)
  /\ \A x, y \in DOMAIN References :
       ToCome2(m, x, y) <=> ToCome2(k, x, y) /\ ~ (x = h /\ y = f)
  /\ \A x \in DOMAIN References : Shown(m.entry, << x >>) <=> Shown(k.entry, << x >>)
  /\ \A x, y \in DOMAIN References :
       Shown(m.entry, << x, y >>) <=>
         \/ Shown(k.entry, << x, y >>)
         \/ x = h /\ y = f /\ Second(k.object, h, f) /\ << h, f >> \notin m.entry.missed
  /\ \A x \in DOMAIN References : << x >> \in m.entry.missed <=> << x >> \in k.entry.missed
  /\ \A x, y \in DOMAIN References :
       ~ (x = h /\ y = f) => (<< x, y >> \in m.entry.missed <=> << x, y >> \in k.entry.missed)

(* It is still on its way. *)
LEMMA AdvanceSecond ==
  ASSUME NEW k, NEW m, NEW h \in DOMAIN References, NEW f \in DOMAIN References, Partial(k),
         PastSecond(k, m, h, f)
  PROVE  Partial(m)
  <1> USE DEF PastSecond
  <1>1. ASSUME NEW x \in DOMAIN References
        PROVE  /\ Shown(m.entry, << x >>) <=>
                    /\ m.entry.depth >= 1 /\ First(m.object, x)
                    /\ << x >> \notin m.entry.missed /\ ~ ToCome1(m, x)
               /\ << x >> \in m.entry.missed => ~ ToCome1(m, x)
    BY Zenon DEF Partial
  <1>2. ASSUME NEW x \in DOMAIN References, NEW y \in DOMAIN References
        PROVE  /\ Shown(m.entry, << x, y >>) <=>
                    /\ m.entry.depth >= 2 /\ Second(m.object, x, y)
                    /\ << x >> \notin m.entry.missed /\ << x, y >> \notin m.entry.missed
                    /\ ~ ToCome2(m, x, y)
               /\ << x, y >> \in m.entry.missed => ~ ToCome2(m, x, y)
    <2>1. /\ Shown(k.entry, << x, y >>) <=>
               /\ k.entry.depth >= 2 /\ Second(k.object, x, y)
               /\ << x >> \notin k.entry.missed /\ << x, y >> \notin k.entry.missed
               /\ ~ ToCome2(k, x, y)
          /\ << x, y >> \in k.entry.missed => ~ ToCome2(k, x, y)
      BY Zenon DEF Partial
    <2>2. CASE x = h /\ y = f
      BY <2>1, <2>2, Zenon
    <2>3. CASE ~ (x = h /\ y = f)
      BY <2>1, <2>3, Zenon
    <2> QED
      BY <2>2, <2>3
  <1> QED
    BY <1>1, <1>2, Zenon DEF Partial

(* The one object that a field with one target refers to. *)
LEMMA TargetOf ==
  ASSUME NEW f \in DOMAIN References, Cardinality(References[f].to) = 1
  PROVE  \E p \in Objects : References[f].to = {p}
  <1>1. References[f].to \subseteq Objects
    BY Positions
  <1>2. IsFiniteSet(References[f].to)
    BY <1>1, FS_Subset, CatalogAssumption
  <1>3. \E p : References[f].to = {p}
    BY <1>2, FS_Singleton
  <1> QED
    BY <1>1, <1>3

(* At the object itself the loop skips what First leaves out. *)
LEMMA SkippedFirst ==
  ASSUME NEW t \in Threads, NEW f \in DOMAIN References, f \in FieldsOf(task[t].object),
         task[t].visited = {task[t].object}
  PROVE  ~ Skipped(t, f) <=> First(task[t].object, f)
  <1>1. CASE Cardinality(References[f].to) = 1
    <2>1. PICK p \in Objects : References[f].to = {p}
      BY <1>1, TargetOf
    <2>2. References[f].to \subseteq task[t].visited <=> task[t].object \in References[f].to
      BY <2>1
    <2> QED
      BY <2>2 DEF Skipped, First, FieldsOf
  <1>2. CASE Cardinality(References[f].to) # 1
    BY <1>2 DEF Skipped, First
  <1> QED
    BY <1>1, <1>2

(* At the parent behind field h it skips what Second leaves out. *)
LEMMA SkippedSecond ==
  ASSUME NEW t \in Threads, NEW h \in DOMAIN References, NEW f \in DOMAIN References,
         AtParent(task[t], h), f \in task[t].stack[2].todo
  PROVE  ~ Skipped(t, f) <=> Second(task[t].object, h, f)
  <1> DEFINE o == task[t].object
             p == task[t].stack[2].object
  <1>1. /\ First(o, h) /\ References[h].to = {p} /\ task[t].visited = {o, p}
        /\ References[f].from = p
    BY DEF AtParent, FieldsOf
  <1>2. CASE Cardinality(References[f].to) = 1
    <2>1. PICK x \in Objects : References[f].to = {x}
      BY <1>2, TargetOf
    <2>2. References[f].to \subseteq task[t].visited <=> x = o \/ x = p
      BY <1>1, <2>1
    <2>3. o \in References[f].to <=> x = o
      BY <2>1
    <2>4. References[f].to = References[h].to <=> x = p
      BY <1>1, <2>1
    <2> QED
      BY <1>1, <2>2, <2>3, <2>4 DEF Skipped, Second
  <1>3. CASE Cardinality(References[f].to) # 1
    BY <1>3 DEF Skipped, Second
  <1> QED
    BY <1>2, <1>3

(* One round of the loop makes task k of the task of t: field f is skipped *)
(* or missed, or its STRUCT is filled.                                     *)
Round(k, t, f) ==
  LET q    == Passed(t, f)
      path == Append(Frame(t).path, f)
  IN  \/ /\ Skipped(t, f)
         /\ k.entry = q.entry /\ k.stack = q.stack /\ k.visited = q.visited
      \/ /\ ~ Skipped(t, f)
         /\ k.entry.depth = q.entry.depth /\ k.entry.shows = q.entry.shows
         /\ k.entry.missed = q.entry.missed \union {path}
         /\ k.stack = q.stack /\ k.visited = q.visited
      \/ /\ ~ Skipped(t, f)
         /\ \E v : Filled(k, q, f, path, v)

(* Every round is one of these. *)
LEMMA RoundTask ==
  ASSUME IInv, NEW t \in Threads, BuildRelationshipField(t)
  PROVE  \E f \in Frame(t).todo : \E k \in TaskType :
           /\ task' = [task EXCEPT ![t] = k]
           /\ k.pc = "expand" /\ k.object = task[t].object /\ Round(k, t, f)
  <1>1. task[t].pc = "expand"
    BY DEF BuildRelationshipField, At
  <1>2. PICK f \in Frame(t).todo :
          SkipField(t, f) \/ ExpandCached(t, f) \/ ExpandDescribed(t, f) \/ ExpandMissed(t, f)
    BY DEF BuildRelationshipField
  <1> DEFINE q    == Passed(t, f)
             path == Append(Frame(t).path, f)
             Goal == \E k \in TaskType :
                       /\ task' = [task EXCEPT ![t] = k]
                       /\ k.pc = "expand" /\ k.object = task[t].object /\ Round(k, t, f)
  <1> SUFFICES Goal
    OBVIOUS
  <1>3. /\ q \in TaskType /\ q.pc = "expand" /\ q.object = task[t].object /\ q.entry = task[t].entry
        /\ path \in Path /\ f \in DOMAIN References
    BY <1>1, PassedTask
  <1>4. task[t].entry \in Entry
    BY <1>1, Expanding
  <1>5. CASE SkipField(t, f)
    BY <1>3, <1>5, Zenon DEF SkipField, Round
  <1>6. CASE ExpandMissed(t, f)
    <2> DEFINE e == [task[t].entry EXCEPT !.missed = @ \union {path}]
               k == [q EXCEPT !.entry = e]
    <2>1. /\ e \in Entry /\ e.depth = task[t].entry.depth /\ e.shows = task[t].entry.shows
          /\ e.missed = task[t].entry.missed \union {path}
      BY <1>3, <1>4 DEF Entry
    <2>2. k = [q EXCEPT !.entry.missed = @ \union {path}]
      BY <1>3 DEF TaskType
    <2>3. task' = [task EXCEPT ![t] = k]
      BY <1>6, <2>2 DEF ExpandMissed
    <2> HIDE DEF e, path
    <2>4. /\ k \in TaskType /\ k.pc = "expand" /\ k.object = task[t].object /\ k.entry = e
          /\ k.stack = q.stack /\ k.visited = q.visited
      BY <1>3, <2>1 DEF TaskType
    <2> HIDE DEF k
    <2>5. Round(k, t, f)
      BY <1>3, <1>6, <2>1, <2>4 DEF ExpandMissed, Round, path
    <2> QED
      BY <2>3, <2>4, <2>5
  <1>7. ASSUME NEW v \in Versions, refreshed_all <= v, ~ Skipped(t, f), ExpandField(t, f, v)
        PROVE  Goal
    <2>1. PICK k \in TaskType : /\ task' = [task EXCEPT ![t] = k]
                                /\ k.pc = "expand" /\ k.object = task[t].object
                                /\ Filled(k, q, f, path, v)
      BY <1>1, <1>7, ExpandFieldTask
    <2>2. Round(k, t, f)
      BY <1>7, <2>1, Zenon DEF Round
    <2> QED
      BY <2>1, <2>2
  <1> HIDE DEF Goal
  <1>8. /\ \A p \in Objects : parents[p] \subseteq Versions
        /\ \A p \in Objects : \A v \in parents[p] : refreshed_all <= v
        /\ version \in Versions /\ refreshed_all <= version
    <2>1. /\ parents \in [Objects -> SUBSET Versions] /\ refreshed \in [Objects -> Versions]
          /\ refreshed_all \in Versions /\ version \in Versions
      BY DEF IInv, ShapeInv
    <2>2. /\ \A p \in Objects : refreshed_all <= refreshed[p] /\ refreshed[p] <= version
          /\ \A p \in Objects : \A v \in parents[p] : v >= refreshed[p]
      BY DEF IInv, FreshInv, NothingStale
    <2>3. \E p : p \in Objects
      BY CatalogAssumption
    <2> QED
      BY <2>1, <2>2, <2>3, CatalogAssumption DEF Versions
  <1>9. References[f].to \subseteq Objects
    BY <1>3, Positions
  <1>10. CASE ExpandCached(t, f)
    <2>1. PICK p \in References[f].to : \E v \in parents[p] : ExpandField(t, f, v)
      BY <1>10 DEF ExpandCached
    <2>2. PICK v \in parents[p] : ExpandField(t, f, v)
      BY <2>1
    <2>3. v \in Versions /\ refreshed_all <= v
      BY <1>8, <1>9
    <2> QED
      BY <1>7, <1>10, <2>2, <2>3 DEF ExpandCached
  <1>11. CASE ExpandDescribed(t, f)
    BY <1>7, <1>8, <1>11 DEF ExpandDescribed
  <1> QED
    BY <1>2, <1>5, <1>6, <1>10, <1>11

(* A round at the object itself. *)
LEMMA RoundFirst ==
  ASSUME IInv, NEW t \in Threads, task[t].pc = "expand", Len(task[t].stack) = 1,
         Partial(task[t]), Position(task[t]),
         NEW f \in Frame(t).todo, NEW k \in TaskType, k.object = task[t].object, Round(k, t, f)
  PROVE  Partial(k) /\ Position(k)
  <1> DEFINE j == task[t]
             o == task[t].object
             q == Passed(t, f)
             push(p) == [object |-> p, path |-> << f >>, todo |-> FieldsOf(p)]
  <1>1. /\ q.entry = j.entry /\ q.visited = j.visited /\ Len(q.stack) = 1
        /\ q.stack[1].todo = j.stack[1].todo \ {f}
        /\ j.entry.depth \in 0 .. 2 /\ 1 <= j.entry.depth /\ f \in DOMAIN References
        /\ q.stack \in Seq(FrameType)
    <2>1. q \in TaskType
      BY PassedTask
    <2>2. q.stack \in Seq(FrameType)
      BY <2>1 DEF TaskType
    <2>3. 1 \in 1 .. 1
      OBVIOUS
    <2>4. /\ q.entry = j.entry /\ q.visited = j.visited /\ Len(q.stack) = Len(j.stack)
          /\ \A i \in 1 .. Len(j.stack) :
               q.stack[i].todo = IF i = Len(j.stack) THEN j.stack[i].todo \ {f} ELSE j.stack[i].todo
          /\ Len(j.stack) <= j.entry.depth /\ j.entry.depth \in 0 .. 2 /\ f \in DOMAIN References
      BY PassedTask
    <2> QED
      BY <2>2, <2>3, <2>4, Zenon
  <1>2. Append(Frame(t).path, f) = << f >>
    <2>1. Frame(t) \in FrameType /\ Len(Frame(t).path) = 0
      <3>1. Frame(t) \in FrameType /\ Len(Frame(t).path) = 1 - 1
        BY Expanding, Zenon
      <3> QED
        BY <3>1
    <2>2. Frame(t).path = << >>
      BY <2>1, EmptySeq DEF FrameType
    <2> QED
      BY <2>2
  <1>3. /\ f \in j.stack[1].todo /\ j.stack[1].todo \subseteq FieldsOf(o)
        /\ j.visited = {o}
    BY DEF Position, Frame
  <1>4. ~ Skipped(t, f) <=> First(o, f)
    BY <1>1, <1>3, SkippedFirst
  <1>5. << f >> \notin j.entry.missed
    BY <1>1, <1>3 DEF Partial, ToCome1
  <1>6. /\ \A x \in DOMAIN References : << x >> = << f >> <=> x = f
        /\ \A x, y \in DOMAIN References : << x, y >> # << f >>
    OBVIOUS
  <1>7. Len(<< f >>) = 1
    OBVIOUS
  <1>8. \A x \in DOMAIN References : ToCome1(j, x) <=> x \in j.stack[1].todo
    BY Zenon DEF ToCome1
  <1>9. \A x, y \in DOMAIN References : ToCome2(j, x, y) <=> x \in j.stack[1].todo
    BY DEF ToCome2
  <1>10. \A x \in DOMAIN References : Second(o, f, x) => First(o, f)
    BY DEF Second
  \* The stack and the visited set.
  <1>11. \/ /\ k.stack = q.stack /\ k.visited = j.visited
            /\ First(o, f) => << f >> \in k.entry.missed \/ j.entry.depth = 1
         \/ /\ First(o, f) /\ k.entry.missed = j.entry.missed
            /\ \E p \in References[f].to : /\ k.visited = j.visited \union {p}
                                           /\ k.stack = Append(q.stack, push(p))
    BY <1>1, <1>2, <1>4, <1>7 DEF Round, Filled
  \* What is shown and missed.
  <1>12. /\ k.entry.depth = j.entry.depth
         /\ \A x \in DOMAIN References :
              << x >> \in k.entry.missed <=>
                << x >> \in j.entry.missed \/ (x = f /\ << f >> \in k.entry.missed)
         /\ \A x, y \in DOMAIN References :
              << x, y >> \in k.entry.missed <=> << x, y >> \in j.entry.missed
         /\ \A x \in DOMAIN References :
              Shown(k.entry, << x >>) <=>
                \/ Shown(j.entry, << x >>)
                \/ x = f /\ First(o, f) /\ << f >> \notin k.entry.missed
         /\ \A x, y \in DOMAIN References :
              Shown(k.entry, << x, y >>) <=> Shown(j.entry, << x, y >>)
    <2>1. CASE Skipped(t, f)
      <3>1. k.entry = j.entry
        BY <1>1, <2>1 DEF Round
      <3> QED
        BY <1>4, <2>1, <3>1
    <2>2. CASE /\ ~ Skipped(t, f)
               /\ k.entry.depth = j.entry.depth /\ k.entry.shows = j.entry.shows
               /\ k.entry.missed = j.entry.missed \union {<< f >>}
      <3>1. \A p : Shown(k.entry, p) <=> Shown(j.entry, p)
        BY <2>2 DEF Shown
      <3> QED
        BY <1>6, <2>2, <3>1
    <2>3. CASE /\ ~ Skipped(t, f) /\ \E v : Filled(k, q, f, << f >>, v)
      <3>1. PICK v : Filled(k, q, f, << f >>, v)
        BY <2>3
      <3> DEFINE new == [path |-> << f >>, version |-> v]
      <3>0. new.path = << f >>
        OBVIOUS
      <3>2. /\ k.entry.depth = j.entry.depth /\ k.entry.missed = j.entry.missed
            /\ k.entry.shows = j.entry.shows \union {new}
        BY <1>1, <3>1, Zenon DEF Filled
      <3> HIDE DEF new
      <3>3. \A p : Shown(k.entry, p) <=> Shown(j.entry, p) \/ p = << f >>
        BY <3>0, <3>2 DEF Shown
      <3> QED
        BY <1>4, <1>5, <1>6, <2>3, <3>2, <3>3, Zenon
    <2> QED
      BY <1>1, <1>2, <2>1, <2>2, <2>3, Zenon DEF Round
  <1> HIDE DEF push
  <1>13. CASE /\ k.stack = q.stack /\ k.visited = j.visited
              /\ First(o, f) => << f >> \in k.entry.missed \/ j.entry.depth = 1
    <2>1. \A x \in DOMAIN References : ToCome1(k, x) <=> ToCome1(j, x) /\ x # f
      BY <1>1, <1>8, <1>13 DEF ToCome1
    <2>2. \A x, y \in DOMAIN References : ToCome2(k, x, y) <=> x \in j.stack[1].todo /\ x # f
      BY <1>1, <1>13 DEF ToCome2
    <2>3. ~ (1 >= 2) /\ j.entry.depth >= 1
      BY <1>1
    <2>4. Partial(k)
      BY <1>1, <1>3, <1>8, <1>9, <1>10, <1>12, <1>13, <2>1, <2>2, <2>3, AdvanceFirst, Zenon
    <2>5. Position(k)
      BY <1>1, <1>3, <1>13 DEF Position
    <2> QED
      BY <2>4, <2>5
  <1>14. CASE /\ First(o, f) /\ k.entry.missed = j.entry.missed
              /\ \E p \in References[f].to : /\ k.visited = j.visited \union {p}
                                             /\ k.stack = Append(q.stack, push(p))
    <2>1. PICK p \in Objects : References[f].to = {p}
      BY <1>1, <1>14, TargetOf DEF First
    <2>2. k.visited = {o, p} /\ k.stack = Append(q.stack, push(p))
      BY <1>3, <1>14, <2>1
    <2>3. /\ push(p) \in FrameType /\ push(p).path = << f >> /\ push(p).object = p
          /\ push(p).todo = FieldsOf(p)
      BY <1>1, <2>1 DEF push, FrameType, FieldsOf
    <2>4. Len(k.stack) = 2 /\ k.stack[1] = q.stack[1] /\ k.stack[2] = push(p)
      BY <1>1, <2>2, <2>3, AppendProperties
    <2>5. \A x \in DOMAIN References : ToCome1(k, x) <=> ToCome1(j, x) /\ x # f
      BY <1>1, <1>8, <2>4 DEF ToCome1
    <2>6. \A x, y \in DOMAIN References :
            ToCome2(k, x, y) <=> (x \in j.stack[1].todo /\ x # f) \/ (x = f /\ y \in FieldsOf(p))
      BY <1>1, <1>6, <2>3, <2>4 DEF ToCome2
    <2>7. \A y \in DOMAIN References : Second(o, f, y) => y \in FieldsOf(p)
      BY <2>1 DEF Second, FieldsOf
    <2>8. j.entry.depth >= 1
      BY <1>1
    <2>9. Partial(k)
      BY <1>1, <1>3, <1>8, <1>9, <1>12, <2>5, <2>6, <2>7, <2>8, AdvanceFirst, Zenon
    <2>10. AtParent(k, f)
      BY <1>1, <1>5, <1>14, <2>1, <2>2, <2>3, <2>4 DEF AtParent
    <2>11. Position(k)
      <3>1. k.stack[1].todo \subseteq FieldsOf(o)
        BY <1>1, <1>3, <2>4
      <3> QED
        BY <1>1, <2>4, <2>10, <3>1 DEF Position
    <2> QED
      BY <2>9, <2>11
  <1> QED
    BY <1>11, <1>13, <1>14

(* A round at a parent. *)
LEMMA RoundSecond ==
  ASSUME IInv, NEW t \in Threads, task[t].pc = "expand", Len(task[t].stack) = 2,
         Partial(task[t]), Position(task[t]),
         NEW f \in Frame(t).todo, NEW k \in TaskType, k.object = task[t].object, Round(k, t, f)
  PROVE  Partial(k) /\ Position(k)
  <1> DEFINE j == task[t]
             o == task[t].object
             q == Passed(t, f)
  <1>1. /\ q.entry = j.entry /\ q.visited = j.visited /\ Len(q.stack) = 2
        /\ q.stack[1].todo = j.stack[1].todo /\ q.stack[2].todo = j.stack[2].todo \ {f}
        /\ q.stack[2].path = j.stack[2].path /\ q.stack[2].object = j.stack[2].object
        /\ j.entry.depth = 2 /\ f \in DOMAIN References
    <2>1. 1 \in 1 .. 2 /\ 2 \in 1 .. 2 /\ 1 # 2 /\ \A d \in 0 .. 2 : 2 <= d => d = 2
      OBVIOUS
    <2>2. /\ q.entry = j.entry /\ q.visited = j.visited /\ Len(q.stack) = Len(j.stack)
          /\ \A i \in 1 .. Len(j.stack) :
               /\ q.stack[i].object = j.stack[i].object /\ q.stack[i].path = j.stack[i].path
               /\ q.stack[i].todo =
                    IF i = Len(j.stack) THEN j.stack[i].todo \ {f} ELSE j.stack[i].todo
          /\ Len(j.stack) <= j.entry.depth /\ j.entry.depth \in 0 .. 2 /\ f \in DOMAIN References
      BY PassedTask
    <2> QED
      BY <2>1, <2>2, Zenon
  <1>2. PICK h \in DOMAIN References : AtParent(j, h)
    BY DEF Position
  <1>3. /\ j.stack[2].path = << h >> /\ h \notin j.stack[1].todo /\ << h >> \notin j.entry.missed
        /\ f \in j.stack[2].todo /\ j.stack[1].todo \subseteq FieldsOf(o)
    BY <1>2 DEF AtParent, Frame, Position
  <1>4. Append(Frame(t).path, f) = << h, f >>
    <2>1. Frame(t).path = << h >>
      BY <1>3, Zenon DEF Frame
    <2>2. Append(<< h >>, f) = << h, f >>
      <3> DEFINE D == DOMAIN References
      <3>1. << h >> \in Seq(D) /\ << h, f >> \in Seq(D) /\ f \in D /\ Len(<< h >>) = 1
        BY <1>1
      <3>2. /\ Append(<< h >>, f) \in Seq(D) /\ Len(Append(<< h >>, f)) = 2
            /\ Append(<< h >>, f)[1] = << h >>[1] /\ Append(<< h >>, f)[2] = f
        BY <3>1, AppendProperties
      <3>3. \A i \in 1 .. 2 : Append(<< h >>, f)[i] = << h, f >>[i]
        BY <3>2
      <3> QED
        BY <3>1, <3>2, <3>3, SeqEqual
    <2> QED
      BY <2>1, <2>2, Zenon
  <1>5. ~ Skipped(t, f) <=> Second(o, h, f)
    BY <1>1, <1>2, <1>3, SkippedSecond
  <1>6. ToCome2(j, h, f)
    BY <1>3 DEF ToCome2
  <1>7. << h, f >> \notin j.entry.missed
    BY <1>1, <1>6 DEF Partial
  <1>8. /\ \A x, y \in DOMAIN References : << x, y >> = << h, f >> <=> x = h /\ y = f
        /\ \A x \in DOMAIN References : << x >> # << h, f >>
        /\ \A x \in DOMAIN References : << x >> = << h >> <=> x = h
    OBVIOUS
  <1>9. Len(<< h, f >>) = 2
    OBVIOUS
  <1>10. k.stack = q.stack /\ k.visited = j.visited
    BY <1>1, <1>4, <1>9 DEF Round, Filled
  <1>11. /\ k.entry.depth = j.entry.depth
         /\ \A x \in DOMAIN References : << x >> \in k.entry.missed <=> << x >> \in j.entry.missed
         /\ \A x, y \in DOMAIN References :
              ~ (x = h /\ y = f)
                => (<< x, y >> \in k.entry.missed <=> << x, y >> \in j.entry.missed)
         /\ \A x \in DOMAIN References : Shown(k.entry, << x >>) <=> Shown(j.entry, << x >>)
         /\ \A x, y \in DOMAIN References :
              Shown(k.entry, << x, y >>) <=>
                \/ Shown(j.entry, << x, y >>)
                \/ x = h /\ y = f /\ Second(o, h, f) /\ << h, f >> \notin k.entry.missed
    <2>1. CASE Skipped(t, f)
      <3>1. k.entry = j.entry
        BY <1>1, <2>1 DEF Round
      <3> QED
        BY <1>5, <2>1, <3>1
    <2>2. CASE /\ ~ Skipped(t, f)
               /\ k.entry.depth = j.entry.depth /\ k.entry.shows = j.entry.shows
               /\ k.entry.missed = j.entry.missed \union {<< h, f >>}
      <3>1. \A p : Shown(k.entry, p) <=> Shown(j.entry, p)
        BY <2>2 DEF Shown
      <3> QED
        BY <1>8, <2>2, <3>1
    <2>3. CASE /\ ~ Skipped(t, f) /\ \E v : Filled(k, q, f, << h, f >>, v)
      <3>1. PICK v : Filled(k, q, f, << h, f >>, v)
        BY <2>3
      <3> DEFINE new == [path |-> << h, f >>, version |-> v]
      <3>0. new.path = << h, f >>
        OBVIOUS
      <3>2. /\ k.entry.depth = j.entry.depth /\ k.entry.missed = j.entry.missed
            /\ k.entry.shows = j.entry.shows \union {new}
        BY <1>1, <3>1, Zenon DEF Filled
      <3> HIDE DEF new
      <3>3. \A p : Shown(k.entry, p) <=> Shown(j.entry, p) \/ p = << h, f >>
        BY <3>0, <3>2 DEF Shown
      <3> QED
        BY <1>5, <1>7, <1>8, <2>3, <3>2, <3>3, Zenon
    <2> QED
      BY <1>1, <1>4, <2>1, <2>2, <2>3, Zenon DEF Round
  <1>12. \A x \in DOMAIN References : ToCome1(k, x) <=> ToCome1(j, x)
    BY <1>1, <1>10 DEF ToCome1
  <1>13. \A x, y \in DOMAIN References :
           ToCome2(k, x, y) <=> ToCome2(j, x, y) /\ ~ (x = h /\ y = f)
    BY <1>1, <1>3, <1>8, <1>10 DEF ToCome2
  <1>14. j.entry.depth >= 2 /\ f \in DOMAIN References /\ << h >> \notin j.entry.missed
    BY <1>1, <1>3
  <1>15. Partial(k)
    <2>1. PastSecond(j, k, h, f)
      BY <1>6, <1>11, <1>12, <1>13, <1>14, Zenon DEF PastSecond
    <2>2. Partial(j) /\ f \in DOMAIN References
      BY <1>1
    <2> HIDE DEF j
    <2> QED
      BY <2>1, <2>2, AdvanceSecond, Zenon
  <1>16. AtParent(k, h)
    BY <1>1, <1>2, <1>10, <1>11 DEF AtParent
  <1>17. Position(k)
    BY <1>1, <1>3, <1>10, <1>16 DEF Position
  <1> QED
    BY <1>15, <1>17

(* An entry that was not expanded shows no parent. *)
LEMMA BareExact == ASSUME NEW o, NEW v PROVE Exact(o, Bare(v, 0))
  <1> DEFINE e == Bare(v, 0)
  <1>1. e.shows = {} /\ e.depth = 0
    BY DEF Bare
  <1> HIDE DEF e
  <1>2. \A p : ~ Shown(e, p)
    BY <1>1 DEF Shown
  <1>3. ~ (e.depth >= 1) /\ ~ (e.depth >= 2)
    BY <1>1
  <1>4. Exact(o, e)
    BY <1>2, <1>3, Zenon DEF Exact
  <1> QED
    BY <1>4 DEF e

(* Steps that leave the lookups that expand alone, and cache nothing that  *)
(* was expanded.                                                           *)
LEMMA ElsewhereStep ==
  ASSUME ExpandInv,
         \A t \in Threads : task'[t].pc = "expand" => task'[t] = task[t],
         \A o \in Objects : \A e \in tables'[o] : e \in tables[o] \/ \E v : e = Bare(v, 0)
  PROVE  ExpandInv'
  <1>1. \A o \in Objects : \A e \in tables'[o] : Exact(o, e)
    BY BareExact DEF ExpandInv
  <1>2. ASSUME NEW t \in Threads, task'[t].pc = "expand"
        PROVE  Partial(task'[t]) /\ Position(task'[t])
    BY <1>2 DEF ExpandInv
  <1> QED
    BY <1>1, <1>2 DEF ExpandInv

(* Steps of the recursion. *)
LEMMA RecursionStep ==
  ASSUME IInv, ExpandInv, NEW t \in Threads, NEW k, task' = [task EXCEPT ![t] = k],
         Partial(k), Position(k), UNCHANGED tables
  PROVE  ExpandInv'
  <1>1. \A u \in Threads : task'[u] = IF u = t THEN k ELSE task[u]
    BY DEF IInv, ShapeInv
  <1>2. ASSUME NEW u \in Threads, task'[u].pc = "expand"
        PROVE  Partial(task'[u]) /\ Position(task'[u])
    BY <1>1, <1>2 DEF ExpandInv
  <1>3. \A o \in Objects : \A e \in tables'[o] : Exact(o, e)
    BY DEF ExpandInv
  <1> QED
    BY <1>2, <1>3 DEF ExpandInv

(* A lookup starts with all fields of its object to come, or with none. *)
LEMMA ExpandDescribe == ASSUME IInv, ExpandInv, NEW t \in Threads, Describe(t) PROVE ExpandInv'
  <1> DEFINE o == task[t].object
             d == task[t].entry.depth
             e == Bare(version, d)
             fr == [object |-> o, path |-> << >>, todo |-> IF d = 0 THEN {} ELSE FieldsOf(o)]
             k == [task[t] EXCEPT !.pc = "expand", !.entry = e, !.visited = {o}, !.stack = << fr >>]
  <1>1. task[t] \in TaskType /\ task \in [Threads -> TaskType]
    BY DEF IInv, ShapeInv
  <1>2. task' = [task EXCEPT ![t] = k] /\ UNCHANGED tables
    BY <1>1 DEF Describe, TaskType, cacheVars
  <1>3. d \in 0 .. 2 /\ e.depth = d /\ e.shows = {} /\ e.missed = {}
    BY <1>1 DEF TaskType, Entry, Bare
  <1>4. fr.todo = IF d = 0 THEN {} ELSE FieldsOf(o)
    OBVIOUS
  <1> HIDE DEF e, fr
  <1>5. /\ k.object = o /\ k.entry = e /\ k.visited = {o} /\ k.stack = << fr >>
    BY <1>1 DEF TaskType
  <1> HIDE DEF k, d
  <1>6. Len(k.stack) = 1 /\ k.stack[1] = fr
    BY <1>5
  <1>7. k.entry.depth >= 1 \/ k.entry.depth >= 2 => k.stack[1].todo = FieldsOf(o)
    BY <1>3, <1>4, <1>5, <1>6
  <1>8. \A f \in DOMAIN References : First(o, f) => f \in FieldsOf(o)
    BY DEF First, FieldsOf
  <1>9. \A p : ~ Shown(k.entry, p) /\ p \notin k.entry.missed
    BY <1>3, <1>5 DEF Shown
  <1>10. \A f \in DOMAIN References : k.entry.depth >= 1 /\ First(k.object, f) => ToCome1(k, f)
    BY <1>5, <1>7, <1>8 DEF ToCome1
  <1>11. \A f, g \in DOMAIN References :
          k.entry.depth >= 2 /\ Second(k.object, f, g) => ToCome2(k, f, g)
    BY <1>5, <1>7, <1>8 DEF Second, ToCome2
  <1>12. Partial(k)
    BY <1>9, <1>10, <1>11, Zenon DEF Partial
  <1>13. Position(k)
    BY <1>4, <1>5, <1>6 DEF Position
  <1> QED
    BY <1>2, <1>12, <1>13, RecursionStep

(* One round of the loop. *)
LEMMA ExpandRound ==
  ASSUME IInv, ExpandInv, NEW t \in Threads, BuildRelationshipField(t) PROVE ExpandInv'
  <1>1. task[t].pc = "expand" /\ UNCHANGED tables
    BY DEF BuildRelationshipField, At
  <1>2. PICK f \in Frame(t).todo : \E k \in TaskType :
          /\ task' = [task EXCEPT ![t] = k]
          /\ k.pc = "expand" /\ k.object = task[t].object /\ Round(k, t, f)
    BY RoundTask
  <1>3. PICK k \in TaskType :
          /\ task' = [task EXCEPT ![t] = k]
          /\ k.pc = "expand" /\ k.object = task[t].object /\ Round(k, t, f)
    BY <1>2
  <1>4. Partial(task[t]) /\ Position(task[t])
    BY <1>1 DEF ExpandInv
  <1>5. Len(task[t].stack) = 1 \/ Len(task[t].stack) = 2
    <2>1. \A n \in 1 .. 2 : n = 1 \/ n = 2
      OBVIOUS
    <2> QED
      BY <1>1, <2>1, Expanding, Zenon
  <1>6. Partial(k) /\ Position(k)
    BY <1>1, <1>3, <1>4, <1>5, RoundFirst, RoundSecond, Zenon
  <1> QED
    BY <1>1, <1>3, <1>6, RecursionStep

(* Back to the child: nothing of the parent is to come any more. *)
LEMMA ExpandReturn ==
  ASSUME IInv, ExpandInv, NEW t \in Threads, ReturnFromParent(t) PROVE ExpandInv'
  <1> DEFINE j == task[t]
             k == [task[t] EXCEPT !.stack = Below(t), !.visited = @ \ {Frame(t).object}]
  <1>1. j.pc = "expand" /\ Len(j.stack) > 1 /\ Frame(t).todo = {} /\ UNCHANGED tables
    BY DEF ReturnFromParent, At, cacheVars
  <1>2. Len(j.stack) = 2 /\ Len(Below(t)) = 1 /\ Below(t)[1] = j.stack[1]
    BY <1>1, BelowTask
  <1>3. j \in TaskType /\ task \in [Threads -> TaskType]
    BY DEF IInv, ShapeInv
  <1>4. /\ k.object = j.object /\ k.entry = j.entry /\ k.stack = Below(t)
        /\ k.visited = j.visited \ {Frame(t).object}
    BY <1>3 DEF TaskType
  <1>5. task' = [task EXCEPT ![t] = k]
    BY <1>3 DEF ReturnFromParent, TaskType
  <1> HIDE DEF k
  <1>6. Partial(j) /\ Position(j)
    BY <1>1 DEF ExpandInv
  <1>7. j.stack[2].todo = {} /\ Frame(t).object = j.stack[2].object
    BY <1>1, <1>2, Zenon DEF Frame
  <1>8. \A f \in DOMAIN References : ToCome1(k, f) <=> ToCome1(j, f)
    BY <1>2, <1>4 DEF ToCome1
  <1>9. \A f, g \in DOMAIN References : ToCome2(k, f, g) <=> ToCome2(j, f, g)
    BY <1>2, <1>4, <1>7 DEF ToCome2
  <1>10. Partial(k)
    BY <1>4, <1>6, <1>8, <1>9, Zenon DEF Partial
  <1>11. k.visited = {k.object}
    <2>1. PICK f \in DOMAIN References : AtParent(j, f)
      BY <1>2, <1>6 DEF Position
    <2>2. /\ j.visited = {j.object, j.stack[2].object}
          /\ References[f].to = {j.stack[2].object} /\ j.object \notin References[f].to
      BY <2>1 DEF AtParent, First
    <2> QED
      BY <1>4, <1>7, <2>2
  <1>12. Position(k)
    <2>1. Len(k.stack) # 2 /\ k.stack[1].todo \subseteq FieldsOf(k.object)
      BY <1>2, <1>4, <1>6 DEF Position
    <2> QED
      BY <1>11, <2>1 DEF Position
  <1> QED
    BY <1>1, <1>5, <1>10, <1>12, RecursionStep

(* When nothing is to come the entry is exact, and so it is cached. *)
LEMMA ExpandFinish ==
  ASSUME IInv, ExpandInv, NEW t \in Threads, FinishLookup(t) PROVE ExpandInv'
  <1> DEFINE j == task[t]
  <1>1. /\ j.pc = "expand" /\ Len(j.stack) = 1 /\ Frame(t).todo = {}
        /\ BuildAndCacheEntry(j.object, j.entry) /\ task' = [task EXCEPT ![t] = Idle]
    BY DEF FinishLookup, At, Release
  <1>2. Partial(j) /\ j.stack[1].todo = {}
    BY <1>1 DEF ExpandInv, Frame
  <1>3. /\ \A f \in DOMAIN References : ~ ToCome1(j, f)
        /\ \A f, g \in DOMAIN References : ~ ToCome2(j, f, g)
    BY <1>1, <1>2 DEF ToCome1, ToCome2
  <1>4. Exact(j.object, j.entry)
    BY <1>2, <1>3, Zenon DEF Partial, Exact
  <1>5. /\ task \in [Threads -> TaskType] /\ tables \in [Objects -> SUBSET Entry]
    BY DEF IInv, ShapeInv
  <1>6. \A o \in Objects : \A e \in tables'[o] : e \in tables[o] \/ (o = j.object /\ e = j.entry)
    BY <1>1, <1>5 DEF BuildAndCacheEntry
  <1>7. \A o \in Objects : \A e \in tables'[o] : Exact(o, e)
    BY <1>4, <1>6 DEF ExpandInv
  <1>8. ASSUME NEW u \in Threads, task'[u].pc = "expand"
        PROVE  Partial(task'[u]) /\ Position(task'[u])
    <2>1. task'[u] = task[u]
      BY <1>1, <1>5, <1>8, IdleType
    <2> QED
      BY <1>8, <2>1 DEF ExpandInv
  <1> QED
    BY <1>7, <1>8 DEF ExpandInv

(* What a thread that ends or begins an operation leaves alone. *)
LEMMA ExpandBesides ==
  ASSUME IInv, ExpandInv, NEW t \in Threads, NEW k, task' = [task EXCEPT ![t] = k],
         k.pc # "expand", UNCHANGED tables
  PROVE  ExpandInv'
  <1>1. \A u \in Threads : task'[u] = IF u = t THEN k ELSE task[u]
    BY DEF IInv, ShapeInv
  <1>2. \A u \in Threads : task'[u].pc = "expand" => task'[u] = task[u]
    BY <1>1
  <1>3. \A o \in Objects : \A e \in tables'[o] : e \in tables[o] \/ \E v : e = Bare(v, 0)
    OBVIOUS
  <1> QED
    BY <1>2, <1>3, ElsewhereStep

(* A Tooling batch caches entries that were not expanded. *)
LEMMA ExpandTooling ==
  ASSUME IInv, ExpandInv, NEW t \in Threads, NEW clear \in SUBSET Objects,
         ToolingDescribe(t, clear)
  PROVE  ExpandInv'
  <1> DEFINE o == task[t].object
             k == IF o \in clear THEN Idle ELSE [task[t] EXCEPT !.pc = "describe"]
  <1>1. task[t] \in TaskType /\ task \in [Threads -> TaskType]
    BY DEF IInv, ShapeInv
  <1>2. k.pc # "expand"
    BY <1>1, IdleType DEF TaskType
  <1>3. task' = [task EXCEPT ![t] = k] /\ Warm(clear)
    BY <1>1 DEF ToolingDescribe, Release, TaskType
  <1> HIDE DEF k
  <1>4. \A u \in Threads : task'[u].pc = "expand" => task'[u] = task[u]
    BY <1>1, <1>2, <1>3
  <1>5. \A x \in Objects : \A e \in tables'[x] : e \in tables[x] \/ \E v : e = Bare(v, 0)
    BY <1>3 DEF Warm
  <1> QED
    BY <1>4, <1>5, ElsewhereStep

(* Operations that begin. *)
LEMMA ExpandBegin ==
  ASSUME IInv, ExpandInv, NEW t \in Threads,
         \/ \E o \in Queried, source \in {"describe", "tooling"}, depth \in Depths :
              LookupMiss(t, o, source, depth)
         \/ ListObjects(t)
         \/ \E o \in JsonObjects : JsonMiss(t, o)
  PROVE  ExpandInv'
  <1> USE DEF cacheVars
  <1>0. task[t] \in TaskType /\ task \in [Threads -> TaskType]
    BY DEF IInv, ShapeInv
  <1>1. ASSUME NEW o \in Queried, NEW source \in {"describe", "tooling"}, NEW depth \in Depths,
               LookupMiss(t, o, source, depth)
        PROVE  ExpandInv'
    <2> DEFINE k == [Idle EXCEPT !.pc = source, !.object = o, !.entry = Bare(0, depth)]
    <2>1. k.pc # "expand"
      BY IdleType DEF TaskType
    <2>2. task' = [task EXCEPT ![t] = k] /\ UNCHANGED tables
      BY <1>1 DEF LookupMiss
    <2> HIDE DEF k
    <2> QED
      BY <2>1, <2>2, ExpandBesides
  <1>2. CASE ListObjects(t)
    <2> DEFINE k == [task[t] EXCEPT !.pc = "list"]
    <2>1. k.pc # "expand"
      BY <1>0 DEF TaskType
    <2>2. task' = [task EXCEPT ![t] = k] /\ UNCHANGED tables
      BY <1>0, <1>2 DEF ListObjects, TaskType
    <2> HIDE DEF k
    <2> QED
      BY <2>1, <2>2, ExpandBesides
  <1>3. ASSUME NEW o \in JsonObjects, JsonMiss(t, o) PROVE ExpandInv'
    <2> DEFINE k == [task[t] EXCEPT !.pc = "json", !.object = o]
    <2>1. k.pc # "expand"
      BY <1>0 DEF TaskType
    <2>2. task' = [task EXCEPT ![t] = k] /\ UNCHANGED tables
      BY <1>0, <1>3 DEF JsonMiss, TaskType
    <2> HIDE DEF k
    <2> QED
      BY <2>1, <2>2, ExpandBesides
  <1> QED
    BY <1>1, <1>2, <1>3

(* Operations that end, and the request for a describe's JSON. *)
LEMMA ExpandEnd ==
  ASSUME IInv, ExpandInv, NEW t \in Threads,
         \/ EnsureObjectListLoaded(t) \/ DescribeJson(t) \/ DescribeJsonCached(t) \/ RequestFails(t)
  PROVE  ExpandInv'
  <1>1. task[t] \in TaskType /\ task \in [Threads -> TaskType]
    BY DEF IInv, ShapeInv
  <1>2. CASE EnsureObjectListLoaded(t) \/ DescribeJsonCached(t) \/ RequestFails(t)
    <2>1. task' = [task EXCEPT ![t] = Idle] /\ UNCHANGED tables
      BY <1>2 DEF EnsureObjectListLoaded, DescribeJsonCached, RequestFails, Release, cacheVars
    <2>2. Idle.pc # "expand"
      BY IdleType
    <2> QED
      BY <2>1, <2>2, ExpandBesides
  <1>3. CASE DescribeJson(t)
    <2> DEFINE k == [task[t] EXCEPT !.pc = "store", !.entry = Bare(version, 0)]
    <2>1. k.pc # "expand"
      BY <1>1 DEF TaskType
    <2>2. task' = [task EXCEPT ![t] = k] /\ UNCHANGED tables
      BY <1>1, <1>3 DEF DescribeJson, TaskType, cacheVars
    <2> HIDE DEF k
    <2> QED
      BY <2>1, <2>2, ExpandBesides
  <1> QED
    BY <1>2, <1>3

(* The org changes, or a refresh drops entries. *)
LEMMA ExpandOthers ==
  ASSUME IInv, ExpandInv,
         SchemaChange \/ RefreshAll \/ (\E o \in Objects : RefreshObject(o)) \/ UNCHANGED vars
  PROVE  ExpandInv'
  <1>1. tables \in [Objects -> SUBSET Entry]
    BY DEF IInv, ShapeInv
  <1>2. /\ task' = task
        /\ \A o \in Objects : \A e \in tables'[o] : e \in tables[o]
    BY <1>1 DEF SchemaChange, RefreshAll, RefreshObject, vars, cacheVars
  <1> QED
    BY <1>2, ElsewhereStep

(* Every step keeps the invariant of the recursion. *)
LEMMA ExpandInductive == IInv /\ ExpandInv /\ [Next]_vars => ExpandInv'
  <1> SUFFICES ASSUME IInv, ExpandInv, [Next]_vars PROVE ExpandInv'
    OBVIOUS
  <1>1. ASSUME NEW t \in Threads, Continue(t) PROVE ExpandInv'
    BY <1>1, ExpandTooling, ExpandDescribe, ExpandRound, ExpandReturn, ExpandFinish,
       ExpandEnd, Zenon
       DEF Continue
  <1> QED
    BY <1>1, ExpandBegin, ExpandOthers, Zenon DEF Next

(* A table shows exactly the parents and grandparents that can be shown    *)
(* without a cycle, less those behind an object that could not be          *)
(* described: BuildRelationshipFields, with its visited set and its depth, *)
(* computes what ExpandablePaths defines, for any graph of references.     *)
THEOREM ExpansionIsExact == Spec => []ExpansionExact
  <1>1. Init => ExpandInv
    <2> SUFFICES ASSUME Init PROVE ExpandInv
      OBVIOUS
    <2>1. \A o \in Objects : tables[o] = {}
      BY DEF Init
    <2>2. \A t \in Threads : task[t].pc # "expand"
      BY IdleType DEF Init
    <2> QED
      BY <2>1, <2>2 DEF ExpandInv
  <1>2. IInv /\ ExpandInv => ExpansionExact
    <2> SUFFICES ASSUME IInv, ExpandInv, NEW o \in Objects, NEW e \in tables[o]
                 PROVE  { s.path : s \in e.shows } =
                          { p \in ExpandablePaths[o][e.depth] :
                              ~ \E q \in e.missed : IsPrefixOf(q, p) }
      BY Zenon DEF ExpansionExact
    <2>1. e \in Entry /\ Exact(o, e)
      BY DEF IInv, ShapeInv, ExpandInv
    <2> QED
      BY <2>1, ExactMeans, Zenon
  <1> QED
    BY <1>1, <1>2, IInit, Inductive, ExpandInductive, PTL DEF Spec
=============================================================================
