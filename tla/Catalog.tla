------------------------------- MODULE Catalog -------------------------------
(***************************************************************************)
(* The schema of an attached org (SalesforceSchemaEntry,                   *)
(* salesforce_storage.cpp): tables that are described on first reference,  *)
(* alone or in a Tooling batch, widened by their parents' fields; the list *)
(* of object names; the describes of parents and the raw describe JSON;    *)
(* and the refresh that drops them.                                        *)
(*                                                                         *)
(* One mutex, lock_, guards the four caches.  A lookup and a listing keep  *)
(* it while they ask the org; DescribeJsonCached does not.  What the org   *)
(* says of an object is abstracted to the version of the org's metadata it *)
(* was read at, and the references between objects stay as they are.  The  *)
(* metadata engine that SalesforceCatalog::RefreshMetadata empties next    *)
(* has caches of its own and shares nothing with these.                    *)
(***************************************************************************)
EXTENDS Integers, Sequences, FiniteSets

CONSTANTS
  Threads,      \* connections that bind queries on the attached org
  Objects,      \* the queryable objects of the org
  Queried,      \* bound: those that queries name
  JsonObjects,  \* bound: those whose picklists or record types are asked for
  References,   \* their reference fields in order: [from, rel, to, clash]
  MaxChanges,   \* bound: schema changes in the org
  None          \* no thread

ASSUME CatalogAssumption ==
  /\ MaxChanges \in Nat
  /\ None \notin Threads
  /\ IsFiniteSet(Objects) /\ Objects # {}
  /\ Queried \subseteq Objects /\ JsonObjects \subseteq Objects
  /\ References \in Seq([ from : Objects, rel : STRING, to : SUBSET Objects, clash : BOOLEAN ])

VARIABLES
  version,      \* of the org's metadata
  lock,         \* who holds lock_
  tables,       \* tables_: for each object no entry, or one
  listing,      \* listing_: objects known by name only
  loaded,       \* object_list_loaded_
  parents,      \* parent_describe_cache_: for each object no version, or one
  json,         \* describe_json_cache_: likewise
  task,         \* what each thread is doing
  refreshed,    \* history: the org's version at an object's last refresh
  refreshed_all,\* history: the org's version at the last global refresh
  described     \* history: describes since the last refresh, as table and as parent

cacheVars == <<tables, listing, loaded, parents, json>>
histVars  == <<refreshed, refreshed_all, described>>
vars      == <<version, lock, cacheVars, task, histVars>>

(* A path of relationships, as the positions of the fields it follows. *)
Path == UNION { [1 .. n -> DOMAIN References] : n \in 1 .. 2 }

(* A table entry: the version of its own fields, the depth it was expanded *)
(* to (0: not at all) and the parents it shows; missed is a history field, *)
(* the paths whose object could not be described.                          *)
Entry == [ version : 0 .. MaxChanges, depth : 0 .. 2,
           shows : SUBSET [ path : Path, version : 0 .. MaxChanges ], missed : SUBSET Path ]

Bare(v, d) == [ version |-> v, depth |-> d, shows |-> {}, missed |-> {} ]

(* A mutant of Depths: sf_relationship_depth is not clamped. *)
DepthsUnclamped == 0 .. 3

(* The effective sf_relationships and sf_relationship_depth: "off", or     *)
(* "parent" to a depth that is clamped to 1 .. 2.                          *)
Depths == 0 .. 2

(* The object, sf_schema_source and depth of a lookup, the entry it has    *)
(* put together so far, BuildRelationshipFields' recursion (one frame for  *)
(* each level: object, path to it, fields still to visit) and its visited  *)
(* set.                                                                    *)
Idle == [ pc |-> "idle", object |-> CHOOSE o \in Objects : TRUE, entry |-> Bare(0, 0),
          stack |-> << >>, visited |-> {} ]

(* The reference fields of an object. *)
FieldsOf(o) == { f \in DOMAIN References : References[f].from = o }

Init ==
  /\ version = 0
  /\ lock = None
  /\ tables = [o \in Objects |-> {}]
  /\ listing = {}
  /\ loaded = FALSE
  /\ parents = [o \in Objects |-> {}]
  /\ json = [o \in Objects |-> {}]
  /\ task = [t \in Threads |-> Idle]
  /\ refreshed = [o \in Objects |-> 0]
  /\ refreshed_all = 0
  /\ described = [o \in Objects |-> [table |-> 0, parent |-> 0]]

(* An administrator changes the fields of an object. *)
SchemaChange ==
  /\ version < MaxChanges
  /\ version' = version + 1
  /\ UNCHANGED <<lock, cacheVars, task, histVars>>

-----------------------------------------------------------------------------
(* LookupEntry on thread t.                                                *)

At(t, pc) == task[t].pc = pc

(* A miss; a hit returns the entry and changes nothing.  The lock is taken *)
(* for the whole lookup.                                                   *)
LookupMiss(t, o, source, depth) ==
  /\ At(t, "idle")
  /\ lock = None
  /\ tables[o] = {}
  /\ lock' = t
  /\ task' = [task EXCEPT ![t] = [Idle EXCEPT !.pc = source, !.object = o,
                                              !.entry = Bare(0, depth)]]
  /\ UNCHANGED <<version, cacheVars, histVars>>

(* The end of whatever t does: its lock_guard goes out of scope. *)
Release(t) ==
  /\ lock' = IF lock = t THEN None ELSE lock
  /\ task' = [task EXCEPT ![t] = Idle]

(* The requested object and every listed one that is not resolved yet. *)
ToolingBatch(t) == {task[t].object} \union { o \in listing : tables[o] = {} }

(* The entries built from a Tooling answer; clear: the objects it holds    *)
(* with fields, none of a type it cannot name.                             *)
Warm(clear) ==
  tables' = [o \in Objects |-> IF o \in clear /\ tables[o] = {}
                               THEN {Bare(version, 0)} ELSE tables[o]]

(* The batch answers for some of its objects; the requested one is served  *)
(* from it, or else by REST.                                               *)
ToolingDescribe(t, clear) ==
  /\ At(t, "tooling")
  /\ clear \subseteq ToolingBatch(t)
  /\ Warm(clear)
  /\ IF task[t].object \in clear
     THEN Release(t)
     ELSE /\ task' = [task EXCEPT ![t].pc = "describe"]
          /\ UNCHANGED lock
  /\ UNCHANGED <<version, listing, loaded, parents, json, histVars>>

(* BuildAndCacheEntry: emplace, which keeps an entry that is there. *)
BuildAndCacheEntry(o, e) ==
  tables' = IF tables[o] = {} THEN [tables EXCEPT ![o] = {e}] ELSE tables

(* A mutant of Describe: the lock is given back during the request. *)
DescribeUnlocked(t) ==
  LET o == task[t].object
      d == task[t].entry.depth
  IN  /\ At(t, "describe")
      /\ lock' = None
      /\ described' = [described EXCEPT ![o].table = @ + 1]
      /\ task' = [task EXCEPT ![t].pc = "expand", ![t].entry = Bare(version, d),
                              ![t].visited = {o},
                              ![t].stack = << [object |-> o, path |-> << >>,
                                               todo |-> IF d = 0 THEN {} ELSE FieldsOf(o)] >>]
      /\ UNCHANGED <<version, cacheVars, refreshed, refreshed_all>>

(* The REST describe; ExpandParentRelationships starts at the object. *)
Describe(t) ==
  LET o == task[t].object
      d == task[t].entry.depth
  IN  /\ At(t, "describe")
      /\ described' = [described EXCEPT ![o].table = @ + 1]
      /\ task' = [task EXCEPT ![t].pc = "expand", ![t].entry = Bare(version, d),
                              ![t].visited = {o},
                              ![t].stack = << [object |-> o, path |-> << >>,
                                               todo |-> IF d = 0 THEN {} ELSE FieldsOf(o)] >>]
      /\ UNCHANGED <<version, lock, cacheVars, refreshed, refreshed_all>>

Frame(t) == task[t].stack[Len(task[t].stack)]

Below(t) == SubSeq(task[t].stack, 1, Len(task[t].stack) - 1)

(* The task of t, past field f in its innermost loop. *)
Passed(t, f) == [task[t] EXCEPT !.stack[Len(task[t].stack)].todo = @ \ {f}]

(* No relationship name, polymorphic, the object itself or one of its      *)
(* children on the path, or a name that is taken by a column.              *)
Skipped(t, f) ==
  \/ References[f].rel = ""
  \/ Cardinality(References[f].to) # 1
  \/ References[f].to \subseteq task[t].visited
  \/ References[f].clash

(* The STRUCT for field f, filled from its parent's describe of version v; *)
(* the recursion goes one level up while the depth allows it.              *)
ExpandField(t, f, v) ==
  LET p    == CHOOSE o \in References[f].to : TRUE
      path == Append(Frame(t).path, f)
      rest == [Passed(t, f) EXCEPT !.entry.shows = @ \union {[path |-> path, version |-> v]}]
  IN  task' = [task EXCEPT ![t] =
                 IF Len(path) = task[t].entry.depth THEN rest
                 ELSE [rest EXCEPT !.visited = @ \union {p},
                                   !.stack = Append(@, [object |-> p, path |-> path,
                                                        todo |-> FieldsOf(p)])]]

SkipField(t, f) ==
  /\ Skipped(t, f)
  /\ task' = [task EXCEPT ![t] = Passed(t, f)]
  /\ UNCHANGED <<parents, described>>

(* GetParentDescribe finds the parent in its cache. *)
ExpandCached(t, f) ==
  /\ ~ Skipped(t, f)
  /\ \E p \in References[f].to : \E v \in parents[p] : ExpandField(t, f, v)
  /\ UNCHANGED <<parents, described>>

(* GetParentDescribe asks the org and keeps the answer. *)
ExpandDescribed(t, f) ==
  /\ ~ Skipped(t, f)
  /\ \E p \in References[f].to :
       /\ parents[p] = {}
       /\ parents' = [parents EXCEPT ![p] = {version}]
       /\ described' = [described EXCEPT ![p].parent = @ + 1]
       /\ ExpandField(t, f, version)

(* GetParentDescribe fails: the relationship is left out, nothing is kept. *)
ExpandMissed(t, f) ==
  /\ ~ Skipped(t, f)
  /\ \A p \in References[f].to : parents[p] = {}
  /\ task' = [task EXCEPT ![t] = [Passed(t, f) EXCEPT
                                    !.entry.missed = @ \union {Append(Frame(t).path, f)}]]
  /\ UNCHANGED <<parents, described>>

(* One round of BuildRelationshipFields' loop: the next field in order. *)
BuildRelationshipField(t) ==
  /\ At(t, "expand")
  /\ \E f \in Frame(t).todo :
       /\ \A g \in Frame(t).todo : f <= g
       /\ SkipField(t, f) \/ ExpandCached(t, f) \/ ExpandDescribed(t, f) \/ ExpandMissed(t, f)
  /\ UNCHANGED <<version, lock, tables, listing, loaded, json, refreshed, refreshed_all>>

(* A mutant of ReturnFromParent: visited.erase is forgotten. *)
ReturnFromParentKeeps(t) ==
  /\ At(t, "expand")
  /\ Frame(t).todo = {}
  /\ Len(task[t].stack) > 1
  /\ task' = [task EXCEPT ![t].stack = Below(t)]
  /\ UNCHANGED <<version, lock, cacheVars, histVars>>

(* All fields of a parent are done: back to its child's. *)
ReturnFromParent(t) ==
  /\ At(t, "expand")
  /\ Frame(t).todo = {}
  /\ Len(task[t].stack) > 1
  /\ task' = [task EXCEPT ![t].stack = Below(t), ![t].visited = @ \ {Frame(t).object}]
  /\ UNCHANGED <<version, lock, cacheVars, histVars>>

(* The entry is complete: it is cached and the lock given back. *)
FinishLookup(t) ==
  /\ At(t, "expand")
  /\ Frame(t).todo = {}
  /\ Len(task[t].stack) = 1
  /\ BuildAndCacheEntry(task[t].object, task[t].entry)
  /\ Release(t)
  /\ UNCHANGED <<version, listing, loaded, parents, json, histVars>>

-----------------------------------------------------------------------------
(* The other operations.                                                   *)

(* Scan asks for the object list, keeping the lock. *)
ListObjects(t) ==
  /\ At(t, "idle")
  /\ lock = None
  /\ ~ loaded
  /\ lock' = t
  /\ task' = [task EXCEPT ![t].pc = "list"]
  /\ UNCHANGED <<version, cacheVars, histVars>>

(* Every object without an entry is listed by name. *)
EnsureObjectListLoaded(t) ==
  /\ At(t, "list")
  /\ listing' = listing \union { o \in Objects : tables[o] = {} }
  /\ loaded' = TRUE
  /\ Release(t)
  /\ UNCHANGED <<version, tables, parents, json, histVars>>

(* DescribeJsonCached misses; the lock is not kept for the request. *)
JsonMiss(t, o) ==
  /\ At(t, "idle")
  /\ lock = None
  /\ json[o] = {}
  /\ task' = [task EXCEPT ![t].pc = "json", ![t].object = o]
  /\ UNCHANGED <<version, lock, cacheVars, histVars>>

DescribeJson(t) ==
  /\ At(t, "json")
  /\ task' = [task EXCEPT ![t].pc = "store", ![t].entry = Bare(version, 0)]
  /\ UNCHANGED <<version, lock, cacheVars, histVars>>

(* The lock is taken again and the body stored, whatever is there. *)
DescribeJsonCached(t) ==
  /\ At(t, "store")
  /\ lock = None
  /\ json' = [json EXCEPT ![task[t].object] = {task[t].entry.version}]
  /\ Release(t)
  /\ UNCHANGED <<version, tables, listing, loaded, parents, histVars>>

(* A mutant of RequestFails: a REST describe that fails falls back to      *)
(* Tooling, as Tooling falls back to REST.                                 *)
RequestFailsFallsBack(t) ==
  /\ task[t].pc \in {"tooling", "describe", "list", "json"}
  /\ IF At(t, "describe")
     THEN task' = [task EXCEPT ![t].pc = "tooling"] /\ UNCHANGED lock
     ELSE Release(t)
  /\ UNCHANGED <<version, cacheVars, histVars>>

(* The request of a lookup, a listing or a JSON describe throws. *)
RequestFails(t) ==
  /\ task[t].pc \in {"tooling", "describe", "list", "json"}
  /\ Release(t)
  /\ UNCHANGED <<version, cacheVars, histVars>>

(* RefreshMetadata without an object. *)
RefreshAll ==
  /\ lock = None
  /\ tables' = [o \in Objects |-> {}]
  /\ listing' = {}
  /\ loaded' = FALSE
  /\ parents' = [o \in Objects |-> {}]
  /\ json' = [o \in Objects |-> {}]
  /\ refreshed' = [o \in Objects |-> version]
  /\ refreshed_all' = version
  /\ described' = [o \in Objects |-> [table |-> 0, parent |-> 0]]
  /\ UNCHANGED <<version, lock, task>>

(* A mutant of RefreshObject: the parent's describe stays. *)
RefreshObjectKeepsParent(o) ==
  /\ lock = None
  /\ tables' = [tables EXCEPT ![o] = {}]
  /\ json' = [json EXCEPT ![o] = {}]
  /\ refreshed' = [refreshed EXCEPT ![o] = version]
  /\ described' = [described EXCEPT ![o] = [table |-> 0, parent |-> 0]]
  /\ UNCHANGED <<version, lock, task, parents, listing, loaded, refreshed_all>>

(* RefreshMetadata of one object. *)
RefreshObject(o) ==
  /\ lock = None
  /\ tables' = [tables EXCEPT ![o] = {}]
  /\ parents' = [parents EXCEPT ![o] = {}]
  /\ json' = [json EXCEPT ![o] = {}]
  /\ refreshed' = [refreshed EXCEPT ![o] = version]
  /\ described' = [described EXCEPT ![o] = [table |-> 0, parent |-> 0]]
  /\ UNCHANGED <<version, lock, task, listing, loaded, refreshed_all>>

-----------------------------------------------------------------------------
(* A thread goes on with what it has begun. *)
Continue(t) ==
  \/ \E clear \in SUBSET Objects : ToolingDescribe(t, clear)
  \/ Describe(t)
  \/ BuildRelationshipField(t)
  \/ ReturnFromParent(t)
  \/ FinishLookup(t)
  \/ EnsureObjectListLoaded(t)
  \/ DescribeJson(t)
  \/ DescribeJsonCached(t)
  \/ RequestFails(t)

Next ==
  \/ SchemaChange
  \/ \E t \in Threads :
       \/ \E o \in Queried, source \in {"describe", "tooling"}, depth \in Depths :
            LookupMiss(t, o, source, depth)
       \/ ListObjects(t)
       \/ \E o \in JsonObjects : JsonMiss(t, o)
       \/ Continue(t)
  \/ RefreshAll
  \/ \E o \in Objects : RefreshObject(o)

Spec == Init /\ [][Next]_vars

(* Requests end (timeouts), and a thread that has begun goes on. *)
FairSpec == Spec /\ \A t \in Threads : WF_vars(Continue(t))

-----------------------------------------------------------------------------
(* Types: each cache holds at most one answer for an object, the recursion *)
(* is at most two levels deep, and a lookup or listing holds the lock.     *)
TypeOK ==
  /\ version \in 0 .. MaxChanges
  /\ lock \in Threads \union {None}
  /\ listing \subseteq Objects
  /\ loaded \in BOOLEAN
  /\ \A o \in Objects :
       /\ Cardinality(tables[o]) <= 1 /\ tables[o] \subseteq Entry
       /\ Cardinality(parents[o]) <= 1 /\ parents[o] \subseteq 0 .. MaxChanges
       /\ Cardinality(json[o]) <= 1 /\ json[o] \subseteq 0 .. MaxChanges
  /\ \A t \in Threads :
       /\ task[t].pc \in {"idle", "tooling", "describe", "expand", "list", "json", "store"}
       /\ task[t].object \in Objects
       /\ task[t].entry \in Entry
       /\ Len(task[t].stack) <= 2
       /\ task[t].visited \subseteq Objects
       /\ (lock = t) <=> task[t].pc \in {"tooling", "describe", "expand", "list"}

(* salesforce_refresh_metadata() takes effect on schemas: a table's own    *)
(* fields and a parent's describe are never older than the last refresh    *)
(* that named the object, and after a global refresh no table shows a      *)
(* parent's fields from before it, whatever was under way at that moment.  *)
NothingStale ==
  \A o \in Objects :
    /\ \A v \in parents[o] : v >= refreshed[o]
    /\ \A e \in tables[o] :
         /\ e.version >= refreshed[o]
         /\ \A s \in e.shows : s.version >= refreshed_all

(* Between two refreshes an object is described at most once as a table    *)
(* and once as a parent, whatever number of connections refer to it at     *)
(* once: describes are API calls that count against the daily limit.       *)
DescribedOnce ==
  \A o \in Objects : described[o].table <= 1 /\ described[o].parent <= 1

(* A path that object o may show, by definition and not by recursion:      *)
(* named single-target references whose objects are all different.         *)
Expandable(o, p) ==
  \A i \in 1 .. Len(p) :
    LET f == References[p[i]]
    IN  /\ f.rel # "" /\ ~ f.clash /\ Cardinality(f.to) = 1 /\ o \notin f.to
        /\ IF i = 1 THEN f.from = o ELSE References[p[i - 1]].to = {f.from}
        /\ \A j \in 1 .. i - 1 : f.to # References[p[j]].to

ExpandablePaths ==
  [ o \in Objects |-> [ depth \in Depths |->
      { p \in Path : Len(p) <= depth /\ Expandable(o, p) } ] ]

IsPrefixOf(q, p) == Len(q) <= Len(p) /\ SubSeq(p, 1, Len(q)) = q

(* A table entry shows exactly the parents and grandparents that can be    *)
(* shown without a cycle, diamonds included (one object over two paths),   *)
(* less those behind an object that could not be described.                *)
ExpansionExact ==
  \A o \in Objects : \A e \in tables[o] :
    { s.path : s \in e.shows } =
      { p \in ExpandablePaths[o][e.depth] : ~ \E q \in e.missed : IsPrefixOf(q, p) }

(* lock_ is held while the org is asked, but never for good: every other   *)
(* connection that binds a query on this org waits behind it.              *)
LockReleased == lock # None ~> lock = None

(* A named refresh leaves the object listing intact: while the list counts *)
(* as loaded, SHOW TABLES shows every object of the org.                   *)
ListingComplete == loaded => \A o \in Objects : o \in listing \/ tables[o] # {}
=============================================================================
