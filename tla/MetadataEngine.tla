--------------------------- MODULE MetadataEngine ---------------------------
(***************************************************************************)
(* The metadata engine of an attached org (salesforce_metadata_engine.cpp):*)
(* its cache of describes and of the global object list, and the walk of   *)
(* salesforce_relationship_graph over parents and children, which asks it. *)
(* Calls of one connection follow one another; which objects the org can   *)
(* describe changes between them.  ReportBridge adds the other functions   *)
(* that ask the same engine.                                               *)
(***************************************************************************)
EXTENDS Integers, Sequences, SequencesExt

CONSTANTS
  Objects,
  Parents,     \* the relationship fields of an object: Seq([refs : Seq(Objects)])
  Children,    \* its child relationships: Seq([named : BOOLEAN, object : Objects])
  Queryable,   \* the objects Describe Global calls queryable
  Flaky,       \* the objects the org may fail to describe
  kMaxDepth,   \* max_depth is clamped to it (4 in the code)
  MaxCalls     \* bound: calls of the function

(* The relationships of an object are lists, as its describe has them. *)
ASSUME MetadataEngineAssumption ==
  /\ Queryable \subseteq Objects /\ Flaky \subseteq Objects
  /\ kMaxDepth \in Nat \ {0} /\ MaxCalls \in Nat
  /\ \A o \in Objects :
       Parents[o] \in Seq(Range(Parents[o])) /\ Children[o] \in Seq(Range(Children[o]))

VARIABLES
  down,           \* the objects the org fails to describe
  describe_,      \* the objects whose describe is cached
  global_loaded_, \* is the global object list cached
  root,           \* the object of the call
  max_depth,
  want,           \* the directions still to be walked, the first one now
  stack,          \* the active walks: object, its next edge, the path to it
  visited,        \* the ancestor chain
  rows,           \* the edges found
  calls,
  status          \* "idle", "walking", "bridge" (another function), "done", "failed"

engine == <<describe_, global_loaded_>>

engineVars == <<down, describe_, global_loaded_, root, max_depth, want, stack, visited, rows, calls, status>>

None == "none"

EngineInit ==
  /\ down \in SUBSET Flaky
  /\ describe_ = {} /\ global_loaded_ = FALSE
  /\ root = None /\ max_depth = 1 /\ want = << >>
  /\ stack = << >> /\ visited = << >> /\ rows = << >>
  /\ calls = 0
  /\ status = "idle"

-----------------------------------------------------------------------------
(* The engine.                                                             *)

(* GetObjectDescribe returns or throws. *)
Describable(o) == o \in describe_ \/ o \notin down

(* What it leaves in the cache. *)
Cached(o) == IF Describable(o) THEN describe_ \union {o} ELSE describe_

(* Between calls the org changes, and so do the answers it gives. *)
OrgChanges ==
  /\ status = "idle"
  /\ down' \in SUBSET Flaky
  /\ UNCHANGED <<engine, root, max_depth, want, stack, visited, rows, calls, status>>

(* salesforce_refresh_metadata(catalog, object). *)
Refresh(o) ==
  /\ status = "idle"
  /\ describe_' = describe_ \ {o}
  /\ UNCHANGED <<down, global_loaded_, root, max_depth, want, stack, visited, rows, calls, status>>

RefreshAll ==
  /\ status = "idle"
  /\ describe_' = {} /\ global_loaded_' = FALSE
  /\ UNCHANGED <<down, root, max_depth, want, stack, visited, rows, calls, status>>

-----------------------------------------------------------------------------
(* The walk.                                                               *)

Edges(way, o) == IF way = "parent" THEN Parents[o] ELSE Children[o]

(* The object an edge leads to; a polymorphic one leads nowhere. *)
Polymorphic(way, e) == way = "parent" /\ Len(e.refs) # 1

Target(way, e) == IF way = "parent" THEN e.refs[1] ELSE e.object

(* RelGraphWalk: what is said of an edge of o, and whether IsQueryable is  *)
(* asked for it.  chain: o and its ancestors.                              *)
ParentStatus(e, o, chain) ==
  IF Polymorphic("parent", e) THEN "polymorphic"
  ELSE IF Target("parent", e) = o THEN "self_reference"
  ELSE IF Target("parent", e) \in Range(chain) THEN "cyclic"
  ELSE IF Target("parent", e) \in Queryable THEN "resolved"
  ELSE "not_queryable"

(* RelGraphChildWalk: an unqueryable child is not even a cycle. *)
ChildStatus(e, chain) ==
  IF ~ e.named THEN "unnamed_child"
  ELSE IF e.object \notin Queryable THEN "not_queryable"
  ELSE IF e.object \in Range(chain) THEN "cyclic"
  ELSE "resolved"

EdgeStatus(way, e, o, chain) ==
  IF way = "parent" THEN ParentStatus(e, o, chain) ELSE ChildStatus(e, chain)

AsksQueryable(way, e, o, chain) ==
  IF way = "parent" THEN ParentStatus(e, o, chain) \in {"resolved", "not_queryable"} ELSE e.named

Frame(o, path) == [ object |-> o, next |-> 1, path |-> path ]

(* RelGraphBind: max_depth must be positive, the root describable. *)
RelGraphBind(r, depth, ways) ==
  /\ status = "idle" /\ calls < MaxCalls
  /\ depth >= 1
  /\ calls' = calls + 1
  /\ root' = r
  /\ rows' = << >>
  /\ max_depth' = IF depth > kMaxDepth THEN kMaxDepth ELSE depth
  /\ want' = ways
  /\ describe_' = Cached(r)
  /\ IF Describable(r)
     THEN status' = "walking" /\ stack' = << Frame(r, << >>) >> /\ visited' = << r >>
     ELSE status' = "failed" /\ stack' = << >> /\ visited' = << >>
  /\ UNCHANGED <<down, global_loaded_>>

Top == Last(stack)

Advanced == [stack EXCEPT ![Len(stack)].next = @ + 1]

(* A mutant of Deeper: one level too many. *)
DeeperByOne == Len(stack) <= max_depth

(* An edge is followed below max_depth only. *)
Deeper == Len(stack) < max_depth

(* The next edge of the object on top. *)
WalkEdge ==
  /\ status = "walking"
  /\ stack # << >>
  /\ Top.next <= Len(Edges(want[1], Top.object))
  /\ LET way == want[1]
         e == Edges(way, Top.object)[Top.next]
         found == EdgeStatus(way, e, Top.object, visited)
         path == Append(Top.path, Top.next)
         Row(s) == [ way |-> way, path |-> path, status |-> s ]
     IN  /\ global_loaded_' = (global_loaded_ \/ AsksQueryable(way, e, Top.object, visited))
         /\ IF found = "resolved" /\ Deeper
            THEN /\ describe_' = Cached(Target(way, e))
                 /\ IF Describable(Target(way, e))
                    THEN /\ rows' = Append(rows, Row("resolved"))
                         /\ stack' = Append(Advanced, Frame(Target(way, e), path))
                         /\ visited' = Append(visited, Target(way, e))
                    ELSE /\ rows' = Append(rows, Row("not_describable"))
                         /\ stack' = Advanced
                         /\ UNCHANGED visited
            ELSE /\ rows' = Append(rows, Row(found))
                 /\ stack' = Advanced
                 /\ UNCHANGED <<describe_, visited>>
  /\ UNCHANGED <<down, root, max_depth, want, calls, status>>

(* IsQueryable throws when Describe Global fails, and nobody catches it. *)
GlobalDescribeFails ==
  /\ status = "walking"
  /\ stack # << >>
  /\ Top.next <= Len(Edges(want[1], Top.object))
  /\ ~ global_loaded_
  /\ AsksQueryable(want[1], Edges(want[1], Top.object)[Top.next], Top.object, visited)
  /\ status' = "failed"
  /\ UNCHANGED <<down, engine, root, max_depth, want, stack, visited, rows, calls>>

(* A mutant of WalkReturn: the object stays on the ancestor chain. *)
WalkReturnKeepsVisited ==
  /\ status = "walking"
  /\ stack # << >>
  /\ Top.next > Len(Edges(want[1], Top.object))
  /\ stack' = Front(stack)
  /\ UNCHANGED <<down, engine, root, max_depth, want, visited, rows, calls, status>>

(* All edges of the object on top are done. *)
WalkReturn ==
  /\ status = "walking"
  /\ stack # << >>
  /\ Top.next > Len(Edges(want[1], Top.object))
  /\ stack' = Front(stack)
  /\ visited' = Front(visited)
  /\ UNCHANGED <<down, engine, root, max_depth, want, rows, calls, status>>

(* One direction is done; the other starts with a chain of its own. *)
NextDirection ==
  /\ status = "walking"
  /\ stack = << >>
  /\ want' = Tail(want)
  /\ IF Len(want) > 1
     THEN stack' = << Frame(root, << >>) >> /\ visited' = << root >> /\ UNCHANGED status
     ELSE status' = "done" /\ UNCHANGED <<stack, visited>>
  /\ UNCHANGED <<down, engine, root, max_depth, rows, calls>>

(* The rows are emitted, or the error is raised; the bind data goes. *)
Return ==
  /\ status \in {"done", "failed"}
  /\ status' = "idle"
  /\ root' = None /\ max_depth' = 1 /\ want' = << >>
  /\ stack' = << >> /\ visited' = << >> /\ rows' = << >>
  /\ UNCHANGED <<down, engine, calls>>

(* A step of a call of salesforce_relationship_graph, or of the org. *)
GraphNext ==
  \/ OrgChanges
  \/ \E r \in Objects, depth \in 0 .. kMaxDepth + 1,
        ways \in {<<"parent">>, <<"child">>, <<"parent", "child">>} : RelGraphBind(r, depth, ways)
  \/ WalkEdge \/ GlobalDescribeFails \/ WalkReturn \/ NextDirection

-----------------------------------------------------------------------------
(* Properties.                                                             *)

(* Every variable keeps its type; the walk and its chain stay in step. *)
EngineTypeOK ==
  /\ down \subseteq Objects /\ describe_ \subseteq Objects
  /\ global_loaded_ \in BOOLEAN
  /\ root \in Objects \union {None} /\ max_depth \in 1 .. kMaxDepth
  /\ Range(want) \subseteq {"parent", "child"}
  /\ Len(stack) <= max_depth
  /\ status = "walking" => visited = [k \in DOMAIN stack |-> stack[k].object]
  /\ calls \in 0 .. MaxCalls
  /\ status \in {"idle", "walking", "bridge", "done", "failed"}

(* The chains of objects that lead from the root over k edges which are    *)
(* resolved and describable, with their paths.                             *)
ChainsOf(way) ==
  LET C[k \in 0 .. max_depth - 1] ==
        IF k = 0 THEN {[ objects |-> << root >>, path |-> << >> ]}
        ELSE UNION { { [ objects |-> Append(c.objects, Target(way, Edges(way, Last(c.objects))[i])),
                         path |-> Append(c.path, i) ] :
                         i \in { j \in DOMAIN Edges(way, Last(c.objects)) :
                                   LET e == Edges(way, Last(c.objects))[j]
                                   IN  /\ EdgeStatus(way, e, Last(c.objects), c.objects) = "resolved"
                                       /\ Describable(Target(way, e)) } } :
                       c \in C[k - 1] }
  IN  UNION { C[k] : k \in 0 .. max_depth - 1 }

(* The edges of those chains, each with its status. *)
EdgesOf(way) ==
  UNION { { [ way |-> way, path |-> Append(c.path, i),
              status |-> LET e == Edges(way, Last(c.objects))[i]
                             s == EdgeStatus(way, e, Last(c.objects), c.objects)
                         IN  IF /\ s = "resolved" /\ Len(c.objects) < max_depth
                                /\ ~ Describable(Target(way, e))
                             THEN "not_describable" ELSE s ] :
              i \in DOMAIN Edges(way, Last(c.objects)) } : c \in ChainsOf(way) }

(* A call reports every edge of every chain of distinct objects up to      *)
(* max_depth exactly once, whatever the walk met before on other branches  *)
(* and whatever earlier calls left in the cache.                           *)
GraphExact ==
  /\ status \in {"walking", "done"} => IsInjective(rows)
  /\ status = "walking" /\ stack = << >> =>
       { r \in Range(rows) : r.way = want[1] } = EdgesOf(want[1])
=============================================================================
