------------------------------ MODULE RestScan ------------------------------
(***************************************************************************)
(* The REST path of a scan: one thread follows the nextRecordsUrl cursors  *)
(* of a SOQL query.  A table scan (ScanAdvancePage and the REST part of    *)
(* ScanFunction, salesforce_scan.cpp) is lazy: it fetches a page when the  *)
(* last one has been handed to DuckDB.  salesforce_query()                 *)
(* (SalesforceSession::Query) is eager: it fetches all pages first.        *)
(*                                                                         *)
(* The org runs the query when the first page is asked for and keeps its   *)
(* result: result[r] is the page row r is on, 0 if it is not in it.  The   *)
(* cursor of page p is the number p.                                       *)
(***************************************************************************)
EXTENDS Naturals, FiniteSets

CONSTANTS
  Row,             \* the rows of the object
  PageBound,       \* bound: pages of one result
  kScanMaxPages,   \* the page guard (1000000 in the code)
  VectorSize,      \* STANDARD_VECTOR_SIZE
  InitialOrgs,     \* bound: the matching rows a scan may find at its start
  ChurnBound       \* bound: changes other clients make during one scan

ASSUME RestAssumption ==
  /\ PageBound \in Nat \ {0}
  /\ kScanMaxPages \in Nat \ {0}
  /\ VectorSize \in Nat \ {0}
  /\ InitialOrgs \subseteq SUBSET Row
  /\ ChurnBound \in Nat

VARIABLES
  org, stable, matched, churn,  \* the rows matching the scan, as in TableScan
  lazy,           \* a table scan, not salesforce_query()
  pc,             \* "advance", "emit", "done", "failed" or, by LIMIT, "stopped"
  result,         \* the result the org keeps for this query
  last_page,      \* its number of pages, 0 before the query ran
  next_path,      \* the page the next request asks for
  done,           \* no page after the current one
  seen,           \* cursors received
  pages_fetched,  \* pages received
  page,           \* rows received and not yet emitted
  out             \* out[r]: times row r was handed to DuckDB

orgVars == <<org, stable, matched, churn>>
vars    == <<orgVars, lazy, pc, result, last_page, next_path, done, seen, pages_fetched,
             page, out>>

NoRows == [r \in Row |-> 0]

Init ==
  /\ org \in InitialOrgs
  /\ stable = org /\ matched = org /\ churn = 0
  /\ lazy \in BOOLEAN
  /\ pc = "advance"
  /\ result = NoRows /\ last_page = 0
  /\ next_path = 1 /\ done = FALSE /\ seen = {} /\ pages_fetched = 0 /\ page = {}
  /\ out = NoRows

-----------------------------------------------------------------------------
(* Other clients of the org.                                               *)

Arrive(r) ==
  /\ churn < ChurnBound
  /\ r \notin org
  /\ org' = org \cup {r}
  /\ matched' = matched \cup {r}
  /\ churn' = churn + 1
  /\ UNCHANGED <<stable, lazy, pc, result, last_page, next_path, done, seen, pages_fetched,
                 page, out>>

Leave(r) ==
  /\ churn < ChurnBound
  /\ r \in org
  /\ org' = org \ {r}
  /\ stable' = stable \ {r}
  /\ churn' = churn + 1
  /\ UNCHANGED <<matched, lazy, pc, result, last_page, next_path, done, seen, pages_fetched,
                 page, out>>

-----------------------------------------------------------------------------
(* The scan.                                                               *)

(* The first request runs the query: its rows come on m pages, in any way, *)
(* and a page may be empty.                                                *)
RunQuery ==
  /\ pc = "advance" /\ last_page = 0
  /\ \E m \in 1 .. PageBound : \E f \in [org -> 1 .. m] :
       /\ last_page' = m
       /\ result' = [r \in Row |-> IF r \in org THEN f[r] ELSE 0]
  /\ UNCHANGED <<orgVars, lazy, pc, next_path, done, seen, pages_fetched, page, out>>

PageRows(p) == { r \in Row : result[r] = p }

(* The cursors the reply to a request for page p may carry, 0 for none; a  *)
(* faulty server may repeat one it has handed out.                         *)
Cursors(p) == {IF p = last_page THEN 0 ELSE p + 1} \cup 2 .. p

(* Where the scan goes on with a page in hand; the eager loop never stops  *)
(* to emit before the last page.                                           *)
AfterPage(rows, last) ==
  CASE rows # {} /\ (lazy \/ last) -> "emit"
    [] rows = {} /\ last -> "done"
    [] OTHER -> "advance"

(* A page arrives; counting stops above the guard. *)
Fetch(p, loc) ==
  /\ pc = "advance" /\ last_page # 0 /\ ~ done
  /\ p = next_path
  /\ loc \in Cursors(p)
  /\ pages_fetched' = IF pages_fetched <= kScanMaxPages THEN pages_fetched + 1 ELSE pages_fetched
  /\ page' = page \cup PageRows(p)

(* A mutant of FollowCursor: neither guard is there. *)
FollowCursorUnguarded ==
  /\ \E loc \in 1 .. PageBound :
       /\ Fetch(next_path, loc)
       /\ next_path' = loc
       /\ seen' = seen \cup {loc}
  /\ pc' = AfterPage(page', FALSE)
  /\ UNCHANGED <<orgVars, lazy, result, last_page, done, out>>

(* A page that is not the last one: its cursor is followed, once. *)
FollowCursor ==
  /\ \E loc \in 1 .. PageBound :
       /\ Fetch(next_path, loc)
       /\ pages_fetched' < kScanMaxPages
       /\ loc \notin seen
       /\ next_path' = loc
       /\ seen' = seen \cup {loc}
  /\ pc' = AfterPage(page', FALSE)
  /\ UNCHANGED <<orgVars, lazy, result, last_page, done, out>>

(* The page guard or the loop guard throws. *)
RefuseCursor ==
  /\ \E loc \in 1 .. PageBound :
       /\ Fetch(next_path, loc)
       /\ pages_fetched' >= kScanMaxPages \/ loc \in seen
  /\ pc' = "failed"
  /\ UNCHANGED <<orgVars, lazy, result, last_page, next_path, done, seen, out>>

(* A mutant of LastPage: the rows of an eager query's last page are dropped. *)
LastPageDropped ==
  /\ Fetch(next_path, 0)
  /\ done' = TRUE
  /\ pc' = IF lazy THEN AfterPage(page', TRUE) ELSE AfterPage({}, TRUE)
  /\ UNCHANGED <<orgVars, lazy, result, last_page, next_path, seen, out>>

LastPage ==
  /\ Fetch(next_path, 0)
  /\ done' = TRUE
  /\ pc' = AfterPage(page', TRUE)
  /\ UNCHANGED <<orgVars, lazy, result, last_page, next_path, seen, out>>

(* The request fails: FetchPage throws. *)
RequestFails ==
  /\ pc = "advance" /\ ~ done
  /\ pc' = "failed"
  /\ UNCHANGED <<orgVars, lazy, result, last_page, next_path, done, seen, pages_fetched, page,
                 out>>

(* A mutant of AfterEmit: the next page is fetched as soon as one vector   *)
(* of the current one has been handed out.                                 *)
AfterEmitPrefetch(rest) == IF done /\ rest # {} THEN "emit" ELSE "advance"

(* The page is drained to its end before the scan goes on. *)
AfterEmit(rest) == IF rest # {} THEN "emit" ELSE "advance"

(* One call hands DuckDB the next rows, a vector at most. *)
EmitVector ==
  /\ pc = "emit"
  /\ \E S \in SUBSET page :
       /\ S = page \/ Cardinality(S) = VectorSize
       /\ Cardinality(S) <= VectorSize
       /\ page' = page \ S
       /\ pc' = AfterEmit(page \ S)
       /\ out' = [r \in Row |-> IF r \in S THEN out[r] + 1 ELSE out[r]]
  /\ UNCHANGED <<orgVars, lazy, result, last_page, next_path, done, seen, pages_fetched>>

(* The last page was drained: the next call returns no rows. *)
NoMoreRows ==
  /\ pc = "advance" /\ done
  /\ pc' = "done"
  /\ UNCHANGED <<orgVars, lazy, result, last_page, next_path, done, seen, pages_fetched, page,
                 out>>

(* A LIMIT is satisfied: DuckDB does not call the scan again. *)
StopPulling ==
  /\ pc \in {"advance", "emit"}
  /\ \E r \in Row : out[r] > 0
  /\ pc' = "stopped"
  /\ UNCHANGED <<orgVars, lazy, result, last_page, next_path, done, seen, pages_fetched, page,
                 out>>

Step ==
  \/ RunQuery
  \/ FollowCursor
  \/ RefuseCursor
  \/ LastPage
  \/ RequestFails
  \/ EmitVector
  \/ NoMoreRows

Terminated == pc \in {"done", "failed", "stopped"}

(* The scan is over: nothing happens any more (the org goes on elsewhere). *)
Idle == Terminated /\ UNCHANGED vars

Next ==
  \/ Step
  \/ StopPulling
  \/ \E r \in Row : Arrive(r)
  \/ \E r \in Row : Leave(r)
  \/ Idle

Spec == Init /\ [][Next]_vars

(* DuckDB goes on calling, or stops, and every request ends (timeouts). *)
FairSpec == Spec /\ WF_vars(Step)

-----------------------------------------------------------------------------
(* Properties.                                                             *)

(* Every variable keeps its type. *)
TypeOK ==
  /\ org \subseteq Row /\ stable \subseteq Row /\ matched \subseteq Row
  /\ churn \in 0 .. ChurnBound
  /\ lazy \in BOOLEAN
  /\ pc \in {"advance", "emit", "done", "failed", "stopped"}
  /\ result \in [Row -> 0 .. PageBound]
  /\ last_page \in 0 .. PageBound
  /\ next_path \in 1 .. PageBound
  /\ done \in BOOLEAN
  /\ seen \subseteq 1 .. PageBound
  /\ pages_fetched \in 0 .. kScanMaxPages
  /\ page \subseteq Row
  /\ out \in [Row -> Nat]

(* A table scan asks for a page only when DuckDB has taken every row of    *)
(* the pages before it: a small LIMIT never triggers the next-page fetch.  *)
LazyFetch ==
  [][lazy /\ pages_fetched' > pages_fetched =>
       \A r \in Row : result[r] \in 1 .. next_path - 1 => out[r] = 1]_vars

(* The scan ends, also when the org hands out cursors in a loop. *)
Termination == <> Terminated

scanStatus ==
  CASE pc = "done" -> "done" [] pc = "failed" -> "failed" [] OTHER -> "running"

Promise == INSTANCE TableScan WITH status <- scanStatus

(* The REST path implements what a table scan promises DuckDB: no row      *)
(* twice, and none lost when it ends without an error, with empty pages,   *)
(* repeated cursors and a changing org.                                    *)
ImplementsTableScan == Promise!Spec
=============================================================================
