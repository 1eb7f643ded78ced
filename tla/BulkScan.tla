------------------------------ MODULE BulkScan ------------------------------
(***************************************************************************)
(* The Bulk API 2.0 path of a table scan (salesforce_scan.cpp, #v0.7 8-9): *)
(* SalesforceScanInitGlobal splits the object into Id-range chunks, then   *)
(* the threads of the query claim chunks from an atomic dispenser, start   *)
(* one quota-gated job per chunk and stream its result pages, following    *)
(* the locators the server hands out.  Meanwhile other clients change the  *)
(* org, any request may fail, and the server may repeat a locator.         *)
(*                                                                         *)
(* A job's result is modelled by job[t], which gives every row the number  *)
(* of the result page it is on, 0 for a row that is not in the result.     *)
(* The locator of page p is the number p; 0 stands for "no locator".       *)
(***************************************************************************)
EXTENDS PkChunking, Sequences, FiniteSets

CONSTANTS
  Threads,          \* DuckDB's worker threads, 1 .. some number
  ChunkSettings,    \* values of sf_bulk_chunks / the ATTACH option
  PageBound,        \* bound: result pages of one job
  kBulkMaxPages,    \* the page guard (1000000 in the code)
  VectorSize,       \* STANDARD_VECTOR_SIZE
  InitialOrgs,      \* bound: the matching rows a scan may find at its start
  ChurnBound        \* bound: changes other clients make during one scan

ASSUME BulkAssumption ==
  /\ Threads \subseteq Nat \ {0}
  /\ ChunkSettings \subseteq Int
  /\ PageBound \in Nat \ {0}
  /\ kBulkMaxPages \in Nat \ {0}
  /\ VectorSize \in Nat \ {0}
  /\ InitialOrgs \subseteq SUBSET Id
  /\ ChurnBound \in Nat

VARIABLES
  org, stable, matched,  \* the rows matching the scan, as in TableScan
  churn,                 \* changes other clients made so far
  chunks,                \* bulk_chunk_soqls: the Id range of each chunk
  next_chunk,            \* the dispenser: index of the next chunk to claim
  active,                \* the threads DuckDB runs this scan on
  total_bulk_pages,      \* result pages fetched by all threads
  pages_reported,        \* pages of salesforce_last_scan_pages()
  pc,                    \* where each thread is in ScanFunction
  idx,                   \* the chunk a thread claimed
  job,                   \* the result of its job: row -> page, 0 if absent
  last_page,             \* number of pages of that result
  page_no,               \* the page the next fetch asks for
  next_locator,          \* the locator that came with the page just fetched
  seen,                  \* locators received for the current chunk
  chunk_done,            \* the current chunk has no page left
  ticket,                \* the page total this thread got from fetch_add
  page,                  \* rows of the current page not yet emitted
  out                    \* out[r]: times row r was handed to DuckDB

orgVars    == <<org, stable, matched, churn>>
globalVars == <<chunks, next_chunk, active, total_bulk_pages, pages_reported>>
localVars  == <<pc, idx, job, last_page, page_no, next_locator, seen, chunk_done,
                ticket, page>>
vars       == <<orgVars, globalVars, localVars, out>>

NoRows == [r \in Id |-> 0]

Init ==
  /\ org \in InitialOrgs
  /\ stable = org /\ matched = org /\ churn = 0
  /\ chunks = <<>> /\ next_chunk = 0 /\ active = {}
  /\ total_bulk_pages = 0 /\ pages_reported = 0
  /\ pc = [t \in Threads |-> "off"]
  /\ idx = [t \in Threads |-> 0]
  /\ job = [t \in Threads |-> NoRows]
  /\ last_page = [t \in Threads |-> 0]
  /\ page_no = [t \in Threads |-> 1]
  /\ next_locator = [t \in Threads |-> 0]
  /\ seen = [t \in Threads |-> {}]
  /\ chunk_done = [t \in Threads |-> FALSE]
  /\ ticket = [t \in Threads |-> 0]
  /\ page = [t \in Threads |-> {}]
  /\ out = NoRows

-----------------------------------------------------------------------------
(* Other clients of the org.                                               *)

Arrive(r) ==
  /\ churn < ChurnBound
  /\ r \notin org
  /\ org' = org \cup {r}
  /\ matched' = matched \cup {r}
  /\ churn' = churn + 1
  /\ UNCHANGED <<stable, globalVars, localVars, out>>

Leave(r) ==
  /\ churn < ChurnBound
  /\ r \in org
  /\ org' = org \ {r}
  /\ stable' = stable \ {r}
  /\ churn' = churn + 1
  /\ UNCHANGED <<matched, globalVars, localVars, out>>

-----------------------------------------------------------------------------
(* SalesforceScanInitGlobal, once per scan and before any thread runs.     *)

(* A mutant of ClampChunks: the setting is not capped. *)
ClampChunksUncapped(c) == IF c < 1 THEN 1 ELSE c

(* chunks < 1 means 1; the cap is 8 in the code. *)
ClampChunks(c) == IF c < 1 THEN 1 ELSE IF c > ChunkCap THEN ChunkCap ELSE c

(* A mutant of MinMaxIds: min_id <= max_id is accepted. *)
MinMaxIdsNotStrict ==
  { p \in org \X org : \A r \in org : p[1] <= r /\ r <= p[2] }

(***************************************************************************)
(* TryMinMaxId: the MIN and MAX Id of the rows matching now.  The probe    *)
(* yields nothing when no row matches or when min_id < max_id fails.       *)
(***************************************************************************)
MinMaxIds ==
  { p \in org \X org : p[1] < p[2] /\ \A r \in org : p[1] <= r /\ r <= p[2] }

(***************************************************************************)
(* The chunk list is built from the probe's answer, or is the single       *)
(* unsplit chunk when splitting is off or the probe fails or yields        *)
(* nothing.  max_threads is the number of chunks; DuckDB runs the scan on  *)
(* at least one and at most that many threads.                             *)
(***************************************************************************)
BulkChunkLists(n) ==
  { <<WholeObject>> } \cup
  (IF n > 1 THEN UNION { BuildIdRangeWheres(p[1], p[2], n) : p \in MinMaxIds } ELSE {})

InitGlobal ==
  /\ active = {}
  /\ \E c \in ChunkSettings : \E list \in BulkChunkLists(ClampChunks(c)) :
     \E A \in SUBSET Threads :
       /\ A # {}
       /\ \A t \in A : t \in DOMAIN list
       /\ chunks' = list
       /\ active' = A
       /\ pc' = [t \in Threads |-> IF t \in A THEN "claim" ELSE "off"]
  /\ UNCHANGED <<orgVars, next_chunk, total_bulk_pages, pages_reported, idx, job, last_page,
                 page_no, next_locator, seen, chunk_done, ticket, page, out>>

-----------------------------------------------------------------------------
(* ScanFunction on thread t.                                               *)

Goto(t, from, to) ==
  /\ pc[t] = from
  /\ pc' = [pc EXCEPT ![t] = to]

(* The thread throws: its chunk is lost and the query fails. *)
Throw(t, from) ==
  /\ Goto(t, from, "failed")
  /\ UNCHANGED <<orgVars, globalVars, idx, job, last_page, page_no, next_locator, seen,
                 chunk_done, ticket, page, out>>

(* A mutant of ClaimChunk: the dispenser is read and bumped in two steps. *)
ClaimChunkNotAtomic(t) ==
  /\ \/ /\ pc[t] = "claim" /\ idx[t] # next_chunk
        /\ idx' = [idx EXCEPT ![t] = next_chunk]
        /\ UNCHANGED <<next_chunk, pc>>
     \/ /\ pc[t] = "claim"
        /\ next_chunk' = idx[t] + 1
        /\ pc' = [pc EXCEPT ![t] = IF idx[t] >= Len(chunks) THEN "done" ELSE "gate"]
        /\ UNCHANGED idx
  /\ UNCHANGED <<orgVars, chunks, active, total_bulk_pages, pages_reported, job, last_page,
                 page_no, next_locator, seen, chunk_done, ticket, page, out>>

ClaimChunk(t) ==
  /\ pc[t] = "claim"
  /\ next_chunk' = next_chunk + 1
  /\ IF next_chunk >= Len(chunks)
       THEN /\ pc' = [pc EXCEPT ![t] = "done"]
            /\ UNCHANGED idx
       ELSE /\ pc' = [pc EXCEPT ![t] = "gate"]
            /\ idx' = [idx EXCEPT ![t] = next_chunk]
  /\ UNCHANGED <<orgVars, chunks, active, total_bulk_pages, pages_reported, job, last_page,
                 page_no, next_locator, seen, chunk_done, ticket, page, out>>

(* QuotaGuardBulkStart lets the job start, or throws. *)
PassQuotaGuard(t) ==
  /\ Goto(t, "gate", "start")
  /\ UNCHANGED <<orgVars, globalVars, idx, job, last_page, page_no, next_locator, seen,
                 chunk_done, ticket, page, out>>

(* The rows a job with this range finds in the org. *)
JobRows(rg) == { r \in org : InRange(r, rg) }

(* The results it may have: these rows, spread over m pages in any way. *)
JobResults(rg, m) ==
  { [r \in Id |-> IF r \in JobRows(rg) THEN f[r] ELSE 0] : f \in [JobRows(rg) -> 1 .. m] }

(***************************************************************************)
(* BulkStartJob creates the job and waits for it to complete; the streaming *)
(* state of the previous chunk is reset.                                   *)
(***************************************************************************)
StartJob(t) ==
  /\ Goto(t, "start", "advance")
  /\ \E m \in 1 .. PageBound : \E f \in JobResults(chunks[idx[t] + 1], m) :
       /\ job' = [job EXCEPT ![t] = f]
       /\ last_page' = [last_page EXCEPT ![t] = m]
  /\ page_no' = [page_no EXCEPT ![t] = 1]
  /\ next_locator' = [next_locator EXCEPT ![t] = 0]
  /\ seen' = [seen EXCEPT ![t] = {}]
  /\ chunk_done' = [chunk_done EXCEPT ![t] = FALSE]
  /\ UNCHANGED <<orgVars, globalVars, idx, ticket, page, out>>

(* The rows of page p of thread t's job. *)
PageRows(t, p) == { r \in Id : job[t][r] = p }

(***************************************************************************)
(* BulkAdvancePage, up to the fetch_add: one result page arrives with the  *)
(* locator of the next one, the last page with none; a faulty server may   *)
(* repeat a locator it has already handed out.                             *)
(***************************************************************************)
FetchResultPage(t) ==
  /\ ~ chunk_done[t]
  /\ Goto(t, "advance", "publish")
  /\ page' = [page EXCEPT ![t] = PageRows(t, page_no[t])]
  /\ \E loc \in seen[t] \cup {IF page_no[t] = last_page[t] THEN 0 ELSE page_no[t] + 1} :
       next_locator' = [next_locator EXCEPT ![t] = loc]
  /\ total_bulk_pages' = total_bulk_pages + 1
  /\ ticket' = [ticket EXCEPT ![t] = total_bulk_pages + 1]
  /\ UNCHANGED <<orgVars, chunks, next_chunk, active, pages_reported, idx, job, last_page,
                 page_no, seen, chunk_done, out>>

(***************************************************************************)
(* SetLastScanPages and DiagSetPages store the total this thread drew,     *)
(* whatever other threads stored since; the page's locals go out of scope. *)
(***************************************************************************)
PublishPages(t) ==
  /\ pages_reported' = ticket[t]
  /\ ticket' = [ticket EXCEPT ![t] = 0]
  /\ next_locator' = [next_locator EXCEPT ![t] = 0]

(* Where a thread goes once it has a page: the rest of ScanFunction's loop. *)
AfterPage(t, done) ==
  IF page[t] # {} THEN "emit" ELSE IF done THEN "claim" ELSE "advance"

(* A mutant of FollowLocator: a locator seen before is followed again. *)
FollowLocatorUnguarded(t) ==
  /\ Goto(t, "publish", AfterPage(t, FALSE))
  /\ next_locator[t] # 0
  /\ seen' = [seen EXCEPT ![t] = @ \cup {next_locator[t]}]
  /\ page_no' = [page_no EXCEPT ![t] = next_locator[t]]
  /\ PublishPages(t)
  /\ UNCHANGED <<orgVars, chunks, next_chunk, active, total_bulk_pages, idx, job, last_page,
                 chunk_done, page, out>>

(* The page total is published and a new locator is followed. *)
FollowLocator(t) ==
  /\ Goto(t, "publish", AfterPage(t, FALSE))
  /\ next_locator[t] # 0
  /\ ticket[t] < kBulkMaxPages
  /\ next_locator[t] \notin seen[t]
  /\ seen' = [seen EXCEPT ![t] = @ \cup {next_locator[t]}]
  /\ page_no' = [page_no EXCEPT ![t] = next_locator[t]]
  /\ PublishPages(t)
  /\ UNCHANGED <<orgVars, chunks, next_chunk, active, total_bulk_pages, idx, job, last_page,
                 chunk_done, page, out>>

(* The page guard or the loop guard throws, after the total is published. *)
RefuseLocator(t) ==
  /\ Goto(t, "publish", "failed")
  /\ next_locator[t] # 0
  /\ ticket[t] >= kBulkMaxPages \/ next_locator[t] \in seen[t]
  /\ PublishPages(t)
  /\ UNCHANGED <<orgVars, chunks, next_chunk, active, total_bulk_pages, idx, job, last_page,
                 page_no, seen, chunk_done, page, out>>

(* The last page of the chunk: no locator came with it. *)
FinishChunk(t) ==
  /\ Goto(t, "publish", AfterPage(t, TRUE))
  /\ next_locator[t] = 0
  /\ chunk_done' = [chunk_done EXCEPT ![t] = TRUE]
  /\ PublishPages(t)
  /\ UNCHANGED <<orgVars, chunks, next_chunk, active, total_bulk_pages, idx, job, last_page,
                 page_no, seen, page, out>>

(* A mutant of ReleaseChunk: has_chunk is not reset. *)
ReleaseChunkKept(t) ==
  /\ chunk_done[t]
  /\ Goto(t, "advance", "advance")
  /\ UNCHANGED <<orgVars, globalVars, idx, job, last_page, page_no, next_locator, seen,
                 chunk_done, ticket, page, out>>

(* The last page was drained: the thread gives up the chunk. *)
ReleaseChunk(t) ==
  /\ chunk_done[t]
  /\ Goto(t, "advance", "claim")
  /\ UNCHANGED <<orgVars, globalVars, idx, job, last_page, page_no, next_locator, seen,
                 chunk_done, ticket, page, out>>

(* One call hands DuckDB the next rows of the page, a vector at most. *)
EmitVector(t) ==
  /\ pc[t] = "emit"
  /\ \E S \in SUBSET page[t] :
       /\ S = page[t] \/ Cardinality(S) = VectorSize
       /\ Cardinality(S) <= VectorSize
       /\ page' = [page EXCEPT ![t] = @ \ S]
       /\ pc' = [pc EXCEPT ![t] = IF S = page[t] THEN "advance" ELSE "emit"]
       /\ out' = [r \in Id |-> IF r \in S THEN out[r] + 1 ELSE out[r]]
  /\ UNCHANGED <<orgVars, globalVars, idx, job, last_page, page_no, next_locator, seen,
                 chunk_done, ticket>>

Step(t) ==
  \/ ClaimChunk(t)
  \/ PassQuotaGuard(t)
  \/ StartJob(t)
  \/ FetchResultPage(t)
  \/ FollowLocator(t)
  \/ RefuseLocator(t)
  \/ FinishChunk(t)
  \/ ReleaseChunk(t)
  \/ EmitVector(t)

(* The quota guard, the job or a result request throws. *)
RequestFails(t) ==
  \/ Throw(t, "gate")
  \/ Throw(t, "start")
  \/ ~ chunk_done[t] /\ Throw(t, "advance")

Terminated == active # {} /\ \A t \in active : pc[t] \in {"done", "failed"}

(* The scan is over: nothing happens any more (the org goes on elsewhere). *)
Idle == Terminated /\ UNCHANGED vars

Next ==
  \/ InitGlobal
  \/ \E t \in Threads : Step(t)
  \/ \E t \in Threads : RequestFails(t)
  \/ \E r \in Id : Arrive(r)
  \/ \E r \in Id : Leave(r)
  \/ Idle

Spec == Init /\ [][Next]_vars

(***************************************************************************)
(* DuckDB calls the scan function of every thread until it returns no row  *)
(* (no LIMIT stops the query) and a request returns or fails in the end    *)
(* (the transport has timeouts): each thread keeps stepping.               *)
(***************************************************************************)
FairSpec ==
  /\ Spec
  /\ WF_vars(InitGlobal)
  /\ \A t \in Threads : WF_vars(Step(t) \/ RequestFails(t))

-----------------------------------------------------------------------------
(* Properties.                                                             *)

ChunkRange == [lo : Id, hi : Id, last : BOOLEAN]

Locations ==
  {"off", "claim", "gate", "start", "advance", "publish", "emit", "done", "failed"}

(* Every variable keeps its type; the chunk list never exceeds the cap and *)
(* a thread that works on a chunk claimed one that exists.                 *)
TypeOK ==
  /\ org \in SUBSET Id /\ stable \in SUBSET Id /\ matched \in SUBSET Id
  /\ churn \in 0 .. ChurnBound
  /\ chunks \in Seq(ChunkRange) /\ Len(chunks) <= ChunkCap
  /\ next_chunk \in Nat
  /\ active \in SUBSET Threads
  /\ total_bulk_pages \in Nat /\ pages_reported \in Nat
  /\ pc \in [Threads -> Locations]
  /\ idx \in [Threads -> Nat]
  /\ job \in [Threads -> [Id -> 0 .. PageBound]]
  /\ last_page \in [Threads -> 0 .. PageBound]
  /\ page_no \in [Threads -> 1 .. PageBound]
  /\ next_locator \in [Threads -> 0 .. PageBound]
  /\ seen \in [Threads -> SUBSET (1 .. PageBound)]
  /\ chunk_done \in [Threads -> BOOLEAN]
  /\ ticket \in [Threads -> Nat]
  /\ page \in [Threads -> SUBSET Id]
  /\ out \in [Id -> Nat]

(* No row reaches DuckDB twice, whatever the threads' interleaving, the    *)
(* changes of the org between two jobs and the locators of the server.     *)
AtMostOnce == \A r \in Id : out[r] <= 1

Succeeded == Terminated /\ \A t \in active : pc[t] = "done"

(* A scan that ends without an error has delivered every row that matched  *)
(* from its beginning to its end: no chunk, page or boundary Id is lost.   *)
NothingLost == Succeeded => \A r \in stable : out[r] = 1

(* The scan ends: the dispenser runs dry, every chunk's pages come to an   *)
(* end, and a locator loop is broken instead of followed for ever.         *)
Termination == <> Terminated

scanStatus ==
  IF Succeeded THEN "done"
  ELSE IF \E t \in active : pc[t] = "failed" THEN "failed" ELSE "running"

Promise == INSTANCE TableScan WITH Row <- Id, status <- scanStatus

(* The Bulk path implements what a table scan promises DuckDB. *)
ImplementsTableScan == Promise!Spec
=============================================================================
