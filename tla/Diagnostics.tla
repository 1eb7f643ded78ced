---------------------------- MODULE Diagnostics -----------------------------
(***************************************************************************)
(* The last-scan diagnostics: one record for the whole process             *)
(* (salesforce_diag.cpp) and four smaller ones (salesforce_soql.cpp), each *)
(* behind a lock of its own.  A scan fills them piece by piece: its        *)
(* InitGlobal, then every thread that fetches pages, polls a job, passes   *)
(* the quota gate or emits rows.  salesforce_last_soql(),                  *)
(* salesforce_query_cost() and the others show what was written last.      *)
(*                                                                         *)
(* Writes that follow one another at once are one step: the SOQL,          *)
(* transport and page count of an aggregate, the SOQL and page count of a  *)
(* COUNT, the two that begin a Bulk scan.  Only a scan that overlaps, or a *)
(* helper that replaces the SOQL, could come in between, and the           *)
(* properties claim nothing of what those write over.                      *)
(*                                                                         *)
(* A piece of a record is modelled by the scan it was written by.  Scans   *)
(* of several connections, or of one query that joins two tables, may      *)
(* overlap; the extension may be loaded into another database meanwhile.   *)
(***************************************************************************)
EXTENDS Naturals, FiniteSets, Sequences, SequencesExt

CONSTANTS
  Scans,       \* the scans, numbered in the order in which they start
  Threads,     \* the threads of a Bulk scan, one chunk for each of them
  MaxPages,    \* bound: pages of a scan
  MaxBulk,     \* bound: Bulk scans at the same time
  MaxHelpers   \* bound: calls of the functions that are not scans

ASSUME DiagnosticsAssumption ==
  /\ Scans \subseteq Nat \ {0}
  /\ IsFiniteSet(Threads) /\ Threads # {}
  /\ MaxPages \in Nat \ {0} /\ MaxBulk \in Nat \ {0} /\ MaxHelpers \in Nat

Kinds == {"rest", "bulk", "count", "aggregate"}

VARIABLES
  g_last_soql,         \* whose SOQL, and for what: rows, a count, an aggregate
  g_last_scan_pages,
  g_last_transport,
  g_last_bulk_create_body,  \* the scans whose jobs were created, one entry each
  g_cost,              \* the query-cost record
  kind, init,          \* of a scan: its path, the step of its InitGlobal
  stage, total,        \* of a thread: what it does, its copy of the page count
  fetchers,            \* of a scan: the threads that fetched a page
  pages, emitted,      \* of a scan: pages fetched, rows delivered to DuckDB
  overlapped,          \* the scans that did not run alone
  helpers

globals == <<g_last_soql, g_last_scan_pages, g_last_transport, g_last_bulk_create_body, g_cost>>

scanVars == <<kind, init, stage, total, fetchers, pages, emitted>>

vars == <<globals, scanVars, overlapped, helpers>>

NoScan == 0

(* ScanCost {}: what a record holds that nobody has written. *)
FreshCost ==
  [ scan |-> NoScan, soql |-> "none", bulk |-> FALSE, explain |-> NoScan, pages |-> 0, rows |-> 0,
    bulk_chunks |-> 1, bulk_polls |-> NoScan, quota |-> NoScan ]

Init ==
  /\ g_last_soql = [ scan |-> NoScan, for |-> "none" ]
  /\ g_last_scan_pages = 0 /\ g_last_transport = NoScan
  /\ g_last_bulk_create_body = << >>
  /\ g_cost = FreshCost
  /\ kind \in [Scans -> Kinds]
  /\ init = [s \in Scans |-> "new"]
  /\ stage = [s \in Scans |-> [t \in Threads |-> "idle"]]
  /\ total = [s \in Scans |-> [t \in Threads |-> 0]]
  /\ fetchers = [s \in Scans |-> {}]
  /\ pages = [s \in Scans |-> 0] /\ emitted = [s \in Scans |-> 0]
  /\ overlapped = {} /\ helpers = 0

Active(s) == init[s] \notin {"new", "over"}

Threaded(s) == IF kind[s] = "bulk" THEN Threads ELSE { CHOOSE t \in Threads : TRUE }

-----------------------------------------------------------------------------
(* SalesforceScanInitGlobal, one step per write or run of writes.          *)

InitStep(s, from, to) == init[s] = from /\ init' = [init EXCEPT ![s] = to]

(* SetLastSoql for the SELECT; the settings after it may be rejected. *)
BeginInit(s) ==
  /\ \A r \in Scans : r < s => init[r] # "new"
  /\ kind[s] = "bulk" => Cardinality({ r \in Scans : Active(r) /\ kind[r] = "bulk" }) < MaxBulk
  /\ \E to \in {"soql", "over"} : InitStep(s, "new", to)
  /\ g_last_soql' = [ scan |-> s, for |-> "rows" ]
  /\ overlapped' = IF \E r \in Scans : Active(r)
                   THEN overlapped \union {s} \union { r \in Scans : Active(r) } ELSE overlapped
  /\ UNCHANGED <<g_last_scan_pages, g_last_transport, g_last_bulk_create_body, g_cost, kind, stage,
                 total, fetchers, pages, emitted, helpers>>

(* SetLastScanPages(0); the blob guard may still fail the scan. *)
ResetPages(s) ==
  /\ \E to \in {"transport", "over"} : InitStep(s, "soql", to)
  /\ g_last_scan_pages' = 0
  /\ UNCHANGED <<g_last_soql, g_last_transport, g_last_bulk_create_body, g_cost, kind, stage, total,
                 fetchers, pages, emitted, overlapped, helpers>>

(* SetLastTransport, and the SOQL of a pushed aggregate with it.  The      *)
(* predicate guard, or the aggregate query, may still fail the scan.       *)
RecordTransport(s) ==
  /\ \E to \in {"counting", "over"} : InitStep(s, "transport", to)
  /\ g_last_transport' = s
  /\ g_last_soql' = IF kind[s] = "aggregate" THEN [ scan |-> s, for |-> "aggregate" ] ELSE g_last_soql
  /\ g_last_scan_pages' = IF kind[s] = "aggregate" THEN 0 ELSE g_last_scan_pages
  /\ UNCHANGED <<g_last_bulk_create_body, g_cost, kind, stage, total,
                 fetchers, pages, emitted, overlapped, helpers>>

(* COUNT pushdown reports the SOQL that was sent. *)
RecordCount(s) ==
  /\ InitStep(s, "counting", "recording")
  /\ IF kind[s] = "count"
     THEN g_last_soql' = [ scan |-> s, for |-> "count" ] /\ g_last_scan_pages' = 0
     ELSE UNCHANGED <<g_last_soql, g_last_scan_pages>>
  /\ UNCHANGED <<g_last_transport, g_last_bulk_create_body, g_cost, kind, stage, total, fetchers,
                 pages, emitted, overlapped, helpers>>

Reported(s) == IF kind[s] \in {"count", "aggregate"} THEN kind[s] ELSE "rows"

(* A mutant of DiagRecordScan: the record is not reset. *)
DiagRecordScanKeeps(s) ==
  /\ InitStep(s, "recording", "explaining")
  /\ g_cost' = [g_cost EXCEPT !.scan = s, !.soql = Reported(s), !.bulk = (kind[s] = "bulk"), !.pages = 0]
  /\ UNCHANGED <<g_last_soql, g_last_scan_pages, g_last_transport, g_last_bulk_create_body, kind, stage,
                 total, fetchers, pages, emitted, overlapped, helpers>>

(* The record of the last scan is replaced as a whole. *)
DiagRecordScan(s) ==
  /\ InitStep(s, "recording", "explaining")
  /\ g_cost' = [FreshCost EXCEPT !.scan = s, !.soql = Reported(s), !.bulk = (kind[s] = "bulk")]
  /\ UNCHANGED <<g_last_soql, g_last_scan_pages, g_last_transport, g_last_bulk_create_body, kind, stage,
                 total, fetchers, pages, emitted, overlapped, helpers>>

(* The explain items follow under the lock again. *)
DiagSetExplain(s) ==
  /\ InitStep(s, "explaining", IF kind[s] = "bulk" THEN "chunking" ELSE "running")
  /\ g_cost' = [g_cost EXCEPT !.explain = s]
  /\ UNCHANGED <<g_last_soql, g_last_scan_pages, g_last_transport, g_last_bulk_create_body, kind, stage,
                 total, fetchers, pages, emitted, overlapped, helpers>>

(* ResetBulkCreateBodies, DiagSetBulkChunks. *)
StartBulk(s) ==
  /\ InitStep(s, "chunking", "running")
  /\ g_last_bulk_create_body' = << >>
  /\ g_cost' = [g_cost EXCEPT !.bulk_chunks = Cardinality(Threads)]
  /\ UNCHANGED <<g_last_soql, g_last_scan_pages, g_last_transport, kind, stage, total, fetchers,
                 pages, emitted, overlapped, helpers>>

-----------------------------------------------------------------------------
(* ScanFunction, one step per lock it takes.                               *)

ThreadStep(s, t, from, to) ==
  /\ init[s] = "running"
  /\ t \in Threaded(s)
  /\ stage[s][t] = from
  /\ stage' = [stage EXCEPT ![s][t] = to]

(* The quota gate mirrors its decision. *)
PassQuotaGate(s, t) ==
  /\ kind[s] = "bulk"
  /\ ThreadStep(s, t, "idle", "gated")
  /\ g_cost' = [g_cost EXCEPT !.quota = s]
  /\ UNCHANGED <<g_last_soql, g_last_scan_pages, g_last_transport, g_last_bulk_create_body, kind, init,
                 total, fetchers, pages, emitted, overlapped, helpers>>

(* BulkStartJob: the body of the job. *)
SetLastBulkCreateBody(s, t) ==
  /\ ThreadStep(s, t, "gated", "polling")
  /\ g_last_bulk_create_body' = Append(g_last_bulk_create_body, s)
  /\ UNCHANGED <<g_last_soql, g_last_scan_pages, g_last_transport, g_cost, kind, init, total,
                 fetchers, pages, emitted, overlapped, helpers>>

(* BulkStartJob: a poll. *)
DiagSetBulkPolls(s, t) ==
  /\ \E to \in {"polling", "ready"} : ThreadStep(s, t, "polling", to)
  /\ g_cost' = [g_cost EXCEPT !.bulk_polls = s]
  /\ UNCHANGED <<g_last_soql, g_last_scan_pages, g_last_transport, g_last_bulk_create_body, kind, init,
                 total, fetchers, pages, emitted, overlapped, helpers>>

(* A mutant of FetchPage: the thread counts for itself. *)
FetchPageUncounted(s, t) ==
  /\ kind[s] \in {"rest", "bulk"}
  /\ ThreadStep(s, t, IF kind[s] = "bulk" THEN "ready" ELSE "idle", "fetched")
  /\ total[s][t] < MaxPages
  /\ total' = [total EXCEPT ![s][t] = @ + 1]
  /\ fetchers' = [fetchers EXCEPT ![s] = @ \union {t}]
  /\ UNCHANGED <<globals, kind, init, pages, emitted, overlapped, helpers>>

(* A page arrives: total_bulk_pages.fetch_add(1) + 1, or ++pages_fetched. *)
FetchPage(s, t) ==
  /\ kind[s] \in {"rest", "bulk"}
  /\ pages[s] < MaxPages
  /\ ThreadStep(s, t, IF kind[s] = "bulk" THEN "ready" ELSE "idle", "fetched")
  /\ pages' = [pages EXCEPT ![s] = @ + 1]
  /\ total' = [total EXCEPT ![s][t] = pages[s] + 1]
  /\ fetchers' = [fetchers EXCEPT ![s] = @ \union {t}]
  /\ UNCHANGED <<globals, kind, init, emitted, overlapped, helpers>>

(* SetLastScanPages *)
PublishPages(s, t) ==
  /\ ThreadStep(s, t, "fetched", "published")
  /\ g_last_scan_pages' = total[s][t]
  /\ UNCHANGED <<g_last_soql, g_last_transport, g_last_bulk_create_body, g_cost, kind, init, total,
                 fetchers, pages, emitted, overlapped, helpers>>

(* DiagSetPages *)
DiagSetPages(s, t) ==
  /\ ThreadStep(s, t, "published", "counted")
  /\ g_cost' = [g_cost EXCEPT !.pages = total[s][t]]
  /\ UNCHANGED <<g_last_soql, g_last_scan_pages, g_last_transport, g_last_bulk_create_body, kind, init,
                 total, fetchers, pages, emitted, overlapped, helpers>>

(* A mutant of DiagAddRowsEmitted: only the first vector counts. *)
DiagAddRowsEmittedOnce(s, t) ==
  /\ IF kind[s] \in {"rest", "bulk"}
     THEN ThreadStep(s, t, "counted", IF kind[s] = "bulk" THEN "ready" ELSE "idle")
     ELSE ThreadStep(s, t, "idle", "emitted")
  /\ emitted' = [emitted EXCEPT ![s] = @ + 1]
  /\ g_cost' = IF emitted[s] > 0 THEN g_cost ELSE [g_cost EXCEPT !.rows = @ + 1]
  /\ UNCHANGED <<g_last_soql, g_last_scan_pages, g_last_transport, g_last_bulk_create_body, kind, init,
                 total, fetchers, pages, overlapped, helpers>>

(* The rows of a page, the counted rows or the aggregate's one row are     *)
(* delivered to DuckDB (a page stands for the rows on it).                 *)
DiagAddRowsEmitted(s, t) ==
  /\ IF kind[s] \in {"rest", "bulk"}
     THEN ThreadStep(s, t, "counted", IF kind[s] = "bulk" THEN "ready" ELSE "idle")
     ELSE ThreadStep(s, t, "idle", "emitted")
  /\ emitted' = [emitted EXCEPT ![s] = @ + 1]
  /\ g_cost' = [g_cost EXCEPT !.rows = @ + 1]
  /\ UNCHANGED <<g_last_soql, g_last_scan_pages, g_last_transport, g_last_bulk_create_body, kind, init,
                 total, fetchers, pages, overlapped, helpers>>

Resting(s) == \A t \in Threads : stage[s][t] \notin {"fetched", "published", "counted"}

(* The scan ends: it is exhausted, the query is cancelled, or a thread threw. *)
EndScan(s) ==
  /\ InitStep(s, "running", "over")
  /\ Resting(s)
  /\ stage' = [stage EXCEPT ![s] = [t \in Threads |-> "idle"]]
  /\ total' = [total EXCEPT ![s] = [t \in Threads |-> 0]]
  /\ UNCHANGED <<globals, kind, fetchers, pages, emitted, overlapped, helpers>>

-----------------------------------------------------------------------------
(* What is not a scan.                                                     *)

(* salesforce_reports() and salesforce_aggregate() write some of it. *)
HelperFunction ==
  /\ helpers < MaxHelpers
  /\ helpers' = helpers + 1
  /\ g_last_soql' = [ scan |-> NoScan, for |-> "helper" ]
  /\ g_last_transport' \in {g_last_transport, NoScan}
  /\ UNCHANGED <<g_last_scan_pages, g_last_bulk_create_body, g_cost, scanVars, overlapped>>

(* LoadInternal: the extension is loaded into another database. *)
DiagReset ==
  /\ helpers < MaxHelpers
  /\ helpers' = helpers + 1
  /\ g_cost' = FreshCost
  /\ UNCHANGED <<g_last_soql, g_last_scan_pages, g_last_transport, g_last_bulk_create_body, scanVars,
                 overlapped>>

AllOver == (\A s \in Scans : init[s] = "over") /\ UNCHANGED vars

Next ==
  \/ \E s \in Scans :
       \/ BeginInit(s) \/ ResetPages(s) \/ RecordTransport(s) \/ RecordCount(s)
       \/ DiagRecordScan(s) \/ DiagSetExplain(s) \/ StartBulk(s) \/ EndScan(s)
       \/ \E t \in Threads :
            \/ PassQuotaGate(s, t) \/ SetLastBulkCreateBody(s, t) \/ DiagSetBulkPolls(s, t)
            \/ FetchPage(s, t) \/ PublishPages(s, t) \/ DiagSetPages(s, t) \/ DiagAddRowsEmitted(s, t)
  \/ HelperFunction \/ DiagReset
  \/ AllOver

Spec == Init /\ [][Next]_vars

-----------------------------------------------------------------------------
(* Properties.                                                             *)

Owners == Scans \union {NoScan}

(* Every variable keeps its type. *)
TypeOK ==
  /\ g_last_soql.scan \in Owners /\ g_last_transport \in Owners
  /\ Range(g_last_bulk_create_body) \subseteq Scans
  /\ g_cost.scan \in Owners /\ g_cost.explain \in Owners
  /\ g_cost.bulk_polls \in Owners /\ g_cost.quota \in Owners
  /\ init \in [Scans -> {"new", "soql", "transport", "counting", "recording", "explaining", "chunking",
                         "running", "over"}]
  /\ \A s \in Scans : pages[s] \in 0 .. MaxPages /\ fetchers[s] \subseteq Threaded(s)
  /\ \A s \in Scans, t \in Threads : total[s][t] <= pages[s]
  /\ overlapped \subseteq Scans /\ helpers \in 0 .. MaxHelpers

(* The scan whose record is shown, if it ran alone and its InitGlobal is   *)
(* done. *)
Shown(s) == g_cost.scan = s /\ s \notin overlapped /\ init[s] \in {"running", "over"}

(* Pieces of two scans are never mixed: in the record of a scan that ran   *)
(* alone the explain items, the polls and the quota decision are its own,  *)
(* polls and quota are NULL for a scan that is not Bulk, the create bodies *)
(* are those of its jobs, and last_soql, unless a later call wrote it, is  *)
(* the SOQL of the record.  Whatever ran before, overlapped or failed.     *)
RecordOfOneScan ==
  \A s \in Scans : Shown(s) =>
    /\ g_cost.explain = s
    /\ g_cost.bulk_polls \in {NoScan, s} /\ g_cost.quota \in {NoScan, s}
    /\ ~ g_cost.bulk => g_cost.bulk_polls = NoScan /\ g_cost.quota = NoScan
    /\ g_last_soql.scan = s => g_last_soql.for = g_cost.soql
    /\ g_cost.bulk =>
         /\ Range(g_last_bulk_create_body) \subseteq {s}
         /\ Len(g_last_bulk_create_body) <= g_cost.bulk_chunks

(* rows_emitted counts every row delivered to DuckDB, whichever thread     *)
(* delivered it; pages_fetched is exact for one thread and never more than *)
(* what was fetched for several.                                           *)
CountsOfOneScan ==
  \A s \in Scans : Shown(s) =>
    /\ g_cost.rows = emitted[s]
    /\ g_cost.pages <= pages[s]
    /\ Resting(s) /\ Cardinality(fetchers[s]) <= 1 =>
         g_cost.pages = pages[s] /\ (g_last_scan_pages = pages[s] \/ \E r \in Scans : r > s /\ init[r] # "new")
=============================================================================
