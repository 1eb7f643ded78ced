--------------------------- MODULE IncrementalLoad ---------------------------
(***************************************************************************)
(* The table functions an incremental load is built from:                  *)
(* salesforce_deleted_ids with its two sources (salesforce_delete_sync.cpp)*)
(* and salesforce_bulk_resume (salesforce_bulk_resume.cpp).                *)
(*                                                                         *)
(* A load sweeps again and again: each sweep asks for the ids deleted      *)
(* since the last checkpoint, and the checkpoint moves to the              *)
(* latest_date_covered the sweep reported.  Meanwhile records are deleted. *)
(*                                                                         *)
(* The clock counts ticks, several to a second; the functions and their    *)
(* parameters know whole seconds.                                          *)
(***************************************************************************)
EXTENDS Integers, Sequences, SequencesExt

CONSTANTS
  Ids,                  \* the records of the object
  TicksPerSecond,
  MaxNow,               \* bound: the last tick
  MaxSweeps,            \* bound: calls of the function
  kGetDeletedMaxLoops,  \* slices of one sweep (10000 in the code)
  kQueryAllMaxPages,    \* pages of one sweep (100000 in the code)
  STANDARD_VECTOR_SIZE, \* rows of one call of the table function
  Job                   \* the result pages of a finished Bulk job

ASSUME IncrementalLoadAssumption ==
  /\ IsFiniteSet(Ids)
  /\ TicksPerSecond \in Nat \ {0} /\ MaxNow \in Nat \ {0} /\ MaxSweeps \in Nat
  /\ kGetDeletedMaxLoops \in Nat /\ kQueryAllMaxPages \in Nat
  /\ STANDARD_VECTOR_SIZE \in Nat \ {0}
  /\ Job \in Seq(Seq(UNION { Range(Job[p]) : p \in DOMAIN Job })) /\ Len(Job) > 0

VARIABLES
  now,             \* the clock of the org, in ticks
  deleted,         \* when each record was deleted, 0 if it was not
  repeats,         \* does the org answer with a cursor that leads nowhere
  serves_path,     \* does the org serve a result page as .../results/<locator>
  source,          \* "getDeleted", "queryAll" or "resume"
  since,           \* the checkpoint of the load, in seconds
  until,           \* end of the window of this sweep, in seconds
  from,            \* getDeleted: where the next slice starts, in seconds
  requests,        \* slices or pages asked for in this sweep
  result,          \* queryAll: the ids the org found
  at,              \* queryAll: the position, resume: the page of its cursor
  latest_covered,  \* the reported frontier, 0 while there is none
  rows,            \* g.rows, or the page that is being emitted
  cursor,          \* how many of them were emitted
  out,             \* all the rows this sweep has emitted
  delivered,       \* the ids the load got from all its sweeps
  sweeps,          \* calls made
  status           \* "idle", "loading", "loaded", "done" or "failed"

org == <<now, deleted, repeats, serves_path>>

vars == <<now, deleted, repeats, serves_path, source, since, until, from, requests, result, at,
          latest_covered, rows, cursor, out, delivered, sweeps, status>>

(* ParseIsoUtc, ToIsoUtc and NormalizeDeletedDate cut to whole seconds. *)
Seconds(t) == t \div TicksPerSecond

Ticks(s) == s * TicksPerSecond

Least(a, b) == IF a < b THEN a ELSE b

Init ==
  /\ now = 1
  /\ deleted = [i \in Ids |-> 0]
  /\ repeats \in BOOLEAN /\ serves_path \in BOOLEAN
  /\ source \in {"getDeleted", "queryAll", "resume"}
  /\ since = 0 /\ until = 0 /\ from = 0
  /\ requests = 0 /\ result = << >> /\ at = 0
  /\ latest_covered = 0
  /\ rows = << >> /\ cursor = 0 /\ out = << >>
  /\ delivered = {}
  /\ sweeps = 0
  /\ status = "idle"

-----------------------------------------------------------------------------
(* The org.                                                                *)

Tick ==
  /\ now < MaxNow
  /\ now' = now + 1
  /\ UNCHANGED <<deleted, repeats, serves_path, source, since, until, from, requests, result, at,
                 latest_covered, rows, cursor, out, delivered, sweeps, status>>

Delete(i) ==
  /\ deleted[i] = 0
  /\ deleted' = [deleted EXCEPT ![i] = now]
  /\ UNCHANGED <<now, repeats, serves_path, source, since, until, from, requests, result, at,
                 latest_covered, rows, cursor, out, delivered, sweeps, status>>

(* The records deleted from second s on and before tick t. *)
DeletedIn(s, t) == { i \in Ids : deleted[i] # 0 /\ deleted[i] \in Ticks(s) .. t - 1 }

-----------------------------------------------------------------------------
(* Binding.  "until" is now unless it is given, and may be given ahead of  *)
(* now.                                                                    *)

DeletedIdsBind ==
  /\ status = "idle" /\ source # "resume" /\ sweeps < MaxSweeps
  /\ \E u \in {now} \union { Ticks(s) : s \in 1 .. Seconds(MaxNow) } :
       /\ Ticks(since) < u
       /\ until' = Seconds(u)
  /\ from' = since
  /\ requests' = 0 /\ result' = << >> /\ at' = 0
  /\ latest_covered' = 0
  /\ rows' = << >> /\ cursor' = 0 /\ out' = << >>
  /\ sweeps' = sweeps + 1
  /\ status' = "loading"
  /\ UNCHANGED <<org, source, since, delivered>>

(* The first page is fetched here: its header is the schema. *)
BulkResumeBind ==
  /\ status = "idle" /\ source = "resume" /\ sweeps < MaxSweeps
  /\ sweeps' = sweeps + 1
  /\ cursor' = 0 /\ out' = << >>
  /\ \/ rows' = Job[1] /\ at' = 1 /\ status' = "loaded"
     \/ rows' = << >> /\ at' = 0 /\ status' = "failed"
  /\ UNCHANGED <<org, source, since, until, from, requests, result, latest_covered, delivered>>

-----------------------------------------------------------------------------
(* LoadViaGetDeleted.                                                      *)

MoreSlices == requests < kGetDeletedMaxLoops /\ from < until

(* A mutant of Frontier: the second after it, so that slices do not overlap. *)
FrontierPast(c) == Seconds(c) + 1

(* latestDateCovered as the code reads it. *)
Frontier(c) == Seconds(c)

(* A mutant of Fresh: ids that an earlier slice had are taken again. *)
FreshUnchecked(ids) == SetToSeq(ids)

(* The ids of a slice that no earlier slice of this sweep had. *)
Fresh(ids) == SetToSeq({ i \in ids : i \notin Range(rows) })

(* One slice.  The org covers the window up to tick c, or says nothing of  *)
(* how far it got and covers all of it.                                    *)
GetDeletedSlice ==
  /\ status = "loading" /\ source = "getDeleted"
  /\ MoreSlices
  /\ requests' = requests + 1
  /\ \/ /\ rows' = rows \o Fresh(DeletedIn(from, Least(Ticks(until), now + 1)))
        /\ status' = "loaded"
        /\ UNCHANGED <<latest_covered, from>>
     \/ \E c \in Ticks(from) .. Least(Ticks(until), now - 1) :
          /\ rows' = rows \o Fresh(DeletedIn(from, Least(Ticks(until), c + 1)))
          /\ latest_covered' = IF Frontier(c) > latest_covered THEN Frontier(c) ELSE latest_covered
          /\ IF Frontier(c) <= from \/ Frontier(c) >= until
             THEN status' = "loaded" /\ UNCHANGED from
             ELSE from' = Frontier(c) /\ UNCHANGED status
  /\ UNCHANGED <<org, source, since, until, result, at, cursor, out, delivered, sweeps>>

(* A mutant of GetDeletedEnd: a window that is not covered is started over. *)
GetDeletedEndStartsOver ==
  /\ status = "loading" /\ source = "getDeleted"
  /\ ~ MoreSlices
  /\ IF from < until THEN requests' = 0 /\ from' = since /\ UNCHANGED status
     ELSE status' = "loaded" /\ UNCHANGED <<requests, from>>
  /\ UNCHANGED <<org, source, since, until, result, at, latest_covered, rows, cursor, out,
                 delivered, sweeps>>

(* Nothing left of the window, or too many slices: what was found is used. *)
GetDeletedEnd ==
  /\ status = "loading" /\ source = "getDeleted"
  /\ ~ MoreSlices
  /\ status' = "loaded"
  /\ UNCHANGED <<org, source, since, until, from, requests, result, at, latest_covered, rows,
                 cursor, out, delivered, sweeps>>

-----------------------------------------------------------------------------
(* LoadViaQueryAll.                                                        *)

(* The page from position p on: some of the ids, all on the last page. *)
PageOf(found, p, n) == SubSeq(found, p + 1, p + n)

(* A mutant of PagesLeft: no limit on the pages. *)
PagesLeftUnbounded == TRUE

PagesLeft == requests < kQueryAllMaxPages

(* The window has no end: whatever was deleted since the checkpoint. *)
QueryAllPage ==
  /\ status = "loading" /\ source = "queryAll"
  /\ PagesLeft
  /\ requests' = requests + 1
  /\ result' = IF requests = 0 THEN SetToSeq(DeletedIn(since, now + 1)) ELSE result
  /\ \E n \in 0 .. Len(result') - at :
       /\ rows' = rows \o PageOf(result', at, n)
       /\ IF repeats
          THEN UNCHANGED <<at, status>>
          ELSE at' = at + n /\ status' = IF at + n = Len(result') THEN "loaded" ELSE "loading"
  /\ UNCHANGED <<org, source, since, until, from, latest_covered, cursor, out, delivered, sweeps>>

(* A mutant of QueryAllTooMany: the pages found so far are returned. *)
QueryAllTooManyReturns ==
  /\ status = "loading" /\ source = "queryAll"
  /\ ~ PagesLeft
  /\ status' = "loaded"
  /\ UNCHANGED <<org, source, since, until, from, requests, result, at, latest_covered, rows,
                 cursor, out, delivered, sweeps>>

QueryAllTooMany ==
  /\ status = "loading" /\ source = "queryAll"
  /\ ~ PagesLeft
  /\ status' = "failed"
  /\ UNCHANGED <<org, source, since, until, from, requests, result, at, latest_covered, rows,
                 cursor, out, delivered, sweeps>>

(* A request throws: nothing that was loaded is emitted. *)
LoadFails ==
  /\ status = "loading"
  /\ IF source = "getDeleted" THEN MoreSlices ELSE PagesLeft
  /\ status' = "failed"
  /\ UNCHANGED <<org, source, since, until, from, requests, result, at, latest_covered, rows,
                 cursor, out, delivered, sweeps>>

-----------------------------------------------------------------------------
(* DeletedIdsFunction and BulkResumeFunction.                              *)

(* A vector of rows. *)
Emit ==
  /\ status = "loaded" /\ cursor < Len(rows)
  /\ LET to == Least(cursor + STANDARD_VECTOR_SIZE, Len(rows))
     IN  /\ out' = out \o SubSeq(rows, cursor + 1, to)
         /\ cursor' = to
  /\ delivered' = delivered \union Range(out')
  /\ UNCHANGED <<org, source, since, until, from, requests, result, at, latest_covered, rows,
                 sweeps, status>>

(* The page named a next one. *)
HasLocator == source = "resume" /\ at < Len(Job)

(* The next page of a resumed job.  The locator is appended to the path,   *)
(* where the scan sends it as ?locator= (salesforce_scan.cpp:703).         *)
ResumeNextPage ==
  /\ status = "loaded" /\ cursor = Len(rows)
  /\ HasLocator
  /\ \/ serves_path /\ rows' = Job[at + 1] /\ at' = at + 1 /\ cursor' = 0 /\ UNCHANGED status
     \/ status' = "failed" /\ UNCHANGED <<rows, at, cursor>>
  /\ UNCHANGED <<org, source, since, until, from, requests, result, latest_covered, out, delivered,
                 sweeps>>

EmitNothing ==
  /\ status = "loaded" /\ cursor = Len(rows)
  /\ ~ HasLocator
  /\ status' = "done"
  /\ UNCHANGED <<org, source, since, until, from, requests, result, at, latest_covered, rows,
                 cursor, out, delivered, sweeps>>

-----------------------------------------------------------------------------
(* The load.  latest_date_covered is a column: a sweep without rows shows  *)
(* none, and the next sweep starts where it did.  So does a failed one.    *)

NextSweep ==
  /\ status \in {"done", "failed"}
  /\ since' = IF status = "done" /\ source = "getDeleted" /\ out # << >> /\ latest_covered # 0
              THEN latest_covered ELSE since
  /\ status' = "idle"
  /\ UNCHANGED <<org, source, until, from, requests, result, at, latest_covered, rows, cursor,
                 out, delivered, sweeps>>

Load == GetDeletedSlice \/ GetDeletedEnd \/ QueryAllPage \/ QueryAllTooMany \/ LoadFails

Function == Emit \/ ResumeNextPage \/ EmitNothing

Next ==
  \/ Tick \/ \E i \in Ids : Delete(i)
  \/ DeletedIdsBind \/ BulkResumeBind
  \/ GetDeletedSlice \/ GetDeletedEnd \/ QueryAllPage \/ QueryAllTooMany \/ LoadFails
  \/ Emit \/ ResumeNextPage \/ EmitNothing
  \/ NextSweep

Spec == Init /\ [][Next]_vars

(* A bound function runs: DuckDB pulls until it is told to stop. *)
FairSpec == Spec /\ WF_vars(Load) /\ WF_vars(Function)

-----------------------------------------------------------------------------
(* Properties.                                                             *)

(* Every variable keeps its type; a slice starts inside its window.  *)
TypeOK ==
  /\ now \in 1 .. MaxNow /\ deleted \in [Ids -> 0 .. MaxNow]
  /\ since \in 0 .. Seconds(MaxNow) /\ until \in 0 .. Seconds(MaxNow)
  /\ source # "resume" /\ status = "loading" => from \in since .. until
  /\ requests \in 0 .. kGetDeletedMaxLoops + kQueryAllMaxPages
  /\ latest_covered \in 0 .. until
  /\ cursor \in 0 .. Len(rows) /\ Len(out) >= cursor
  /\ sweeps \in 0 .. MaxSweeps
  /\ status \in {"idle", "loading", "loaded", "done", "failed"}

(* The checkpoint never runs ahead of what the load was given: every       *)
(* record deleted before it was delivered by some sweep, however the org   *)
(* cut the windows, wherever sweeps failed and whatever was deleted        *)
(* meanwhile (latest_covered of LoadViaGetDeleted).                        *)
CheckpointSafe == \A i \in DeletedIn(0, Ticks(since)) : source = "getDeleted" => i \in delivered

(* "Duplicate ids across resume slices are deduplicated": a getDeleted     *)
(* sweep emits an id once although its slices overlap by up to a second.   *)
EachIdOnce == source = "getDeleted" => IsInjective(out)

(* A queryAll sweep or a resumed job that ends without an error emitted    *)
(* the whole result, page by page in its order, and nothing twice; one     *)
(* that cannot be complete fails.                                          *)
NeverPartial ==
  status = "done" =>
    /\ source = "queryAll" => out = result
    /\ source = "resume" => out = FlattenSeq(Job)

(* A call that was bound ends, also when the org hands out a cursor that   *)
(* leads nowhere or covers nothing of the window.                          *)
CallEnds == (status \in {"loading", "loaded"}) ~> (status \in {"done", "failed"})
=============================================================================
