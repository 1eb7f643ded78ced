# A TLA+ verification project for duckdb-salesforce

The repository is a DuckDB extension that attaches a Salesforce org as a
read-only catalog. A query on an attached object becomes SOQL; its rows come
over the REST query API or over Bulk API 2.0 jobs. This directory models the
parts of the extension whose correctness depends on order, concurrency, failure
or a boundary, checks them with TLC and proves the central ones with TLAPS.

Source files are named without their directory, which is `src/` of the
repository; line numbers are those of the commit the project was written for.

## 1. Inventory

| Component | State | Operations | What is hard |
|---|---|---|---|
| Id-range chunking (`salesforce_scan.cpp` 143-226) | none | Id to number and back, boundaries, ranges | `uint64_t` interpolation, boundaries that collapse, closed last range |
| Bulk scan (`salesforce_scan.cpp` 612-891) | chunk list, atomic dispenser, page total; per thread: job, locator, seen set, page | claim, quota gate, start job, fetch page, emit, release | several threads, a changing org, repeated locators, failure half way |
| REST scan, `salesforce_query()` (`salesforce_scan.cpp`, `salesforce_query.cpp`) | next path, seen cursors, page count, page | advance, emit | lazy paging, empty pages, cursor loops |
| Scan planning (`salesforce_scan.cpp`, `salesforce_scan_user.cpp`, `salesforce_agg_optimizer.cpp`) | pushed WHERE, residual count, pushed aggregates, effective transport | filter hook, aggregate rewrite, guards of `InitGlobal` | hooks called repeatedly, stages that change what the next one sees, NULL groups, grouping of AND and OR |
| Session (`salesforce_session.cpp`) | token | `AuthorizedSend` and 12 operations built on it | expiry between requests, poll budget, partial batches |
| HTTP transport (`salesforce_http_client.cpp`) | none | `Send` with retries | retries of POST, lost replies |
| OAuth (`salesforce_auth.cpp`) | none | token exchange | failure inside a retry of a request |
| Quota governor (`salesforce_quota.cpp`) | per-org cache, last decision | `QuotaGuardBulkStart` | lock released while asking, cache age, zero and equal limits |
| Catalog (`salesforce_storage.cpp`) | four caches, one lock | lookup, Tooling batch, parent expansion, listing, raw describe, refresh | requests under the lock and outside it, refresh in between, diamonds and cycles |
| Metadata engine (`salesforce_metadata_engine.cpp`) | describe and object-list caches, no lock | describe, resolve, relationship graph, refresh; metadata_fields, metadata_objects, query_explain | one cache under five functions, calls that throw half way, references into containers another connection clears |
| Report bridge (`salesforce_report.cpp`) | bind data of a call | sample of a report, translation of its definition to SOQL | many reasons to refuse at once, token resolution, column names from free labels |
| Query-cost diagnostics (`salesforce_diag.cpp`, `salesforce_soql.cpp` 500-720) | five process-wide records, a lock each | written in pieces by `InitGlobal` and every thread, printed | pieces of two scans, counts published late |
| SOQL translation (`salesforce_soql.cpp`) | none | expression to SOQL, exactness, what stays with DuckDB | NULL and letter case, supersets, nesting, the length cap |
| Delete sync (`salesforce_delete_sync.cpp`) | window, frontier, rows | slices of getDeleted, pages of queryAll, emission | windows covered in part, whole seconds, checkpoints |
| Bulk resume (`salesforce_bulk_resume.cpp`) | page, cursor | first page at bind, following locators | empty pages, a locator the org refuses |
| `salesforce_aggregate()`, `salesforce_reports()` | rows of a call | one eager query each | they write some of the diagnostics |
| Describe and value decoding, configuration, registration | none | conversions | text; unit tests cover them |

How they interact: DuckDB's binder calls the **catalog**, whose table entries
carry the fields. The optimizer calls the **filter hook** (any number of times)
and the **aggregate rewrite**; `InitGlobal` then settles the **transport** and
starts a REST or a Bulk scan. Each worker thread calls the **scan function**,
which talks to the org through its own **session** over the **HTTP transport**;
a Bulk chunk first passes the **quota governor**, whose cache all threads and
connections share. Every step leaves a trace in the process-wide
**diagnostics**. The **metadata engine** of an attached org serves the
relationship graph, the metadata functions, `salesforce_query_explain()` and the
**report bridge**. Other clients of the org change rows, limits and schemas at
any moment.

What correctness means here, component by component:

* *scans*: no row twice; a scan that ends without an error has delivered every
  row that matched throughout; the scan ends;
* *planning*: every conjunct of the query is applied by somebody; a pushed
  aggregate answers what DuckDB would have computed from the rows;
* *session*: an operation ends; an expired
  token is invisible; the daily limit is terminal; only a complete job's result
  is returned;
* *quota*: a decision rests on limits no older than the cache time; an org that
  has been spent for longer blocks; an outage is not cached;
* *catalog*: a refresh takes effect whatever is under way; one describe per
  object; the parents shown are exactly those defined; the lock is released;
* *translation*: what is pushed and what stays select the rows of the query;
* *incremental load*: a checkpoint never passes a deletion that was not
  delivered; a partial result never ends as a complete one;
* *metadata engine*: the relationship graph has every edge of every chain once;
  what a function answers is no older than the last refresh;
* *report bridge*: a report is translated as a whole or refused, with the first
  reason by precedence; the columns of a sample have names of their own;
* *diagnostics*: the record of a scan that ran alone holds its own pieces, all
  its rows and no page too many.

`PROJECT.json` lists every component, also those left out, and under `hazards`
the lines where this code can go wrong in a way a test would hardly reach.

## 2. Modules

| Module | Models | Extends / instances |
|---|---|---|
| `TableScan` | the promise of any table scan to DuckDB (abstract) | |
| `PkChunking` | splitting an object into Id ranges | |
| `BulkScan` | the multi-threaded Bulk scan | extends `PkChunking`, implements `TableScan` |
| `RestScan` | the lazy REST scan and the eager `salesforce_query()` | implements `TableScan` |
| `ScanPlan` | filter hook, aggregate rewrite, `InitGlobal` | |
| `Session` | session, transport retries, token exchange | |
| `Quota` | the quota governor | |
| `Catalog` | the attached schema and its caches | |
| `Soql` | filter pushdown | |
| `IncrementalLoad` | delete sync and Bulk resume | |
| `MetadataEngine` | the engine's caches and the relationship graph | |
| `ReportBridge` | the report bridge and the metadata functions on the shared engine | extends `MetadataEngine` |
| `Diagnostics` | the last-scan records and who writes them | |
| `<Module>Proofs` | theorems about `BulkScan` (and `PkChunking`), `RestScan`, `Session`, `Quota`, `Catalog`, `IncrementalLoad`, `Diagnostics` | extends `<Module>` |
| `TranslationProofs` | theorems about `ScanPlan`, `Soql` and `ReportBridge` with its `MetadataEngine`: nothing is dropped silently on the way to SOQL | extends `ScanPlan`, `Soql`, `ReportBridge` |
| `MC*` | instances for TLC; `MCTranslation` puts the three translations side by side | `MCTranslation` extends `MCScanPlan`, `MCSoql`, `MCReportBridge` |

**TableScan.** A set of rows that match now, those that have matched all along
(`stable`) and those that matched at some moment (`matched`). `Deliver` may hand
out only matched rows and each once; `Finish` requires that all stable rows were
handed out; `Fail` is always possible. `BulkScan` and `RestScan` are shown to
implement it, so the two transports are interchangeable as far as it goes.

**PkChunking.** An Id is a prefix (the characters the splitter interpolates
over) and a suffix it ignores. `Interpolate` computes as the code does, modulo
`Word` (2^64). `BuildIdRangeWheres` gives the list of chunks that remain after
collapsed boundaries are skipped.

**BulkScan.** `InitGlobal` reads MIN and MAX and cuts chunks; every thread then
runs `ClaimChunk`, `PassQuotaGuard`, `StartJob`, `FetchResultPage`,
`FollowLocator` / `RefuseLocator` / `FinishChunk`, `EmitVector` and
`ReleaseChunk`, one action for each step between two points where another thread
can interfere: the dispenser, each request, the page total, its publication. A
job finds the rows that match when it runs. The server chooses how they spread
over pages and may repeat a locator; any request may fail.

**RestScan.** One action for each page (`FollowCursor`, `RefuseCursor`,
`LastPage`) and each vector of rows. The eager loop of `Session::Query` has the
same page protocol and differs in delivering everything at the end; `lazy` says
which of the two runs.

**ScanPlan.** A conjunct of the query is pushed exactly, pushed and kept, or
kept. A WHERE that is sent is the set of its alternatives, each a set of
conjuncts, so that the text `pushed AND raw` with an OR in the raw filter is
what it says: AND binds tighter. `FilterHook` may be called again, also with
nothing. `AggregateRewrite` takes the aggregate as DuckDB plans it: terms on the
scan, or one aggregate over a GROUP BY (`TryRewriteV2CountDistinct`), each with
or without a FILTER or ORDER BY of its own. A GROUP BY of the query itself is
turned away before anything is changed and is not among the queries; nor is a
scan with `table_filters`, which DuckDB never gives this scan, as its
`filter_pushdown` is not set. The stages of `InitGlobal` follow in the code's
order.

**Session.** One request at a time: `Request`, `RetryAttempt`, `Unauthorized`,
`TokenGranted` and the errors are `Send` and `AuthorizedSend`; above them each
operation is a stage machine (`JobCreated`, `PollComplete`, `PollAgain`,
`PollGivesUp`; `ToolingNextList`, `ToolingFollows`, `ToolingEnds`;
`BodyReceived` for the operations of one request). A request whose reply is lost
may have created a job.

**Quota.** Callers enter the guard with their connection's settings and pass
through cache lookup, `/limits`, store, decision and return as separate steps,
because the lock is not held in between. The clock, the consumption of the
allocation and its daily reset are actions of the environment.

**Catalog.** A describe is abstracted to the version of the org's metadata it
was read at. A lookup takes the lock and goes through Tooling batch, REST
describe and parent expansion to `BuildAndCacheEntry`; the recursion of
`BuildRelationshipFields` is a stack of frames with the shared `visited` set.
`JsonMiss`, `DescribeJson` and `DescribeJsonCached` are three steps because the
lock is released in between. One attached org is modelled.

**Soql.** A predicate is a record, and `SqlRows` are the rows it is true of. A
clause of the WHERE is what the org makes of its text: the rows it returns and
whether it rejects the query. `TranslateExpr` is a recursive function like the
code's, with three outcomes: translated, residual, or refused, which is the
`BinderException` of `CheckIdLiterals` on its way up. `TranslateNext` translates
one conjunct, `RefuseId` is where the exception leaves the call, `PushNothing`
and `PushWhere` are the two ends of `PushdownToSoql`. A predicate's clause has
any length greater than that of each of its parts, as it puts them in
parentheses. Two constants are the org's rules on which it and SQL may differ:
`NullsDiffer` (does null satisfy `field != constant`) and `FoldsCase` (do `=`,
`<` and `IN` ignore letter case). The runs set both to TRUE, the proofs leave
them open. `OrgTrue` is what a comparison of the query means under these rules,
and `AlikeRows` the rows on which that is what SQL means by it.

**IncrementalLoad.** The clock has several ticks to a second, the code knows
whole seconds: `Seconds` is the cut its conversions make. A sweep of
`salesforce_deleted_ids` is bound, loads slice by slice (`GetDeletedSlice`,
`GetDeletedEnd`) or page by page (`QueryAllPage`, `QueryAllTooMany`), and emits
when loaded. The org covers each window as far as it likes. `NextSweep` is the
load around it: it moves its checkpoint to the `latest_date_covered` it was
shown. Bulk resume shares emission and adds `ResumeNextPage`; whether the org
serves the request it makes is left open (`serves_path`).

**MetadataEngine.** `WalkEdge` and `WalkReturn` are one step each of
`RelGraphWalk` and `RelGraphChildWalk`, with the recursion as a stack and the
ancestor chain beside it. Which objects the org can describe changes between
calls, not during one. The engine has no lock; the module models the calls of
one connection.

**ReportBridge.** The calls that share the engine, one after the other, with
changes of the org's fields and refreshes in between: `seen` is what the cached
describes do not have, `dropped` what the org does not have. `ReportSoqlBind` is
a machine of four steps (the shape, the base object, one column or one filter at
a time, the end); a describe that fails in the middle throws and leaves what was
read before it in the cache. A report token is the sequence of its dotted parts,
`Readings` the field names it may stand for, best first. `MetaFieldsBind`,
`MetaObjectsBind`, `ExplainBind` and `ReportBind` are one step each: they make
one request at most and the engine is not changed by others meanwhile.
Letter case is left out of tokens, as the code ignores it where it resolves
them; the two sets it searches for a dominant prefix keep it
(`salesforce_report.cpp` 551, 611), so a report that spells one prefix in two
ways is not among the reports.
`Reserved` are the names with the prefix the code tests for, `Diagnostic` the
four that it adds itself: a label that lacks only the last underscore of the
prefix may get it back with a numeric suffix, but is then none of the four.

**Diagnostics.** A piece of a record is modelled by the scan that wrote it.
What a scan writes under a lock is a step of its own, eight of `InitGlobal` and
seven of a thread; writes that follow one another at once are one step (SOQL,
transport and page count of an aggregate, SOQL and page count of a COUNT, the
two that begin a Bulk scan): only a scan that overlaps, or a helper function
that replaces the SOQL, could come between them, and no property claims what
those write over. `total` is the copy of the page count a Bulk thread draws from the
atomic counter and publishes later. Scans may overlap; `overlapped` remembers
which did. `HelperFunction` and `DiagReset` are the writers that are not scans.

## 3. What TLC checks

Runs that pass:

| Run | Instance | Properties beyond the type invariant |
|---|---|---|
| `bulk_scan` | 2 threads, up to 3 chunks, 8 Ids, 2 pages a job, one change of the org (0.9 M states) | `AtMostOnce`, `NothingLost`, `Termination`, `ImplementsTableScan` |
| `rest_scan` | 3 rows on up to 4 pages, page guard at 3 (39 k) | `LazyFetch`, `Termination`, `ImplementsTableScan` |
| `session` | 2 attempts a request, poll budget 2, 3 expiries, 2 lists of 2 cursors (87 k) | `ReturnsCompleteJob`, `ExpiryIsTransparent`, `LimitIsTerminal`, `OperationEnds` |
| `quota` | 2 callers, 3 policies, 2 seconds (2.8 M) | `FreshSnapshot`, `GateSound` |
| `catalog` | 2 connections, 3 objects with a diamond, a cycle and every kind of reference that is skipped, one schema change (0.5 M) | `NothingStale`, `DescribedOnce`, `ExpansionExact`, `LockReleased` |
| `translation` | of a plan: one conjunct of each kind, a raw filter with and without OR, 12 aggregates, 2 hook calls, all settings, columns of up to 3 rows; of conjuncts: up to 2 of 192, 3 columns, 4 values and NULL; of metadata: 4 objects with a diamond, a cycle and every status, depth up to 4, 135 reports, 4 snapshots, a field that comes and goes, 2 calls (1.2 M together) | `PredicatesApplied`, `AggregateExact`; `AlikeRowsExact`; `GraphExact`, `TranslationExact`, `AnswersFresh`, `SampleWellFormed` |
| `incremental` | 2 records, 3 seconds of 2 ticks, 3 sweeps of 2 slices or pages, a job of 3 pages (1.0 M) | `CheckpointSafe`, `EachIdOnce`, `NeverPartial`, `CallEnds` |
| `diagnostics` | 2 scans of 4 kinds, 2 threads, 2 pages, one other call (1.4 M) | `RecordOfOneScan`, `CountsOfOneScan` |

`translation` is one run of three modules that share no state, `ScanPlan`,
`Soql` and `ReportBridge` with its `MetadataEngine`: `MCTranslation` chooses in
the initial state which of them a behaviour is of (`asked`) and holds the others
still. They stand together as they do in `TranslationProofs`, for the question
they have in common: does anything get lost or added on the way to SOQL.

Why the bounds are enough. Two threads with three chunks make a thread claim a
second chunk while the other streams, which is where state left over from a
chunk would show; two pages a job are the least at which a locator can repeat; 4
prefixes and 2 suffixes put boundaries on an Id, between two Ids of one prefix
and on each other. In `rest_scan` the page guard lies inside the range of pages,
so both sides of it occur. In `session` the poll budget, the cursor guard and
the retry limit are all reached, and there is one expiry more than a request
survives. In `quota` one request separates an org in reserve from one above it,
and the clock passes the cache time. In `catalog` one schema change separates an
answer from before a refresh from one after it; depth 2 is the code's maximum.
In `translation` a conjunct is nested once, so every kind occurs alone, under
AND and under OR, next to one that is exact, a superset, refused or not
translated; the caps lie below the largest WHERE and the largest IN. Three rows
over two values and NULL tell COUNT, COUNT(DISTINCT) and COUNT(*) apart in both
shapes of an aggregate, and a FILTER from none. The graph has the code's depth
limit of 4 and as many objects; two calls let the first fill the cache, or half
of it, for the second, with a change or a refresh in between; the reports meet
each reason to block alone and together with others of higher and lower
precedence. In `incremental` a window can need one slice more than the cap
allows, and a frontier can fall inside a second; three sweeps leave one after a
failed one and one after a partial one.
In `diagnostics` the second scan finds what the first left, or overlaps it, and
two threads can publish two page counts in the wrong order. Two Bulk scans run
one after the other but not at once: the properties speak of a scan that ran
alone, and neither of two that overlap did.
Each bound is a named constant of its module.

`RecordOfOneScan` and `CountsOfOneScan` speak of scans that ran alone. Nothing
keeps the pieces of overlapping scans apart (a JOIN of two attached tables is
enough), and `include/salesforce_diag.hpp` promises it for one scan at a time
only. `AggregateExact` takes numbers and distinct texts to be counted alike by
both engines; text is ordered differently, which is why MIN and MAX of a text
must stay with DuckDB.

`AlikeRowsExact` is about the pushdown alone: it speaks of the rows on which the
comparisons that were pushed mean to the org what they mean to SQL, under any
rules of the org, and says that nothing else goes wrong: no superset is taken
for exact, nothing stays out of both the WHERE and the plan, a flipped operator
is turned, AND and OR keep the meaning of their parts, IN and LIKE, wider in
SOQL, are applied again. That the other rows do not come out right is what
`soql_org_rules` shows.

Runs that find a disagreement between the code and what the repository says of
it (each with a finding in `PROJECT.json`):

| Run | Property | What the counterexample shows |
|---|---|---|
| `scan_raw_filter` | `RawFilterApplied` | the raw filter of `salesforce_scan()` is missing from Bulk jobs and pushed aggregates; where it is joined, an OR in it escapes the pushed predicates |
| `quota_warn_only` | `WarnOnlyNeverBlocks` | `sf_quota_enforce=false` and `sf_quota_fail_open=false`: when `/limits` fails the warn-only caller is blocked, where `include/salesforce_quota.hpp` 17 says that it never is |
| `soql_org_rules` | `ResultExact` | a comparison is pushed as exact and taken from DuckDB: if the org ignores letter case, `name = c` returns rows of another spelling and `name != c` misses them, and if null satisfies `!=` there, `name != c` returns the rows without a name. The head of `salesforce_soql.cpp` says that DuckDB still applies every filter, so that results are always correct. With both rules FALSE TLC finds no counterexample |
| `catalog_listing` | `ListingComplete` | query an object, list the tables, refresh the object: it is gone from the listing |

Other disagreements met while modelling, which have no run of their own:

* a Bulk scan draws its page total and publishes it in two steps
  (`salesforce_scan.cpp` 706-708), so `salesforce_last_scan_pages()` and
  `pages_fetched` may go back and end too low (`Diagnostics`, `BulkScan`);
  `include/salesforce_diag.hpp` still says that scans have one thread.
  `bulk_polls` is the count of whichever thread polled last;
* a scan that fails in `InitGlobal` leaves its own SOQL in
  `salesforce_last_soql()` beside the cost record of the scan before it, and
  loading the extension into a second database clears the record of a scan that
  is running in the first (`Diagnostics`);
* `DescribeJsonCached` releases the lock for its request and stores the body
  unconditionally (`salesforce_storage.cpp` 508), so a refresh in between is
  undone, where `docs/en/function_manual.md` 1743-1744 says that the next call
  fetches again (`Catalog`: `JsonMiss`, `RefreshObject`, `DescribeJsonCached`);
* `ToolingDescribe` throws on a transport failure, where
  `include/salesforce_session.hpp` 104 says that it returns false
  (`Session` models the throw);
* a job is polled once more than `sf_bulk_poll_budget` says: the check follows
  the poll and counts from 0 (`Session`);
* Bulk resume appends the locator to the path (`salesforce_bulk_resume.cpp`
  166), the scan sends `?locator=` (`salesforce_scan.cpp` 703); an org that
  serves only the latter cannot resume a job of several pages. The test of the
  resume has one page;
* the queryAll source of `salesforce_deleted_ids` ignores `until`
  (`salesforce_delete_sync.cpp` 292);
* `latest_date_covered` is a column, so a sweep without rows shows none;
* a base object found through the report type's own metadata is announced in the
  caveats as one found by a column prefix (`salesforce_report.cpp` 855-858), and
  the comment at 789 says that this source is not used;
* `1 AND 1` is accepted as the logic of two filters (`BooleanFilterAndOnly`
  checks each index for its range only); the candidate has both clauses;
* the names of a sample's columns are made distinct as they are spelled, while
  DuckDB's column names ignore letter case (`salesforce_report.cpp` 224);
* the comment on the nested aggregate shape speaks of COUNT(*); the code takes
  the function named `count`, that is COUNT(x), which is the right one: over the
  groups COUNT(*) would count the NULL group (`NestedPushable`);
* `salesforce_aggregate()` reads the session's query mode and not the catalog's.

### Fairness

`BulkScan` and `RestScan` assume that DuckDB goes on calling the scan function
of each thread until it returns no row, and that a request returns or fails:
every request has a timeout in the transport. `RestScan` also lets DuckDB stop
pulling at any time, which is not assumed to happen. `Session` assumes that an
operation that has begun takes its next step; the job on the server owes
nothing, it may stay InProgress for ever. `Catalog` assumes that a thread that
has begun an operation goes on; nothing is assumed of who gets the lock next, so
the property is that it is released, not that each waiter gets it.
`IncrementalLoad` (`FairSpec`) assumes that DuckDB pulls a bound function to its end; that a
Bulk job's locators do not loop is part of the model, since resume has no guard
of its own. The other modules state safety only.

## 4. What is proved

The proofs hold for every value of the constants that satisfies the assumptions,
which TLC evaluates in every run.

Assumptions, beyond counts and bounds being natural numbers and sets of settings
having the right fields:

* `ChunkingAssumption`: `Prefixes * ChunkCap <= Word`, that is, the product in
  the interpolation does not wrap. The code interpolates over 10 characters,
  62^10 values, and caps the chunks at 8, and 62^10 * 8 < 2^64.
* `BulkAssumption`: threads are numbered; the settings are integers, also
  negative ones.
* `RestAssumption`, `SessionAssumption`: page guard, vector size, retry limit and
  number of Tooling lists are at least 1; the poll budget is any integer, as the
  setting is.
* `QuotaAssumption`: there is at least one policy.
* `PlanAssumption`: a query has finitely many conjuncts, each of one kind.
* `SoqlAssumption`: values are numbers, apart from null; a predicate has the
  fields of its kind, compares with a constant that is not null (DuckDB folds
  such comparisons away; the bounds of a range, an IN list and IS DISTINCT FROM
  may have nulls), and is longer than its parts, so there is no endless nesting.
* `IncrementalLoadAssumption`: finitely many records; a Bulk job has at least
  one page, as the code's first request has an answer; the clock starts at a
  tick after 0.
* `CatalogAssumption`: the org has at least one and finitely many objects, and
  its references lead to them.
* `MetadataEngineAssumption`, `ReportBridgeAssumption`: the objects that are
  queryable or hard to describe are objects; the relationships of an object, the
  columns of a report and the like are lists; a token has at
  least one part, whose readings are known; the org keeps a report's filter logic
  well formed, operands and operators in turn, unless it has a word other than
  an index and AND (Salesforce refuses to save any other).
* `SampleAssumption`: numbers have texts of their own; a diagnostic column's name
  has the reserved prefix, does not begin with `col_` and does not end in a
  number, as the four names in the code.
* `DiagnosticsAssumption`: scans are numbered, from 1; a Bulk scan has at least
  one and finitely many threads.

| Module | Theorem | Statement |
|---|---|---|
| `BulkScanProofs` | `ChunksDisjoint` | no Id is in the ranges of two chunks |
| | `ChunksExhaustive` | every Id from MIN to MAX is in the range of some kept chunk |
| | `TypeCorrect` | `Spec => []TypeOK` |
| | `NoRowTwice` | `Spec => []AtMostOnce` |
| | `NoRowLost` | `Spec => []NothingLost` |
| | `BulkImplementsTableScan` | `Spec => ImplementsTableScan` |
| `RestScanProofs` | `RestTypeOK` | `Spec => []TypeOK` |
| | `RestLazyFetch` | `Spec => LazyFetch` (an action property) |
| | `RestImplementsTableScan` | `Spec => ImplementsTableScan` |
| `TranslationProofs` | `PlanTypeOK` | `Spec => []TypeOK` of `ScanPlan` |
| | `PlanPredicatesApplied` | `Spec => []PredicatesApplied` |
| | `PlanAggregateExact` | `Spec => []AggregateExact` |
| | `BridgeTypeCorrect` | `BridgeSpec => []BridgeTypeOK` |
| | `TranslationIsExact` | `BridgeSpec => []TranslationExact` |
| | `AnswersAreFresh` | `BridgeSpec => []AnswersFresh` |
| | `SamplesAreWellFormed` | `BridgeSpec => []SampleWellFormed` |
| | `GraphIsExact` | `BridgeSpec => []GraphExact` |
| | `PushdownTypeCorrect` | `PushdownSpec => []PushdownTypeOK` |
| | `AlikeRowsAreExact` | `PushdownSpec => []AlikeRowsExact` |
| `SessionProofs` | `SessionTypeOK` | `Spec => []TypeOK` |
| | `BulkReturnsCompleteJob` | `Spec => []ReturnsCompleteJob` |
| | `TokenExpiryIsTransparent` | `Spec => []ExpiryIsTransparent` |
| | `DailyLimitIsTerminal` | `Spec => LimitIsTerminal` (an action property) |
| `QuotaProofs` | `QuotaTypeOK` | `Spec => []TypeOK` |
| | `DecisionsAreFresh` | `Spec => []FreshSnapshot` |
| | `GateIsSound` | `Spec => []GateSound` |
| `CatalogProofs` | `CatalogTypeOK` | `Spec => []TypeOK` |
| | `RefreshTakesEffect` | `Spec => []NothingStale` |
| | `ObjectsDescribedOnce` | `Spec => []DescribedOnce` |
| | `ExpansionIsExact` | `Spec => []ExpansionExact` |
| `IncrementalLoadProofs` | `LoadTypeOK` | `Spec => []TypeOK` |
| | `LoadCheckpointSafe` | `Spec => []CheckpointSafe` |
| | `LoadEmitsEachIdOnce` | `Spec => []EachIdOnce` |
| | `LoadNeverPartial` | `Spec => []NeverPartial` |
| `DiagnosticsProofs` | `DiagTypeOK` | `Spec => []TypeOK` |
| | `RecordIsOfOneScan` | `Spec => []RecordOfOneScan` |
| | `CountsAreOfOneScan` | `Spec => []CountsOfOneScan` |

Every proof has the same shape: an inductive invariant (`IInv`; `PlanInv`,
`BridgeInv`, `GraphInv` and `PushdownInv` in `TranslationProofs`), one lemma for each action (or group of
actions that change the same state), and the theorems as consequences. Every
inductive invariant was checked by TLC on the instance of its run before
it was proved. What follows is why each one is needed.

**PkChunking.** The interpolated boundaries increase with the chunk's number,
which gives the two theorems; collapsed boundaries leave a range empty and the
next one starts where it did.

**BulkScan.** `TypeOK` alone is not inductive: the page asked for next must
exist. `PageInv` adds that a locator names the next page or one seen before.
`AtMostOnce` says nothing about why a row cannot come again. `OnceInv` does:
chunks are apart, each chunk is claimed by one thread, a thread's job holds rows
of its chunk only and each on one page, rows of unclaimed chunks and rows still
pending were not handed out. A row handed out now was pending in exactly one
place. `CoverInv` is the converse: every stable row is in some chunk, a running
job holds the stable rows of its chunk, and of a claimed chunk each stable row
was handed out, is pending, or its thread failed. When all threads are done the
dispenser is dry, so nothing is pending. For the refinement `MatchedInv` adds
that rows in a job or a page matched at some moment since the scan began. Each
action then maps to a step of `TableScan` or a stutter; `EmitVector` is
`Deliver`, and the step that ends the last thread is `Finish` or `Fail`.

**RestScan.** The loop guard lets only the cursor of the next page through
(`CursorInv`), so pages are asked for once and in order. The rows on the pages
before `next_path` are therefore those handed out and those in hand, and no row
is both (`RowInv`); `ResultInv` says what the org keeps for the query,
`ControlInv` where the loop is. `LazyFetch` follows from `ControlInv`: a lazy
scan that asks has no row in hand.

**ScanPlan.** `FilterInv`: every conjunct is pushed or left in the plan, and the
residual count of the last hook call is the number of those left, which is what
the count and aggregate pushdowns test. `AggregateInv` says that the pushed
functions are those of the query's terms on an unfiltered scan; the equality of
the two engines' answers is then a case for each function and field.

**Soql.** The argument is about translations, not steps. `Sound`: of the rows on
which a predicate is alike, its clause lets those of the predicate through, no
other one if it is called exact, and it is none the org rejects. For a comparison
that is so because its clause says to the org what the user wrote (`OrgTrue`),
flipped or not. It holds of each kind of predicate on a column, and of an
AND or OR if it holds of the parts, as both are monotonic and every part was
translated without a refusal; so there is no shortest predicate of which it does
not hold. `SqlRows`, `AlikeRows` and `TranslateExpr` are recursive functions over predicates
of any depth; that they exist is proved first, once for all functions by
recursion on trees (`TreeRecursion`). `PushdownInv` then says that the flags of a
conjunct are those of its translation, and that a conjunct missing from
`remaining` is in the WHERE and exact. Nothing is assumed of the org's rules.

**Session.** `StageInv`, `PollInv` and `TokenInv` carry over any number of
retries which operation a stage belongs to, that the job polled is one this call
created, and that a token just granted is good unless something else failed;
`LimitInv` that the limit ended the operation.

**Quota.** A snapshot is `Truthful`: never older than its date, and it shows each
reserve that was used up before it was taken and still is. Cache entries and the
locals of every caller keep this while the lock is free; `Usable` is what a
caller's cache time then allows.

**Catalog.** The invariant is mutual exclusion: `LockInv` ties `lock_` to the
threads that fill a cache, `FreshInv` and `CountInv` say that what the holder has
put together is as new as the last refresh and was not there before. A refresh
waits for the lock, so it finds nobody half way. `ExpansionExact` needs a second
invariant, `ExpandInv`: an entry under construction shows exactly the paths of
`ExpandablePaths` that are neither missed nor still to come on its stack, and the
visited set is the path the recursion is on. The object's own fields and those of
a parent are the two cases `First` and `Second`, because the depth is clamped
to 2.

**IncrementalLoad.** `SweepInv`: everything deleted since the checkpoint and
before the place where the next slice starts is among the rows, and nothing
before the frontier is missing. It rests on two facts about whole seconds:
cutting goes back by less than a second, and the org never claims to cover the
tick that is running, so no later deletion falls before a frontier. `EmitInv`
and `QueryAllInv` relate the rows emitted to the buffer and to the result.
`ResumeInv` does for a resumed job: the rows out are those of the pages before
the current one and, of this one, the rows up to the cursor. What `FlattenSeq`
makes of the first k pages is a recursive function; it exists for every number
of pages, because there is no least number of pages for which it does not.

**ReportBridge.** `Found` is the set of reasons that the part of the report
judged so far gives, and `SoqlOK` says that `blocked_by` is the first of them by
precedence (`Kept`) and, while there is none, that the columns and filters judged
are all projected and all clauses (`Complete`). What was judged at one step must
still hold at the last, though each step may add describes to the cache: during a
call the cache only grows and the org is at rest (`Settled`), so the fields of an
object are the same before it is cached and after, and so is what a token
resolves to (`ResolveStable`). At the end `Found` is the set of the reasons
`Blocks` names. `AnswersFresh` needs `FreshInv`: of an object that did not change
since its last refresh, the cached describe lacks exactly what the org lacks.
`WalkInv` adds what the type of the walk rests on. `SampleWellFormed` is not
about steps but about `ColumnNames`: k columns use at most k names, so among
k + 1 suffixes one is free, and the names of k + 1 columns are distinct if those
of k are.

**MetadataEngine.** `GraphExact` speaks of the end of a direction only; `GraphInv`
says at every moment of a walk which rows there are. An edge of a chain is
`Pending` when its path goes the way the walk went up to some object of the stack
and there turns to an edge not taken yet, and the rows are those of the edges
that are not (`RowsInv`). `visited` and the path on top are themselves a chain
(`WalkChain`), and the path of a frame is the edges taken below it (`PathsInv`).
A step over an edge settles that edge alone (`EdgeSettles`): what lies behind it
is pending before because the edge is, and after because the new object has
taken none of its edges; where the edge is not followed, no chain goes over it.
Leaving an object settles nothing (`ReturnSettles`): all its edges are taken. A
describe changes no answer of the engine within a call, so the chains do not
move under the walk (`SameChains`). `ChainsOf` itself, a recursive function over
the length of the chains, is compared level by level with a predicate on whole
chains (`ChainsAre`).

**Diagnostics.** The argument is about time. `OrderInv`: scans start in the order
of their numbers, and of two that were ever under way together both count as
overlapped; so a scan that ran alone finds every earlier one over. `OwnerInv`:
the record in `g_cost` belongs to the scan that replaced it as a whole, and while
that scan ran alone nobody else is at a step that writes into it. Every write to
the record is then its owner's. `PiecesInv` and `SoqlInv` follow the pieces step
by step; `JobsInv` bounds the create bodies by the threads that created a job;
`CountsInv` says which step of the one fetching thread holds the newest page
count, and that the count kept outside the record can differ only once a later
scan has begun. `ThreadInv` relates a thread's step and its copy of the count
to the scan.

Only model-checked, and why:

* liveness (`Termination`, `OperationEnds`, `LockReleased`, `CallEnds`): fairness
  and ENABLED are out of the prover's reach.

## 5. What is not modelled

Decoding of cells, JSON and CSV; the describe parser and the type mapping; the
text of SOQL, of report caveats and of the hints; the query that
`salesforce_aggregate()` composes; configuration, registration, the mock
transport and the printing of diagnostics. These are conversions of text without
state or order, which unit tests reach. Inside the modelled parts: a table
entry's NOT NULL constraints and compound fields, the process-wide record of the
last parent expansion, the life of the entry pointers that DuckDB's binder holds, two connections inside the metadata engine at once
(a data race), and the arithmetic of an absurd `sf_quota_reserve_pct`.

## 6. Plan

The order puts first what would return wrong rows.

1. Done: `PkChunking`, `BulkScan` with its theorems and refinement, `RestScan`,
   `ScanPlan` with the grouping of its WHERE and both aggregate shapes,
   `Session`, `Quota`, `Catalog`, `Soql`, `IncrementalLoad`, `MetadataEngine`,
   `ReportBridge`, `Diagnostics`.
2. Done: the proofs of section 4.
3. Left to TLC: the list at the end of section 4.
