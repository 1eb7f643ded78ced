-------------------------- MODULE DiagnosticsProofs --------------------------
(***************************************************************************)
(* The record of a scan that ran alone is its own, for any number of       *)
(* scans, threads and pages.  Every piece of a record is written under a   *)
(* lock of its own, so the argument is about time: a scan that did not     *)
(* overlap finds every earlier scan over, and no later one writes into the *)
(* record before it has replaced it as a whole.                            *)
(***************************************************************************)
EXTENDS Diagnostics, SequenceTheorems, FiniteSetTheorems, TLAPS

InitSteps == {"new", "soql", "transport", "counting", "recording", "explaining", "chunking",
              "running", "over"}

Stages == {"idle", "gated", "polling", "ready", "fetched", "published", "counted", "emitted"}

SoqlType == [ scan : Owners, for : {"none", "rows", "count", "aggregate", "helper"} ]

CostType ==
  [ scan : Owners, soql : {"none", "rows", "count", "aggregate"}, bulk : BOOLEAN,
    explain : Owners, pages : Nat, rows : Nat, bulk_chunks : Nat, bulk_polls : Owners,
    quota : Owners ]

(* The types, in the form the provers take. *)
ShapeInv ==
  /\ g_last_soql \in SoqlType /\ g_last_scan_pages \in Nat /\ g_last_transport \in Owners
  /\ g_last_bulk_create_body \in Seq(Scans) /\ g_cost \in CostType
  /\ kind \in [Scans -> Kinds] /\ init \in [Scans -> InitSteps]
  /\ stage \in [Scans -> [Threads -> Stages]] /\ total \in [Scans -> [Threads -> Nat]]
  /\ fetchers \in [Scans -> SUBSET Threads]
  /\ pages \in [Scans -> 0 .. MaxPages] /\ emitted \in [Scans -> Nat]
  /\ overlapped \subseteq Scans /\ helpers \in 0 .. MaxHelpers

(* InitGlobal of s is not done yet. *)
Preparing(s) == init[s] \notin {"running", "over"}

(* The threads of a scan. *)
ThreadInv ==
  \A s \in Scans :
    /\ fetchers[s] \subseteq Threaded(s)
    /\ fetchers[s] = {} => pages[s] = 0
    /\ Preparing(s) => fetchers[s] = {} /\ emitted[s] = 0
    /\ \A t \in Threads :
         /\ total[s][t] <= pages[s]
         /\ init[s] # "running" => stage[s][t] = "idle"
         /\ stage[s][t] \in {"gated", "polling"} => kind[s] = "bulk"
         /\ stage[s][t] \in {"fetched", "published", "counted"} => t \in fetchers[s]

(* Scans start in the order of their numbers, and one that starts while    *)
(* another is under way overlaps it.                                       *)
OrderInv ==
  \A r, s \in Scans :
    r < s /\ init[s] # "new" =>
      /\ init[r] # "new"
      /\ init[r] = "over" \/ (r \in overlapped /\ s \in overlapped)

(* The steps in which a scan writes into its record. *)
Writing(s) == init[s] \in {"explaining", "chunking", "running"}

(* s has its record in g_cost, and ran alone so far. *)
Owns(s) == g_cost.scan = s /\ s \notin overlapped

(* A record belongs to a scan that made it, and nobody else writes to it. *)
OwnerInv ==
  \A s \in Scans :
    /\ g_cost.scan = s => Writing(s) \/ init[s] = "over"
    /\ Owns(s) => \A r \in Scans : Writing(r) => r = s

(* What last_soql says of the scan that wrote it last. *)
SoqlInv ==
  \A s \in Scans : g_last_soql.scan = s =>
    /\ init[s] \in {"soql", "transport"} => g_last_soql.for = "rows"
    /\ init[s] = "counting" =>
         g_last_soql.for = IF kind[s] = "aggregate" THEN "aggregate" ELSE "rows"
    /\ init[s] = "recording" \/ Writing(s) \/ g_cost.scan = s => g_last_soql.for = Reported(s)

(* The pieces of a record. *)
PiecesOf(s) ==
  /\ g_cost.soql = Reported(s) /\ g_cost.bulk = (kind[s] = "bulk")
  /\ init[s] # "explaining" => g_cost.explain = s
  /\ g_cost.bulk_polls \in {NoScan, s} /\ g_cost.quota \in {NoScan, s}
  /\ kind[s] # "bulk" => g_cost.bulk_polls = NoScan /\ g_cost.quota = NoScan

PiecesInv == \A s \in Scans : Owns(s) => PiecesOf(s)

(* The threads of s that created their job. *)
Creators(s) == { t \in Threads : stage[s][t] \notin {"idle", "gated"} }

(* The jobs of a Bulk scan: one for each thread at most. *)
JobsOf(s) ==
  /\ \A i \in 1 .. Len(g_last_bulk_create_body) : g_last_bulk_create_body[i] = s
  /\ g_cost.bulk_chunks = Cardinality(Threads)
  /\ Len(g_last_bulk_create_body) <= Cardinality(Threads)
  /\ init[s] = "running" => Len(g_last_bulk_create_body) <= Cardinality(Creators(s))

JobsInv ==
  \A s \in Scans : Owns(s) /\ kind[s] = "bulk" /\ ~ Preparing(s) => JobsOf(s)

(* A later scan has begun. *)
Later(s) == \E r \in Scans : r > s /\ init[r] # "new"

(* The counts: exact as long as one thread fetches. *)
CountsOf(s) ==
  /\ g_cost.rows = emitted[s]
  /\ g_cost.pages <= pages[s]
  /\ \A t \in Threads : fetchers[s] \subseteq {t} =>
       /\ stage[s][t] \in {"fetched", "published"} => total[s][t] = pages[s]
       /\ stage[s][t] \notin {"fetched", "published"} => g_cost.pages = pages[s]
       /\ stage[s][t] # "fetched" => g_last_scan_pages = pages[s] \/ Later(s)

CountsInv ==
  \A s \in Scans :
    /\ Owns(s) => CountsOf(s)
    /\ s \notin overlapped /\ Active(s) /\ Preparing(s) /\ init[s] # "soql" =>
         g_last_scan_pages = 0

(* The inductive invariant. *)
IInv ==
  ShapeInv /\ ThreadInv /\ OrderInv /\ OwnerInv /\ SoqlInv /\ PiecesInv /\ JobsInv /\ CountsInv

-----------------------------------------------------------------------------

(* Scans are numbers, and no scan is none. *)
LEMMA Numbers == /\ \A s \in Scans : s \in Int /\ s # NoScan
                 /\ \A r, s \in Scans : r = s \/ r < s \/ s < r
  BY DiagnosticsAssumption DEF NoScan

(* A record nobody has written. *)
LEMMA FreshType ==
  /\ FreshCost \in CostType /\ FreshCost.scan = NoScan /\ FreshCost.soql = "none"
  /\ FreshCost.pages = 0 /\ FreshCost.rows = 0 /\ FreshCost.explain = NoScan
  /\ FreshCost.bulk_polls = NoScan /\ FreshCost.quota = NoScan
  BY DEF FreshCost, CostType, Owners

(* A scan that ran alone so far is the only one under way. *)
LEMMA Alone ==
  ASSUME OrderInv, NEW r \in Scans, NEW s \in Scans, s \notin overlapped, Active(r), Active(s)
  PROVE  r = s
  BY Numbers DEF OrderInv, Active

(* The invariant holds before the first scan. *)
LEMMA IInit == Init => IInv
  <1> SUFFICES ASSUME Init PROVE IInv
    OBVIOUS
  <1> USE DEF Init
  <1>1. ShapeInv
    <2>1. g_last_soql \in SoqlType
      BY DEF SoqlType, Owners
    <2>2. << >> \in Seq(Scans)
      BY EmptySeq
    <2>3. 0 \in 0 .. MaxPages /\ 0 \in 0 .. MaxHelpers
      BY DiagnosticsAssumption
    <2>4. g_cost \in CostType
      BY FreshType
    <2>5. g_last_transport \in Owners
      BY DEF Owners
    <2> QED
      BY <2>1, <2>2, <2>3, <2>4, <2>5 DEF ShapeInv, InitSteps, Stages
  <1>2. ThreadInv
    BY DEF ThreadInv, Preparing
  <1>3. OrderInv
    BY DEF OrderInv
  <1>4. g_cost.scan = NoScan /\ g_last_soql.scan = NoScan
    BY FreshType
  <1>5. OwnerInv /\ SoqlInv /\ PiecesInv /\ JobsInv
    BY <1>4, Numbers DEF OwnerInv, SoqlInv, PiecesInv, JobsInv, Owns
  <1>6. CountsInv
    BY <1>4, Numbers DEF CountsInv, Owns, Active
  <1> QED
    BY <1>1, <1>2, <1>3, <1>5, <1>6 DEF IInv

-----------------------------------------------------------------------------
(* InitGlobal.                                                             *)

(* A step of InitGlobal of scan s, as the others see it. *)
LEMMA InitChange ==
  ASSUME ShapeInv, OrderInv, NEW s \in Scans, NEW to \in InitSteps \ {"new"}, Active(s),
         init' = [init EXCEPT ![s] = to], UNCHANGED overlapped
  PROVE  /\ init' \in [Scans -> InitSteps] /\ init'[s] = to
         /\ \A r \in Scans : r # s => init'[r] = init[r]
         /\ OrderInv'
  <1>1. /\ init' \in [Scans -> InitSteps] /\ init'[s] = to
        /\ \A r \in Scans : r # s => init'[r] = init[r]
    BY DEF ShapeInv
  <1> QED
    BY <1>1 DEF OrderInv, Active

(* A scan begins. *)
LEMMA BeginInitStep == ASSUME IInv, NEW s \in Scans, BeginInit(s) PROVE IInv'
  <1>1. PICK to \in {"soql", "over"} : init[s] = "new" /\ init' = [init EXCEPT ![s] = to]
    BY DEF BeginInit, InitStep
  <1>2. /\ \A r \in Scans : r < s => init[r] # "new"
        /\ g_last_soql' = [ scan |-> s, for |-> "rows" ]
        /\ overlapped' = IF \E r \in Scans : Active(r)
                         THEN overlapped \union {s} \union { r \in Scans : Active(r) } ELSE overlapped
        /\ UNCHANGED <<g_last_scan_pages, g_last_transport, g_last_bulk_create_body, g_cost, kind,
                       stage, total, fetchers, pages, emitted, helpers>>
    BY DEF BeginInit
  <1>3. /\ init' \in [Scans -> InitSteps] /\ init'[s] = to
        /\ \A r \in Scans : r # s => init'[r] = init[r]
    BY <1>1 DEF IInv, ShapeInv, InitSteps
  <1>4. /\ g_last_soql' \in SoqlType /\ g_last_soql'.scan = s /\ g_last_soql'.for = "rows"
    BY <1>2 DEF SoqlType, Owners
  <1>5. /\ overlapped' \subseteq Scans /\ overlapped \subseteq overlapped'
        /\ \A r \in Scans : Active(r) => r \in overlapped' /\ s \in overlapped'
    BY <1>2 DEF IInv, ShapeInv
  <1>6. g_cost.scan # s
    BY <1>1 DEF IInv, OwnerInv, Writing
  <1>7. ShapeInv'
    BY <1>2, <1>3, <1>4, <1>5 DEF IInv, ShapeInv
  <1>8. ThreadInv'
    BY <1>1, <1>2, <1>3 DEF IInv, ThreadInv, Preparing, Threaded
  <1>9. OrderInv'
    <2> SUFFICES ASSUME NEW r \in Scans, NEW x \in Scans, r < x, init'[x] # "new"
                 PROVE  /\ init'[r] # "new"
                        /\ init'[r] = "over" \/ (r \in overlapped' /\ x \in overlapped')
      BY DEF OrderInv
    <2>1. r # x
      BY Numbers
    <2>2. CASE x = s
      BY <1>2, <1>3, <1>5, <2>1, <2>2 DEF Active
    <2>3. CASE x # s
      BY <1>1, <1>3, <1>5, <2>3 DEF IInv, OrderInv
    <2> QED
      BY <2>2, <2>3
  <1>10. OwnerInv'
    BY <1>1, <1>2, <1>3, <1>5, <1>6 DEF IInv, OwnerInv, Writing, Owns
  <1>11. SoqlInv'
    BY <1>2, <1>3, <1>4, <1>6 DEF SoqlInv, Writing
  <1>12. PiecesInv' /\ JobsInv'
    BY <1>2, <1>3, <1>5, <1>6
       DEF IInv, PiecesInv, PiecesOf, JobsInv, JobsOf, Owns, Reported, Preparing, Creators
  <1>13. CountsInv'
    <2>1. \A x \in Scans : Later(x) => Later(x)'
      BY <1>1, <1>3 DEF Later
    <2> QED
      BY <1>2, <1>3, <1>5, <1>6, <2>1 DEF IInv, CountsInv, CountsOf, Owns, Active, Preparing
  <1> QED
    BY <1>7, <1>8, <1>9, <1>10, <1>11, <1>12, <1>13 DEF IInv

(* A scan that has the record is followed by whoever else is under way. *)
LEMMA Followed ==
  ASSUME OrderInv, NEW r \in Scans, NEW s \in Scans, r # s, s \notin overlapped,
         init[s] # "new", Active(r)
  PROVE  Later(s)
  BY Numbers DEF OrderInv, Active, Later

(* The steps before the record: whatever they write, the record and its    *)
(* pieces are not concerned.                                               *)
LEMMA Planning ==
  ASSUME IInv, NEW s \in Scans, NEW to \in {"transport", "counting", "recording", "over"},
         init[s] \in {"soql", "transport", "counting"}, init' = [init EXCEPT ![s] = to],
         g_last_soql' \in SoqlType, g_last_transport' \in Owners,
         \/ g_last_scan_pages' = 0
         \/ init[s] # "soql" /\ g_last_scan_pages' = g_last_scan_pages,
         UNCHANGED <<g_last_bulk_create_body, g_cost, kind, stage, total, fetchers, pages, emitted,
                     overlapped, helpers>>
  PROVE  /\ ShapeInv' /\ ThreadInv' /\ OrderInv' /\ OwnerInv' /\ PiecesInv' /\ JobsInv' /\ CountsInv'
         /\ init'[s] = to /\ \A r \in Scans : r # s => init'[r] = init[r]
         /\ g_cost.scan # s
  <1>1. Active(s) /\ Preparing(s) /\ ~ Writing(s)
    BY DEF Active, Preparing, Writing
  <1>2. /\ init' \in [Scans -> InitSteps] /\ init'[s] = to
        /\ \A r \in Scans : r # s => init'[r] = init[r]
        /\ OrderInv'
    <2>1. to \in InitSteps \ {"new"}
      BY DEF InitSteps
    <2> QED
      BY <1>1, <2>1, InitChange DEF IInv
  <1>3. g_cost.scan # s
    BY <1>1 DEF IInv, OwnerInv, Active
  <1>4. ShapeInv'
    BY <1>2 DEF IInv, ShapeInv
  <1>5. ThreadInv'
    BY <1>1, <1>2 DEF IInv, ThreadInv, Preparing, Threaded
  <1>6. OwnerInv'
    BY <1>2, <1>3 DEF IInv, OwnerInv, Writing, Owns
  <1>7. PiecesInv' /\ JobsInv'
    BY <1>2, <1>3
       DEF IInv, PiecesInv, PiecesOf, JobsInv, JobsOf, Owns, Reported, Preparing, Creators
  <1>8. CountsInv'
    <2> SUFFICES ASSUME NEW x \in Scans
                 PROVE  /\ Owns(x)' => CountsOf(x)'
                        /\ (x \notin overlapped /\ Active(x) /\ Preparing(x) /\ init[x] # "soql")' =>
                             g_last_scan_pages' = 0
      BY DEF CountsInv
    <2>1. ASSUME Owns(x)' PROVE CountsOf(x)'
      <3>1. Owns(x) /\ x # s
        BY <1>3, <2>1 DEF Owns
      <3>2. init[x] # "new"
        BY <3>1 DEF IInv, OwnerInv, Owns, Writing
      <3>3. Later(x)
        BY <1>1, <3>1, <3>2, Followed DEF IInv, Owns
      <3>4. Later(x)'
        BY <1>2, <3>3 DEF Later
      <3>5. CountsOf(x)
        BY <3>1 DEF IInv, CountsInv
      <3> QED
        BY <3>4, <3>5 DEF CountsOf
    <2>2. ASSUME (x \notin overlapped /\ Active(x) /\ Preparing(x) /\ init[x] # "soql")'
          PROVE  g_last_scan_pages' = 0
      <3>1. CASE x = s
        BY <1>1, <2>2, <3>1 DEF IInv, CountsInv
      <3>2. CASE x # s
        <4>1. Active(x)
          BY <1>2, <2>2, <3>2 DEF Active
        <4> QED
          BY <1>1, <2>2, <3>2, <4>1, Alone DEF IInv
      <3> QED
        BY <3>1, <3>2
    <2> QED
      BY <2>1, <2>2
  <1> QED
    BY <1>2, <1>3, <1>4, <1>5, <1>6, <1>7, <1>8

(* The page count is reset. *)
LEMMA ResetPagesStep == ASSUME IInv, NEW s \in Scans, ResetPages(s) PROVE IInv'
  <1>1. PICK to \in {"transport", "over"} : init[s] = "soql" /\ init' = [init EXCEPT ![s] = to]
    BY DEF ResetPages, InitStep
  <1>2. /\ g_last_scan_pages' = 0 /\ g_last_soql' = g_last_soql
        /\ UNCHANGED <<g_last_transport, g_last_bulk_create_body, g_cost, kind, stage, total, fetchers,
                       pages, emitted, overlapped, helpers>>
    BY DEF ResetPages
  <1>3. /\ ShapeInv' /\ ThreadInv' /\ OrderInv' /\ OwnerInv' /\ PiecesInv' /\ JobsInv' /\ CountsInv'
        /\ init'[s] = to /\ \A r \in Scans : r # s => init'[r] = init[r]
        /\ g_cost.scan # s
    <2>1. g_last_soql' \in SoqlType /\ g_last_transport' \in Owners
      BY <1>2 DEF IInv, ShapeInv
    <2> QED
      BY <1>1, <1>2, <2>1, Planning
  <1>4. SoqlInv'
    BY <1>1, <1>2, <1>3 DEF IInv, SoqlInv, Writing, Reported
  <1> QED
    BY <1>3, <1>4 DEF IInv

(* The transport, and the SOQL of an aggregate. *)
LEMMA RecordTransportStep == ASSUME IInv, NEW s \in Scans, RecordTransport(s) PROVE IInv'
  <1>1. PICK to \in {"counting", "over"} :
          init[s] = "transport" /\ init' = [init EXCEPT ![s] = to]
    BY DEF RecordTransport, InitStep
  <1>2. /\ g_last_transport' = s
        /\ g_last_soql' = IF kind[s] = "aggregate" THEN [ scan |-> s, for |-> "aggregate" ]
                          ELSE g_last_soql
        /\ g_last_scan_pages' = IF kind[s] = "aggregate" THEN 0 ELSE g_last_scan_pages
        /\ UNCHANGED <<g_last_bulk_create_body, g_cost, kind, stage, total, fetchers, pages, emitted,
                       overlapped, helpers>>
    BY DEF RecordTransport
  <1>3. /\ ShapeInv' /\ ThreadInv' /\ OrderInv' /\ OwnerInv' /\ PiecesInv' /\ JobsInv' /\ CountsInv'
        /\ init'[s] = to /\ \A r \in Scans : r # s => init'[r] = init[r]
        /\ g_cost.scan # s
    <2>1. g_last_transport' \in Owners /\ s \in Owners
      BY <1>2 DEF Owners
    <2>2. g_last_soql' \in SoqlType
      BY <1>2, <2>1 DEF IInv, ShapeInv, SoqlType
    <2> QED
      BY <1>1, <1>2, <2>1, <2>2, Planning
  <1>4. SoqlInv'
    BY <1>1, <1>2, <1>3 DEF IInv, SoqlInv, Writing, Reported
  <1> QED
    BY <1>3, <1>4 DEF IInv

(* The SOQL of a count. *)
LEMMA RecordCountStep == ASSUME IInv, NEW s \in Scans, RecordCount(s) PROVE IInv'
  <1>1. init[s] = "counting" /\ init' = [init EXCEPT ![s] = "recording"]
    BY DEF RecordCount, InitStep
  <1>2. /\ IF kind[s] = "count"
           THEN g_last_soql' = [ scan |-> s, for |-> "count" ] /\ g_last_scan_pages' = 0
           ELSE UNCHANGED <<g_last_soql, g_last_scan_pages>>
        /\ UNCHANGED <<g_last_transport, g_last_bulk_create_body, g_cost, kind, stage, total, fetchers,
                       pages, emitted, overlapped, helpers>>
    BY DEF RecordCount
  <1>3. /\ ShapeInv' /\ ThreadInv' /\ OrderInv' /\ OwnerInv' /\ PiecesInv' /\ JobsInv' /\ CountsInv'
        /\ init'[s] = "recording" /\ \A r \in Scans : r # s => init'[r] = init[r]
        /\ g_cost.scan # s
    <2>1. g_last_transport' \in Owners /\ s \in Owners
      BY <1>2 DEF Owners, IInv, ShapeInv
    <2>2. g_last_soql' \in SoqlType
      BY <1>2, <2>1 DEF IInv, ShapeInv, SoqlType
    <2> QED
      BY <1>1, <1>2, <2>1, <2>2, Planning
  <1>4. SoqlInv'
    BY <1>1, <1>2, <1>3 DEF IInv, SoqlInv, Writing, Reported
  <1> QED
    BY <1>3, <1>4 DEF IInv

(* The record is replaced as a whole, and s owns it unless it overlapped. *)
LEMMA DiagRecordScanStep == ASSUME IInv, NEW s \in Scans, DiagRecordScan(s) PROVE IInv'
  <1>1. init[s] = "recording" /\ init' = [init EXCEPT ![s] = "explaining"]
    BY DEF DiagRecordScan, InitStep
  <1>2. /\ g_cost' = [FreshCost EXCEPT !.scan = s, !.soql = Reported(s), !.bulk = (kind[s] = "bulk")]
        /\ UNCHANGED <<g_last_soql, g_last_scan_pages, g_last_transport, g_last_bulk_create_body, kind,
                       stage, total, fetchers, pages, emitted, overlapped, helpers>>
    BY DEF DiagRecordScan
  <1>3. Active(s) /\ Preparing(s)
    BY <1>1 DEF Active, Preparing
  <1>4. /\ init' \in [Scans -> InitSteps] /\ init'[s] = "explaining"
        /\ \A r \in Scans : r # s => init'[r] = init[r]
        /\ OrderInv'
    <2>1. "explaining" \in InitSteps \ {"new"}
      BY DEF InitSteps
    <2> QED
      BY <1>1, <1>2, <1>3, <2>1, InitChange DEF IInv
  <1>5. /\ g_cost' \in CostType /\ g_cost'.scan = s /\ g_cost'.soql = Reported(s)
        /\ g_cost'.bulk = (kind[s] = "bulk") /\ g_cost'.pages = 0 /\ g_cost'.rows = 0
        /\ g_cost'.bulk_polls = NoScan /\ g_cost'.quota = NoScan
    <2>1. s \in Owners /\ Reported(s) \in {"rows", "count", "aggregate"}
      BY DEF Owners, Reported
    <2> QED
      BY <1>2, <2>1, FreshType DEF CostType
  <1>6. ShapeInv'
    BY <1>2, <1>4, <1>5 DEF IInv, ShapeInv
  <1>7. ThreadInv'
    BY <1>1, <1>2, <1>4 DEF IInv, ThreadInv, Preparing, Threaded
  <1>8. OwnerInv'
    <2> SUFFICES ASSUME NEW x \in Scans
                 PROVE  /\ g_cost'.scan = x => Writing(x)' \/ init'[x] = "over"
                        /\ Owns(x)' => \A r \in Scans : Writing(r)' => r = x
      BY DEF OwnerInv
    <2>1. g_cost'.scan = x => Writing(x)'
      BY <1>4, <1>5 DEF Writing
    <2>2. ASSUME Owns(x)', NEW r \in Scans, Writing(r)' PROVE r = x
      <3>1. x = s /\ s \notin overlapped
        BY <1>2, <1>5, <2>2 DEF Owns
      <3>2. Active(r)
        BY <1>3, <1>4, <2>2 DEF Active, Writing
      <3> QED
        BY <1>3, <3>1, <3>2, Alone DEF IInv
    <2> QED
      BY <2>1, <2>2
  <1>9. SoqlInv'
    BY <1>1, <1>2, <1>4, <1>5 DEF IInv, SoqlInv, Writing, Reported
  <1>10. PiecesInv' /\ JobsInv'
    BY <1>2, <1>4, <1>5 DEF PiecesInv, PiecesOf, JobsInv, Owns, Reported, Preparing
  <1>11. CountsInv'
    <2>1. /\ emitted[s] = 0 /\ pages[s] = 0 /\ \A t \in Threads : stage[s][t] = "idle"
          /\ s \notin overlapped => g_last_scan_pages = 0
      BY <1>1, <1>3 DEF IInv, ThreadInv, CountsInv, Active
    <2>2. \A x \in Scans : Owns(x)' => CountsOf(x)'
      BY <1>2, <1>5, <2>1 DEF Owns, CountsOf
    <2>3. \A x \in Scans : (x \notin overlapped /\ Active(x))' => x = s
      <3> SUFFICES ASSUME NEW x \in Scans, (x \notin overlapped /\ Active(x))' PROVE x = s
        OBVIOUS
      <3>1. Active(x) /\ x \notin overlapped
        BY <1>2, <1>3, <1>4 DEF Active
      <3> QED
        BY <1>3, <3>1, Alone DEF IInv
    <2> QED
      BY <1>2, <2>1, <2>2, <2>3 DEF CountsInv
  <1> QED
    BY <1>4, <1>6, <1>7, <1>8, <1>9, <1>10, <1>11 DEF IInv

(* The record is written by the scan that owns it. *)
LEMMA OnlyOwner ==
  ASSUME OwnerInv, NEW s \in Scans, Writing(s), NEW x \in Scans, Owns(x)
  PROVE  x = s
  BY DEF OwnerInv

(* The explain items. *)
LEMMA DiagSetExplainStep == ASSUME IInv, NEW s \in Scans, DiagSetExplain(s) PROVE IInv'
  <1> DEFINE to == IF kind[s] = "bulk" THEN "chunking" ELSE "running"
  <1>1. init[s] = "explaining" /\ init' = [init EXCEPT ![s] = to]
    BY DEF DiagSetExplain, InitStep
  <1>2. /\ g_cost' = [g_cost EXCEPT !.explain = s]
        /\ UNCHANGED <<g_last_soql, g_last_scan_pages, g_last_transport, g_last_bulk_create_body, kind,
                       stage, total, fetchers, pages, emitted, overlapped, helpers>>
    BY DEF DiagSetExplain
  <1>3. Active(s) /\ Preparing(s) /\ Writing(s)
    BY <1>1 DEF Active, Preparing, Writing
  <1>4. to \in {"chunking", "running"} /\ (kind[s] = "bulk" => to = "chunking")
    OBVIOUS
  <1> HIDE DEF to
  <1>5. /\ init' \in [Scans -> InitSteps] /\ init'[s] = to
        /\ \A r \in Scans : r # s => init'[r] = init[r]
        /\ OrderInv'
    <2>1. to \in InitSteps \ {"new"}
      BY <1>4 DEF InitSteps
    <2> QED
      BY <1>1, <1>2, <1>3, <2>1, InitChange DEF IInv
  <1>6. /\ g_cost' \in CostType /\ g_cost'.explain = s /\ g_cost'.scan = g_cost.scan
        /\ g_cost'.soql = g_cost.soql /\ g_cost'.bulk = g_cost.bulk /\ g_cost'.pages = g_cost.pages
        /\ g_cost'.rows = g_cost.rows /\ g_cost'.bulk_polls = g_cost.bulk_polls
        /\ g_cost'.quota = g_cost.quota
    BY <1>2 DEF IInv, ShapeInv, CostType, Owners
  <1>7. ShapeInv'
    BY <1>2, <1>5, <1>6 DEF IInv, ShapeInv
  <1>8. ThreadInv'
    BY <1>1, <1>2, <1>4, <1>5 DEF IInv, ThreadInv, Preparing, Threaded
  <1>9. OwnerInv'
    BY <1>1, <1>2, <1>4, <1>5, <1>6 DEF IInv, OwnerInv, Writing, Owns
  <1>10. SoqlInv'
    BY <1>1, <1>2, <1>4, <1>5, <1>6 DEF IInv, SoqlInv, Writing, Reported
  <1>11. \A x \in Scans : Owns(x)' => Owns(x) /\ x = s
    BY <1>2, <1>3, <1>6, OnlyOwner DEF IInv, Owns
  <1>12. PiecesInv' /\ JobsInv'
    BY <1>2, <1>4, <1>5, <1>6, <1>11
       DEF IInv, PiecesInv, PiecesOf, JobsInv, Reported, Preparing
  <1>13. CountsInv'
    <2>1. \A x \in Scans : Owns(x)' => CountsOf(x)'
      <3>1. \A x \in Scans : Later(x) => Later(x)'
        BY <1>4, <1>5 DEF Later
      <3> QED
        BY <1>2, <1>6, <1>11, <3>1 DEF IInv, CountsInv, CountsOf
    <2> QED
      BY <1>1, <1>2, <1>3, <1>5, <2>1 DEF IInv, CountsInv, Active, Preparing
  <1> QED
    BY <1>5, <1>7, <1>8, <1>9, <1>10, <1>12, <1>13 DEF IInv

(* There are finitely many threads. *)
LEMMA ThreadCount == Cardinality(Threads) \in Nat
  BY DiagnosticsAssumption, FS_CardinalityType

(* The threads that created a job are counted. *)
LEMMA CreatorCount ==
  ASSUME NEW s PROVE  /\ IsFiniteSet(Creators(s)) /\ Cardinality(Creators(s)) \in Nat
                      /\ Cardinality(Creators(s)) <= Cardinality(Threads)
  <1>1. Creators(s) \subseteq Threads
    BY DEF Creators
  <1> QED
    BY <1>1, DiagnosticsAssumption, FS_Subset, FS_CardinalityType

(* The create bodies are reset and the chunks counted. *)
LEMMA StartBulkStep == ASSUME IInv, NEW s \in Scans, StartBulk(s) PROVE IInv'
  <1>1. init[s] = "chunking" /\ init' = [init EXCEPT ![s] = "running"]
    BY DEF StartBulk, InitStep
  <1>2. /\ g_last_bulk_create_body' = << >>
        /\ g_cost' = [g_cost EXCEPT !.bulk_chunks = Cardinality(Threads)]
        /\ UNCHANGED <<g_last_soql, g_last_scan_pages, g_last_transport, kind, stage, total, fetchers,
                       pages, emitted, overlapped, helpers>>
    BY DEF StartBulk
  <1>3. Active(s) /\ Preparing(s) /\ Writing(s)
    BY <1>1 DEF Active, Preparing, Writing
  <1>4. /\ init' \in [Scans -> InitSteps] /\ init'[s] = "running"
        /\ \A r \in Scans : r # s => init'[r] = init[r]
        /\ OrderInv'
    <2>1. "running" \in InitSteps \ {"new"}
      BY DEF InitSteps
    <2> QED
      BY <1>1, <1>2, <1>3, <2>1, InitChange DEF IInv
  <1>5. /\ g_cost' \in CostType /\ g_cost'.bulk_chunks = Cardinality(Threads)
        /\ g_cost'.explain = g_cost.explain /\ g_cost'.scan = g_cost.scan
        /\ g_cost'.soql = g_cost.soql /\ g_cost'.bulk = g_cost.bulk /\ g_cost'.pages = g_cost.pages
        /\ g_cost'.rows = g_cost.rows /\ g_cost'.bulk_polls = g_cost.bulk_polls
        /\ g_cost'.quota = g_cost.quota
    BY <1>2, ThreadCount DEF IInv, ShapeInv, CostType
  <1>6. g_last_bulk_create_body' \in Seq(Scans) /\ Len(g_last_bulk_create_body') = 0
    BY <1>2, EmptySeq
  <1>7. ShapeInv'
    BY <1>2, <1>4, <1>5, <1>6 DEF IInv, ShapeInv
  <1>8. ThreadInv'
    BY <1>1, <1>2, <1>4 DEF IInv, ThreadInv, Preparing, Threaded
  <1>9. OwnerInv'
    BY <1>1, <1>2, <1>4, <1>5 DEF IInv, OwnerInv, Writing, Owns
  <1>10. SoqlInv'
    BY <1>1, <1>2, <1>4, <1>5 DEF IInv, SoqlInv, Writing, Reported
  <1>11. \A x \in Scans : Owns(x)' => Owns(x) /\ x = s
    BY <1>2, <1>3, <1>5, OnlyOwner DEF IInv, Owns
  <1>12. PiecesInv'
    BY <1>1, <1>2, <1>4, <1>5, <1>11 DEF IInv, PiecesInv, PiecesOf, Reported
  <1>13. JobsInv'
    <2>1. JobsOf(s)'
      <3>1. Cardinality(Creators(s)') \in Nat
        <4>1. Creators(s)' = Creators(s)
          BY <1>2 DEF Creators
        <4> QED
          BY <4>1, CreatorCount
      <3> QED
        BY <1>5, <1>6, <3>1, ThreadCount DEF JobsOf
    <2> QED
      BY <1>11, <2>1 DEF JobsInv
  <1>14. CountsInv'
    <2>1. \A x \in Scans : Owns(x)' => CountsOf(x)'
      <3>1. \A x \in Scans : Later(x) => Later(x)'
        BY <1>4 DEF Later
      <3> QED
        BY <1>2, <1>5, <1>11, <3>1 DEF IInv, CountsInv, CountsOf
    <2> QED
      BY <1>1, <1>2, <1>3, <1>4, <2>1 DEF IInv, CountsInv, Active, Preparing
  <1> QED
    BY <1>4, <1>7, <1>8, <1>9, <1>10, <1>12, <1>13, <1>14 DEF IInv

(* A scan ends. *)
LEMMA EndScanStep == ASSUME IInv, NEW s \in Scans, EndScan(s) PROVE IInv'
  <1>1. init[s] = "running" /\ init' = [init EXCEPT ![s] = "over"] /\ Resting(s)
    BY DEF EndScan, InitStep
  <1>2. /\ stage' = [stage EXCEPT ![s] = [t \in Threads |-> "idle"]]
        /\ total' = [total EXCEPT ![s] = [t \in Threads |-> 0]]
        /\ UNCHANGED <<g_last_soql, g_last_scan_pages, g_last_transport, g_last_bulk_create_body,
                       g_cost, kind, fetchers, pages, emitted, overlapped, helpers>>
    BY DEF EndScan, globals
  <1>3. Active(s) /\ Writing(s)
    BY <1>1 DEF Active, Writing
  <1>4. /\ init' \in [Scans -> InitSteps] /\ init'[s] = "over"
        /\ \A r \in Scans : r # s => init'[r] = init[r]
        /\ OrderInv'
    <2>1. "over" \in InitSteps \ {"new"}
      BY DEF InitSteps
    <2> QED
      BY <1>1, <1>2, <1>3, <2>1, InitChange DEF IInv
  <1>5. /\ stage' \in [Scans -> [Threads -> Stages]] /\ total' \in [Scans -> [Threads -> Nat]]
        /\ \A t \in Threads : stage'[s][t] = "idle" /\ total'[s][t] = 0
        /\ \A r \in Scans : r # s => stage'[r] = stage[r] /\ total'[r] = total[r]
    BY <1>2 DEF IInv, ShapeInv, Stages
  <1>6. ShapeInv'
    BY <1>2, <1>4, <1>5 DEF IInv, ShapeInv
  <1>7. ThreadInv'
    <2>1. pages[s] \in Nat
      BY DiagnosticsAssumption DEF IInv, ShapeInv
    <2> QED
      BY <1>1, <1>2, <1>4, <1>5, <2>1 DEF IInv, ThreadInv, Preparing, Threaded
  <1>8. OwnerInv'
    BY <1>1, <1>2, <1>4 DEF IInv, OwnerInv, Writing, Owns
  <1>9. SoqlInv'
    BY <1>1, <1>2, <1>4 DEF IInv, SoqlInv, Writing, Reported
  <1>10. \A x \in Scans : Owns(x)' => Owns(x) /\ x = s
    BY <1>2, <1>3, OnlyOwner DEF IInv, Owns
  <1>11. PiecesInv'
    BY <1>1, <1>2, <1>4, <1>10 DEF IInv, PiecesInv, PiecesOf, Reported
  <1>12. JobsInv'
    BY <1>1, <1>2, <1>4, <1>10 DEF IInv, JobsInv, JobsOf, Preparing
  <1>13. CountsInv'
    <2>1. \A x \in Scans : Owns(x)' => CountsOf(x)'
      <3>1. \A x \in Scans : Later(x) => Later(x)'
        BY <1>4 DEF Later
      <3>2. \A t \in Threads : stage[s][t] \notin {"fetched", "published"}
        BY <1>1 DEF Resting
      <3> QED
        BY <1>2, <1>5, <1>10, <3>1, <3>2 DEF IInv, CountsInv, CountsOf
    <2> QED
      BY <1>2, <1>4, <2>1 DEF IInv, CountsInv, Active, Preparing
  <1> QED
    BY <1>4, <1>6, <1>7, <1>8, <1>9, <1>11, <1>12, <1>13 DEF IInv

-----------------------------------------------------------------------------
(* ScanFunction.                                                           *)

(* What a step of thread t of scan s does, whichever it is. *)
Moved(s, t, from, to) ==
  /\ init[s] = "running" /\ t \in Threaded(s) /\ stage[s][t] = from
  /\ stage' \in [Scans -> [Threads -> Stages]] /\ stage'[s][t] = to
  /\ \A u \in Threads : u # t => stage'[s][u] = stage[s][u]
  /\ \A x \in Scans : x # s => stage'[x] = stage[x]
  /\ OrderInv' /\ OwnerInv' /\ SoqlInv'
  /\ \A x \in Scans : Owns(x)' => Owns(x) /\ x = s
  /\ \A x \in Scans : Later(x) => Later(x)'
  /\ (\A x \in Scans : Owns(x) => CountsOf(x))' => CountsInv'

(* A step of a thread, whatever it writes into the record. *)
LEMMA Threading ==
  ASSUME IInv, NEW s \in Scans, NEW t \in Threads, NEW from, NEW to \in Stages,
         ThreadStep(s, t, from, to), g_cost'.scan = g_cost.scan,
         UNCHANGED <<g_last_soql, kind, init, overlapped>>
  PROVE  Moved(s, t, from, to)
  <1>1. init[s] = "running" /\ t \in Threaded(s) /\ stage[s][t] = from
    BY DEF ThreadStep
  <1>2. /\ stage' \in [Scans -> [Threads -> Stages]] /\ stage'[s][t] = to
        /\ \A u \in Threads : u # t => stage'[s][u] = stage[s][u]
        /\ \A x \in Scans : x # s => stage'[x] = stage[x]
    BY DEF ThreadStep, IInv, ShapeInv
  <1>3. Active(s) /\ Writing(s) /\ ~ Preparing(s)
    BY <1>1 DEF Active, Writing, Preparing
  <1>4. OrderInv' /\ OwnerInv' /\ SoqlInv'
    BY DEF IInv, OrderInv, OwnerInv, SoqlInv, Writing, Owns, Reported
  <1>5. \A x \in Scans : Owns(x)' => Owns(x) /\ x = s
    BY <1>3, OnlyOwner DEF IInv, Owns
  <1>6. \A x \in Scans : Later(x) => Later(x)'
    BY DEF Later
  <1>7. ASSUME (\A x \in Scans : Owns(x) => CountsOf(x))' PROVE CountsInv'
    <2>1. ASSUME NEW x \in Scans, (x \notin overlapped /\ Active(x) /\ Preparing(x))' PROVE FALSE
      <3>1. x \notin overlapped /\ Active(x) /\ Preparing(x)
        BY <2>1 DEF Active, Preparing
      <3> QED
        BY <1>3, <3>1, Alone DEF IInv
    <2> QED
      BY <1>7, <2>1 DEF CountsInv
  <1> QED
    BY <1>1, <1>2, <1>4, <1>5, <1>6, <1>7 DEF Moved

(* A step that creates no job keeps what is known of them. *)
LEMMA JobsKept ==
  ASSUME IInv, NEW s \in Scans, \A x \in Scans : Owns(x)' => Owns(x) /\ x = s,
         kind[s] = "bulk" =>
           \A u \in Threads : stage'[s][u] \in {"idle", "gated"} <=> stage[s][u] \in {"idle", "gated"},
         g_cost'.bulk_chunks = g_cost.bulk_chunks, UNCHANGED <<g_last_bulk_create_body, kind, init>>
  PROVE  JobsInv'
  <1>1. kind[s] = "bulk" => Creators(s)' = Creators(s)
    BY DEF Creators
  <1> QED
    BY <1>1 DEF IInv, JobsInv, JobsOf, Preparing

(* A thread passes the quota gate. *)
LEMMA PassQuotaGateStep ==
  ASSUME IInv, NEW s \in Scans, NEW t \in Threads, PassQuotaGate(s, t) PROVE IInv'
  <1> USE DEF Moved
  <1>1. /\ kind[s] = "bulk" /\ ThreadStep(s, t, "idle", "gated")
        /\ g_cost' = [g_cost EXCEPT !.quota = s]
        /\ UNCHANGED <<g_last_soql, g_last_scan_pages, g_last_transport, g_last_bulk_create_body, kind,
                       init, total, fetchers, pages, emitted, overlapped, helpers>>
    BY DEF PassQuotaGate
  <1>2. /\ g_cost' \in CostType /\ g_cost'.quota = s /\ g_cost'.scan = g_cost.scan
        /\ g_cost'.soql = g_cost.soql /\ g_cost'.bulk = g_cost.bulk /\ g_cost'.pages = g_cost.pages
        /\ g_cost'.rows = g_cost.rows /\ g_cost'.bulk_polls = g_cost.bulk_polls
        /\ g_cost'.bulk_chunks = g_cost.bulk_chunks /\ g_cost'.explain = g_cost.explain
    BY <1>1 DEF IInv, ShapeInv, CostType, Owners
  <1>3. Moved(s, t, "idle", "gated")
    <2>1. "gated" \in Stages
      BY DEF Stages
    <2> QED
      BY <1>1, <1>2, <2>1, Threading
  <1>4. ShapeInv'
    BY <1>1, <1>2, <1>3 DEF IInv, ShapeInv
  <1>5. ThreadInv'
    BY <1>1, <1>3 DEF IInv, ThreadInv, Preparing, Threaded
  <1>6. PiecesInv'
    BY <1>1, <1>2, <1>3 DEF IInv, PiecesInv, PiecesOf, Reported
  <1>7. JobsInv'
    BY <1>1, <1>2, <1>3, JobsKept
  <1>8. CountsInv'
    BY <1>1, <1>2, <1>3 DEF IInv, CountsInv, CountsOf
  <1> QED
    BY <1>3, <1>4, <1>5, <1>6, <1>7, <1>8 DEF IInv

(* A thread creates its job. *)
LEMMA SetLastBulkCreateBodyStep ==
  ASSUME IInv, NEW s \in Scans, NEW t \in Threads, SetLastBulkCreateBody(s, t) PROVE IInv'
  <1> USE DEF Moved
  <1>1. /\ ThreadStep(s, t, "gated", "polling")
        /\ g_last_bulk_create_body' = Append(g_last_bulk_create_body, s)
        /\ UNCHANGED <<g_last_soql, g_last_scan_pages, g_last_transport, g_cost, kind, init, total,
                       fetchers, pages, emitted, overlapped, helpers>>
    BY DEF SetLastBulkCreateBody
  <1>2. Moved(s, t, "gated", "polling")
    <2>1. "polling" \in Stages
      BY DEF Stages
    <2> QED
      BY <1>1, <2>1, Threading
  <1>3. g_last_bulk_create_body \in Seq(Scans)
    BY DEF IInv, ShapeInv
  <1>4. /\ g_last_bulk_create_body' \in Seq(Scans)
        /\ Len(g_last_bulk_create_body') = Len(g_last_bulk_create_body) + 1
        /\ \A i \in 1 .. Len(g_last_bulk_create_body') :
             g_last_bulk_create_body'[i] =
               IF i <= Len(g_last_bulk_create_body) THEN g_last_bulk_create_body[i] ELSE s
    BY <1>1, <1>3
  <1>5. ShapeInv'
    BY <1>1, <1>2, <1>4 DEF IInv, ShapeInv
  <1>6. ThreadInv'
    BY <1>1, <1>2 DEF IInv, ThreadInv, Preparing, Threaded
  <1>7. PiecesInv'
    BY <1>1, <1>2 DEF IInv, PiecesInv, PiecesOf, Reported
  <1>8. JobsInv'
    <2> SUFFICES ASSUME Owns(s), kind[s] = "bulk" PROVE JobsOf(s)'
      BY <1>1, <1>2 DEF JobsInv
    <2>1. JobsOf(s)
      BY <1>2 DEF IInv, JobsInv, Preparing
    <2>2. Creators(s)' = Creators(s) \union {t} /\ t \notin Creators(s)
      BY <1>2 DEF Creators
    <2>3. Cardinality(Creators(s)') = Cardinality(Creators(s)) + 1
      BY <2>2, CreatorCount, FS_AddElement
    <2>4. Cardinality(Creators(s)') <= Cardinality(Threads)
      <3>1. Creators(s)' \subseteq Threads
        BY DEF Creators
      <3> QED
        BY <3>1, DiagnosticsAssumption, FS_Subset
    <2>5. Len(g_last_bulk_create_body) \in Nat
      BY <1>3
    <2> QED
      BY <1>1, <1>2, <1>4, <2>1, <2>3, <2>4, <2>5, CreatorCount, ThreadCount DEF JobsOf
  <1>9. CountsInv'
    BY <1>1, <1>2 DEF IInv, CountsInv, CountsOf
  <1> QED
    BY <1>2, <1>5, <1>6, <1>7, <1>8, <1>9 DEF IInv

(* A poll. *)
LEMMA DiagSetBulkPollsStep ==
  ASSUME IInv, NEW s \in Scans, NEW t \in Threads, DiagSetBulkPolls(s, t) PROVE IInv'
  <1> USE DEF Moved
  <1>1. /\ g_cost' = [g_cost EXCEPT !.bulk_polls = s]
        /\ UNCHANGED <<g_last_soql, g_last_scan_pages, g_last_transport, g_last_bulk_create_body, kind,
                       init, total, fetchers, pages, emitted, overlapped, helpers>>
    BY DEF DiagSetBulkPolls
  <1>2. PICK to \in {"polling", "ready"} : ThreadStep(s, t, "polling", to)
    BY DEF DiagSetBulkPolls
  <1>3. /\ g_cost' \in CostType /\ g_cost'.bulk_polls = s /\ g_cost'.scan = g_cost.scan
        /\ g_cost'.soql = g_cost.soql /\ g_cost'.bulk = g_cost.bulk /\ g_cost'.pages = g_cost.pages
        /\ g_cost'.rows = g_cost.rows /\ g_cost'.quota = g_cost.quota
        /\ g_cost'.bulk_chunks = g_cost.bulk_chunks /\ g_cost'.explain = g_cost.explain
    BY <1>1 DEF IInv, ShapeInv, CostType, Owners
  <1>4. Moved(s, t, "polling", to)
    <2>1. to \in Stages
      BY DEF Stages
    <2> QED
      BY <1>1, <1>2, <1>3, <2>1, Threading
  <1>5. kind[s] = "bulk"
    BY <1>4 DEF IInv, ThreadInv
  <1>6. ShapeInv'
    BY <1>1, <1>3, <1>4 DEF IInv, ShapeInv
  <1>7. ThreadInv'
    BY <1>1, <1>4, <1>5 DEF IInv, ThreadInv, Preparing, Threaded
  <1>8. PiecesInv'
    BY <1>1, <1>3, <1>4, <1>5 DEF IInv, PiecesInv, PiecesOf, Reported
  <1>9. JobsInv'
    BY <1>1, <1>3, <1>4, JobsKept
  <1>10. CountsInv'
    BY <1>1, <1>3, <1>4 DEF IInv, CountsInv, CountsOf
  <1> QED
    BY <1>4, <1>6, <1>7, <1>8, <1>9, <1>10 DEF IInv

(* A page arrives, and the thread that fetched it has the newest count. *)
LEMMA FetchPageStep ==
  ASSUME IInv, NEW s \in Scans, NEW t \in Threads, FetchPage(s, t) PROVE IInv'
  <1> USE DEF Moved
  <1> DEFINE from == IF kind[s] = "bulk" THEN "ready" ELSE "idle"
  <1>1. /\ kind[s] \in {"rest", "bulk"} /\ pages[s] < MaxPages /\ ThreadStep(s, t, from, "fetched")
        /\ pages' = [pages EXCEPT ![s] = pages[s] + 1]
        /\ total' = [total EXCEPT ![s][t] = pages[s] + 1]
        /\ fetchers' = [fetchers EXCEPT ![s] = fetchers[s] \union {t}]
        /\ UNCHANGED <<g_last_soql, g_last_scan_pages, g_last_transport, g_last_bulk_create_body,
                       g_cost, kind, init, emitted, overlapped, helpers>>
    BY DEF FetchPage, globals
  <1>2. kind[s] = "bulk" => from = "ready"
    OBVIOUS
  <1> HIDE DEF from
  <1>3. Moved(s, t, from, "fetched")
    <2>1. "fetched" \in Stages
      BY DEF Stages
    <2> QED
      BY <1>1, <2>1, Threading
  <1>4. pages[s] \in Nat /\ pages[s] + 1 \in 0 .. MaxPages
    BY <1>1, DiagnosticsAssumption DEF IInv, ShapeInv
  <1>5. /\ pages' \in [Scans -> 0 .. MaxPages] /\ pages'[s] = pages[s] + 1
        /\ total' \in [Scans -> [Threads -> Nat]] /\ total'[s][t] = pages[s] + 1
        /\ fetchers' \in [Scans -> SUBSET Threads] /\ fetchers'[s] = fetchers[s] \union {t}
        /\ \A u \in Threads : u # t => total'[s][u] = total[s][u]
        /\ \A x \in Scans : x # s =>
             pages'[x] = pages[x] /\ total'[x] = total[x] /\ fetchers'[x] = fetchers[x]
    BY <1>1, <1>4 DEF IInv, ShapeInv
  <1>6. ShapeInv'
    BY <1>1, <1>3, <1>5 DEF IInv, ShapeInv
  <1>7. ThreadInv'
    <2> SUFFICES ASSUME NEW x \in Scans
                 PROVE  /\ fetchers'[x] \subseteq Threaded(x)'
                        /\ fetchers'[x] = {} => pages'[x] = 0
                        /\ Preparing(x)' => fetchers'[x] = {} /\ emitted'[x] = 0
                        /\ \A u \in Threads :
                             /\ total'[x][u] <= pages'[x]
                             /\ init'[x] # "running" => stage'[x][u] = "idle"
                             /\ stage'[x][u] \in {"gated", "polling"} => kind'[x] = "bulk"
                             /\ stage'[x][u] \in {"fetched", "published", "counted"} =>
                                  u \in fetchers'[x]
      BY DEF ThreadInv
    <2>1. CASE x # s
      BY <1>1, <1>3, <1>5, <2>1 DEF IInv, ThreadInv, Preparing, Threaded
    <2>2. CASE x = s
      <3>1. Threaded(s)' = Threaded(s)
        BY <1>1 DEF Threaded
      <3>2. \A u \in Threads : total'[s][u] <= pages'[s]
        <4>1. \A u \in Threads : total[s][u] \in Nat /\ total[s][u] <= pages[s]
          BY DEF IInv, ThreadInv, ShapeInv
        <4> QED
          BY <1>4, <1>5, <4>1
      <3> QED
        BY <1>1, <1>3, <1>5, <2>2, <3>1, <3>2 DEF IInv, ThreadInv, Preparing
    <2> QED
      BY <2>1, <2>2
  <1>8. PiecesInv'
    BY <1>1, <1>3 DEF IInv, PiecesInv, PiecesOf, Reported
  <1>9. JobsInv'
    BY <1>1, <1>2, <1>3, JobsKept
  <1>10. CountsInv'
    <2> SUFFICES ASSUME Owns(s) PROVE CountsOf(s)'
      BY <1>3
    <2>1. CountsOf(s) /\ g_cost.pages \in Nat
      BY DEF IInv, CountsInv, ShapeInv, CostType
    <2>2. \A u \in Threads : fetchers'[s] \subseteq {u} => u = t
      BY <1>5
    <2>3. g_cost'.pages <= pages'[s] /\ g_cost'.rows = emitted'[s]
      BY <1>1, <1>4, <1>5, <2>1 DEF CountsOf
    <2> QED
      BY <1>3, <1>5, <2>2, <2>3 DEF CountsOf
  <1> QED
    BY <1>3, <1>6, <1>7, <1>8, <1>9, <1>10 DEF IInv

(* The page count is published. *)
LEMMA PublishPagesStep ==
  ASSUME IInv, NEW s \in Scans, NEW t \in Threads, PublishPages(s, t) PROVE IInv'
  <1> USE DEF Moved
  <1>1. /\ ThreadStep(s, t, "fetched", "published")
        /\ g_last_scan_pages' = total[s][t]
        /\ UNCHANGED <<g_last_soql, g_last_transport, g_last_bulk_create_body, g_cost, kind, init, total,
                       fetchers, pages, emitted, overlapped, helpers>>
    BY DEF PublishPages
  <1>2. Moved(s, t, "fetched", "published")
    <2>1. "published" \in Stages
      BY DEF Stages
    <2> QED
      BY <1>1, <2>1, Threading
  <1>3. ShapeInv'
    BY <1>1, <1>2 DEF IInv, ShapeInv
  <1>4. ThreadInv'
    BY <1>1, <1>2 DEF IInv, ThreadInv, Preparing, Threaded
  <1>5. PiecesInv'
    BY <1>1, <1>2 DEF IInv, PiecesInv, PiecesOf, Reported
  <1>6. JobsInv'
    BY <1>1, <1>2, JobsKept
  <1>7. CountsInv'
    <2> SUFFICES ASSUME Owns(s) PROVE CountsOf(s)'
      BY <1>2
    <2>1. CountsOf(s) /\ t \in fetchers[s]
      BY <1>2 DEF IInv, CountsInv, ThreadInv
    <2>2. \A u \in Threads : fetchers'[s] \subseteq {u} => u = t
      BY <1>1, <2>1
    <2> QED
      BY <1>1, <1>2, <2>1, <2>2 DEF CountsOf
  <1> QED
    BY <1>2, <1>3, <1>4, <1>5, <1>6, <1>7 DEF IInv

(* The page count enters the record. *)
LEMMA DiagSetPagesStep ==
  ASSUME IInv, NEW s \in Scans, NEW t \in Threads, DiagSetPages(s, t) PROVE IInv'
  <1> USE DEF Moved
  <1>1. /\ ThreadStep(s, t, "published", "counted")
        /\ g_cost' = [g_cost EXCEPT !.pages = total[s][t]]
        /\ UNCHANGED <<g_last_soql, g_last_scan_pages, g_last_transport, g_last_bulk_create_body, kind,
                       init, total, fetchers, pages, emitted, overlapped, helpers>>
    BY DEF DiagSetPages
  <1>2. /\ g_cost' \in CostType /\ g_cost'.pages = total[s][t] /\ g_cost'.scan = g_cost.scan
        /\ g_cost'.soql = g_cost.soql /\ g_cost'.bulk = g_cost.bulk /\ g_cost'.quota = g_cost.quota
        /\ g_cost'.rows = g_cost.rows /\ g_cost'.bulk_polls = g_cost.bulk_polls
        /\ g_cost'.bulk_chunks = g_cost.bulk_chunks /\ g_cost'.explain = g_cost.explain
    <2>1. total[s][t] \in Nat /\ g_cost \in CostType
      BY DEF IInv, ShapeInv
    <2> QED
      BY <1>1, <2>1 DEF CostType
  <1>3. Moved(s, t, "published", "counted")
    <2>1. "counted" \in Stages
      BY DEF Stages
    <2> QED
      BY <1>1, <1>2, <2>1, Threading
  <1>4. ShapeInv'
    BY <1>1, <1>2, <1>3 DEF IInv, ShapeInv
  <1>5. ThreadInv'
    BY <1>1, <1>3 DEF IInv, ThreadInv, Preparing, Threaded
  <1>6. PiecesInv'
    BY <1>1, <1>2, <1>3 DEF IInv, PiecesInv, PiecesOf, Reported
  <1>7. JobsInv'
    BY <1>1, <1>2, <1>3, JobsKept
  <1>8. CountsInv'
    <2> SUFFICES ASSUME Owns(s) PROVE CountsOf(s)'
      BY <1>3
    <2>1. CountsOf(s) /\ t \in fetchers[s] /\ total[s][t] <= pages[s]
      BY <1>3 DEF IInv, CountsInv, ThreadInv
    <2>2. \A u \in Threads : fetchers'[s] \subseteq {u} => u = t
      BY <1>1, <2>1
    <2> QED
      BY <1>1, <1>2, <1>3, <2>1, <2>2 DEF CountsOf
  <1> QED
    BY <1>3, <1>4, <1>5, <1>6, <1>7, <1>8 DEF IInv

(* Rows are delivered to DuckDB. *)
LEMMA DiagAddRowsEmittedStep ==
  ASSUME IInv, NEW s \in Scans, NEW t \in Threads, DiagAddRowsEmitted(s, t) PROVE IInv'
  <1> USE DEF Moved
  <1>1. /\ emitted' = [emitted EXCEPT ![s] = emitted[s] + 1]
        /\ g_cost' = [g_cost EXCEPT !.rows = g_cost.rows + 1]
        /\ UNCHANGED <<g_last_soql, g_last_scan_pages, g_last_transport, g_last_bulk_create_body, kind,
                       init, total, fetchers, pages, overlapped, helpers>>
    BY DEF DiagAddRowsEmitted
  <1>2. PICK from \in {"counted", "idle"}, to \in {"ready", "idle", "emitted"} :
          /\ ThreadStep(s, t, from, to)
          /\ kind[s] = "bulk" => from = "counted" /\ to = "ready"
    BY DEF DiagAddRowsEmitted
  <1>3. /\ g_cost' \in CostType /\ g_cost'.rows = g_cost.rows + 1 /\ g_cost'.scan = g_cost.scan
        /\ g_cost'.soql = g_cost.soql /\ g_cost'.bulk = g_cost.bulk /\ g_cost'.quota = g_cost.quota
        /\ g_cost'.pages = g_cost.pages /\ g_cost'.bulk_polls = g_cost.bulk_polls
        /\ g_cost'.bulk_chunks = g_cost.bulk_chunks /\ g_cost'.explain = g_cost.explain
    <2>1. g_cost \in CostType
      BY DEF IInv, ShapeInv
    <2>2. g_cost.rows + 1 \in Nat
      BY <2>1 DEF CostType
    <2> QED
      BY <1>1, <2>1, <2>2 DEF CostType
  <1>4. Moved(s, t, from, to)
    <2>1. to \in Stages
      BY DEF Stages
    <2> QED
      BY <1>1, <1>2, <1>3, <2>1, Threading
  <1>5. /\ emitted' \in [Scans -> Nat] /\ emitted'[s] = emitted[s] + 1
        /\ \A x \in Scans : x # s => emitted'[x] = emitted[x]
    BY <1>1 DEF IInv, ShapeInv
  <1>6. ShapeInv'
    BY <1>1, <1>3, <1>4, <1>5 DEF IInv, ShapeInv
  <1>7. ThreadInv'
    BY <1>1, <1>4, <1>5 DEF IInv, ThreadInv, Preparing, Threaded
  <1>8. PiecesInv'
    BY <1>1, <1>3, <1>4 DEF IInv, PiecesInv, PiecesOf, Reported
  <1>9. JobsInv'
    BY <1>1, <1>2, <1>3, <1>4, JobsKept
  <1>10. CountsInv'
    <2> SUFFICES ASSUME Owns(s) PROVE CountsOf(s)'
      BY <1>4
    <2>1. CountsOf(s)
      BY DEF IInv, CountsInv
    <2> QED
      BY <1>1, <1>3, <1>4, <1>5, <2>1 DEF CountsOf
  <1> QED
    BY <1>4, <1>6, <1>7, <1>8, <1>9, <1>10 DEF IInv

-----------------------------------------------------------------------------
(* What is not a scan.                                                     *)

(* salesforce_reports() and salesforce_aggregate(). *)
LEMMA HelperFunctionStep == ASSUME IInv, HelperFunction PROVE IInv'
  <1>1. /\ helpers < MaxHelpers /\ helpers' = helpers + 1
        /\ g_last_soql' = [ scan |-> NoScan, for |-> "helper" ]
        /\ g_last_transport' \in {g_last_transport, NoScan}
        /\ UNCHANGED <<g_last_scan_pages, g_last_bulk_create_body, g_cost, kind, init, stage, total,
                       fetchers, pages, emitted, overlapped>>
    BY DEF HelperFunction, scanVars
  <1>2. g_last_soql' \in SoqlType /\ g_last_soql'.scan = NoScan /\ g_last_transport' \in Owners
    BY <1>1 DEF IInv, ShapeInv, SoqlType, Owners
  <1>3. helpers' \in 0 .. MaxHelpers
    BY <1>1, DiagnosticsAssumption DEF IInv, ShapeInv
  <1>4. ShapeInv'
    BY <1>1, <1>2, <1>3 DEF IInv, ShapeInv
  <1>5. ThreadInv' /\ OrderInv' /\ OwnerInv'
    BY <1>1 DEF IInv, ThreadInv, OrderInv, OwnerInv, Preparing, Threaded, Writing, Owns
  <1>6. SoqlInv'
    BY <1>2, Numbers DEF SoqlInv
  <1>7. PiecesInv' /\ JobsInv'
    BY <1>1
       DEF IInv, PiecesInv, PiecesOf, JobsInv, JobsOf, Owns, Reported, Preparing, Creators
  <1>8. CountsInv'
    BY <1>1 DEF IInv, CountsInv, CountsOf, Owns, Active, Preparing, Later
  <1> QED
    BY <1>4, <1>5, <1>6, <1>7, <1>8 DEF IInv

(* The extension is loaded into another database: nobody has the record. *)
LEMMA DiagResetStep == ASSUME IInv, DiagReset PROVE IInv'
  <1>1. /\ helpers < MaxHelpers /\ helpers' = helpers + 1
        /\ g_cost' = FreshCost
        /\ UNCHANGED <<g_last_soql, g_last_scan_pages, g_last_transport, g_last_bulk_create_body, kind,
                       init, stage, total, fetchers, pages, emitted, overlapped>>
    BY DEF DiagReset, scanVars
  <1>2. g_cost' \in CostType /\ g_cost'.scan = NoScan
    BY <1>1, FreshType
  <1>3. helpers' \in 0 .. MaxHelpers
    BY <1>1, DiagnosticsAssumption DEF IInv, ShapeInv
  <1>4. ShapeInv'
    BY <1>1, <1>2, <1>3 DEF IInv, ShapeInv
  <1>5. ThreadInv' /\ OrderInv' /\ SoqlInv'
    BY <1>1, <1>2, Numbers
       DEF IInv, ThreadInv, OrderInv, SoqlInv, Preparing, Threaded, Writing, Reported
  <1>6. OwnerInv' /\ PiecesInv' /\ JobsInv'
    BY <1>2, Numbers DEF OwnerInv, PiecesInv, JobsInv, Owns
  <1>7. CountsInv'
    BY <1>1, <1>2, Numbers DEF IInv, CountsInv, Owns, Active, Preparing
  <1> QED
    BY <1>4, <1>5, <1>6, <1>7 DEF IInv

(* A stuttering step. *)
LEMMA Stutter == ASSUME IInv, UNCHANGED vars PROVE IInv'
  <1> USE DEF vars, globals, scanVars
  <1>1. ShapeInv' /\ ThreadInv' /\ OrderInv' /\ OwnerInv' /\ SoqlInv'
    BY DEF IInv, ShapeInv, ThreadInv, OrderInv, OwnerInv, SoqlInv, Preparing, Threaded, Writing, Owns,
           Reported
  <1>2. PiecesInv' /\ JobsInv'
    BY DEF IInv, PiecesInv, PiecesOf, JobsInv, JobsOf, Owns, Reported, Preparing, Creators
  <1>3. CountsInv'
    BY DEF IInv, CountsInv, CountsOf, Owns, Active, Preparing, Later
  <1> QED
    BY <1>1, <1>2, <1>3 DEF IInv

-----------------------------------------------------------------------------
(* The theorems.                                                           *)

(* Every step keeps the invariant. *)
LEMMA Inductive == IInv /\ [Next]_vars => IInv'
  <1> SUFFICES ASSUME IInv, [Next]_vars PROVE IInv'
    OBVIOUS
  <1>1. ASSUME NEW s \in Scans,
               \/ BeginInit(s) \/ ResetPages(s) \/ RecordTransport(s) \/ RecordCount(s)
               \/ DiagRecordScan(s) \/ DiagSetExplain(s) \/ StartBulk(s) \/ EndScan(s)
        PROVE  IInv'
    BY <1>1, BeginInitStep, ResetPagesStep, RecordTransportStep, RecordCountStep, DiagRecordScanStep,
       DiagSetExplainStep, StartBulkStep, EndScanStep
  <1>2. ASSUME NEW s \in Scans, NEW t \in Threads,
               \/ PassQuotaGate(s, t) \/ SetLastBulkCreateBody(s, t) \/ DiagSetBulkPolls(s, t)
               \/ FetchPage(s, t) \/ PublishPages(s, t) \/ DiagSetPages(s, t)
               \/ DiagAddRowsEmitted(s, t)
        PROVE  IInv'
    BY <1>2, PassQuotaGateStep, SetLastBulkCreateBodyStep, DiagSetBulkPollsStep, FetchPageStep,
       PublishPagesStep, DiagSetPagesStep, DiagAddRowsEmittedStep
  <1>3. CASE HelperFunction
    BY <1>3, HelperFunctionStep
  <1>4. CASE DiagReset
    BY <1>4, DiagResetStep
  <1>5. CASE AllOver \/ UNCHANGED vars
    BY <1>5, Stutter DEF AllOver
  <1> QED
    BY <1>1, <1>2, <1>3, <1>4, <1>5 DEF Next

(* The invariant holds in every state. *)
LEMMA Invariant == Spec => []IInv
  BY IInit, Inductive, PTL DEF Spec

(* Every variable of the diagnostics keeps its type, and no thread's copy  *)
(* of the page count runs ahead of the scan's.                             *)
THEOREM DiagTypeOK == Spec => []TypeOK
  <1>1. IInv => TypeOK
    <2> SUFFICES ASSUME IInv PROVE TypeOK
      OBVIOUS
    <2>1. Range(g_last_bulk_create_body) \subseteq Scans
      BY DEF IInv, ShapeInv, Range
    <2>2. g_last_soql.scan \in Owners
      BY DEF IInv, ShapeInv, SoqlType
    <2>3. /\ g_cost.scan \in Owners /\ g_cost.explain \in Owners
          /\ g_cost.bulk_polls \in Owners /\ g_cost.quota \in Owners
      BY DEF IInv, ShapeInv, CostType
    <2>4. /\ \A s \in Scans : pages[s] \in 0 .. MaxPages /\ fetchers[s] \subseteq Threaded(s)
          /\ \A s \in Scans, t \in Threads : total[s][t] <= pages[s]
      BY DEF IInv, ShapeInv, ThreadInv
    <2> QED
      BY <2>1, <2>2, <2>3, <2>4 DEF TypeOK, IInv, ShapeInv, InitSteps
  <1> QED
    BY <1>1, Invariant, PTL

(* Pieces of two scans are never mixed: in the record of a scan that ran   *)
(* alone, whatever ran, failed or overlapped before it, the explain items, *)
(* the polls, the quota decision and the create bodies are its own, for    *)
(* any number of scans and threads.                                        *)
THEOREM RecordIsOfOneScan == Spec => []RecordOfOneScan
  <1>1. IInv => RecordOfOneScan
    <2> SUFFICES ASSUME IInv, NEW s \in Scans, Shown(s)
                 PROVE  /\ g_cost.explain = s
                        /\ g_cost.bulk_polls \in {NoScan, s} /\ g_cost.quota \in {NoScan, s}
                        /\ ~ g_cost.bulk => g_cost.bulk_polls = NoScan /\ g_cost.quota = NoScan
                        /\ g_last_soql.scan = s => g_last_soql.for = g_cost.soql
                        /\ g_cost.bulk =>
                             /\ Range(g_last_bulk_create_body) \subseteq {s}
                             /\ Len(g_last_bulk_create_body) <= g_cost.bulk_chunks
      BY DEF RecordOfOneScan
    <2>1. Owns(s) /\ ~ Preparing(s) /\ init[s] # "explaining" /\ g_cost.scan = s
      BY DEF Shown, Owns, Preparing
    <2>2. PiecesOf(s)
      BY <2>1 DEF IInv, PiecesInv
    <2>3. g_last_soql.scan = s => g_last_soql.for = g_cost.soql
      BY <2>1, <2>2 DEF IInv, SoqlInv, PiecesOf
    <2>4. g_cost.bulk => JobsOf(s)
      BY <2>1, <2>2 DEF IInv, JobsInv, PiecesOf
    <2>5. JobsOf(s) => /\ Range(g_last_bulk_create_body) \subseteq {s}
                       /\ Len(g_last_bulk_create_body) <= g_cost.bulk_chunks
      BY DEF JobsOf, Range, IInv, ShapeInv
    <2> QED
      BY <2>1, <2>2, <2>3, <2>4, <2>5 DEF PiecesOf
  <1> QED
    BY <1>1, Invariant, PTL

(* rows_emitted of a scan that ran alone counts every row delivered by     *)
(* any of its threads; pages_fetched never exceeds the pages fetched, and  *)
(* is exact as soon as a single fetching thread rests.                     *)
THEOREM CountsAreOfOneScan == Spec => []CountsOfOneScan
  <1>1. IInv => CountsOfOneScan
    <2> SUFFICES ASSUME IInv, NEW s \in Scans, Shown(s)
                 PROVE  /\ g_cost.rows = emitted[s] /\ g_cost.pages <= pages[s]
                        /\ Resting(s) /\ Cardinality(fetchers[s]) <= 1 =>
                             /\ g_cost.pages = pages[s]
                             /\ \/ g_last_scan_pages = pages[s]
                                \/ \E r \in Scans : r > s /\ init[r] # "new"
      BY DEF CountsOfOneScan
    <2>1. CountsOf(s)
      BY DEF IInv, CountsInv, Shown, Owns
    <2>2. ASSUME Cardinality(fetchers[s]) <= 1 PROVE \E t \in Threads : fetchers[s] \subseteq {t}
      <3>1. fetchers[s] \subseteq Threads
        BY DEF IInv, ShapeInv
      <3>2. IsFiniteSet(fetchers[s]) /\ Cardinality(fetchers[s]) \in Nat
        BY <3>1, DiagnosticsAssumption, FS_Subset, FS_CardinalityType
      <3>3. CASE Cardinality(fetchers[s]) = 0
        <4>1. fetchers[s] = {}
          BY <3>2, <3>3, FS_EmptySet
        <4> QED
          BY <4>1, DiagnosticsAssumption
      <3>4. CASE Cardinality(fetchers[s]) = 1
        <4>1. PICK u : fetchers[s] = {u}
          BY <3>2, <3>4, FS_Singleton
        <4> QED
          BY <3>1, <4>1
      <3> QED
        BY <2>2, <3>2, <3>3, <3>4
    <2>3. ASSUME Resting(s), Cardinality(fetchers[s]) <= 1
          PROVE  g_cost.pages = pages[s] /\ (g_last_scan_pages = pages[s] \/ Later(s))
      <3>1. PICK t \in Threads : fetchers[s] \subseteq {t}
        BY <2>2, <2>3
      <3>2. stage[s][t] \notin {"fetched", "published"}
        BY <2>3 DEF Resting
      <3> QED
        BY <2>1, <3>1, <3>2 DEF CountsOf
    <2> QED
      BY <2>1, <2>3 DEF CountsOf, Later
  <1> QED
    BY <1>1, Invariant, PTL
=============================================================================
