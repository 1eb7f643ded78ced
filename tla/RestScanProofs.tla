--------------------------- MODULE RestScanProofs ---------------------------
(***************************************************************************)
(* The REST path of a scan implements TableScan, and a table scan fetches  *)
(* lazily, for every number of rows and pages, every page guard and every  *)
(* vector size.  The argument: the loop guard lets only the cursor of the  *)
(* next page through, so pages are asked for once and in order; the rows   *)
(* of the pages before next_path are then the rows handed out and the rows *)
(* in hand, and no row is both.                                            *)
(***************************************************************************)
EXTENDS RestScan, TLAPS

(* The org's answer is kept, and holds every row that matches throughout   *)
(* and only rows that matched.                                             *)
ResultInv ==
  /\ org \subseteq matched
  /\ stable \subseteq org
  /\ last_page = 0 => /\ result = NoRows /\ next_path = 1 /\ ~ done /\ page = {}
                      /\ pages_fetched = 0 /\ out = NoRows
  /\ last_page # 0 => /\ next_path <= last_page
                      /\ \A r \in Row : result[r] <= last_page
                      /\ \A r \in stable : result[r] # 0
  /\ \A r \in Row : result[r] # 0 => r \in matched
  /\ done => next_path = last_page

(* The cursors received are those of the pages up to the next one. *)
CursorInv == \A p \in 1 .. PageBound : p \in seen <=> p \in 2 .. next_path

(* r is on a page that has arrived. *)
Arrived(r) == result[r] # 0 /\ (result[r] < next_path \/ done)

(* A row that has arrived was handed out or is in hand, never both. *)
RowInv ==
  /\ \A r \in Row : out[r] \in {0, 1}
  /\ \A r \in Row : out[r] = 1 => Arrived(r)
  /\ \A r \in page : out[r] = 0
  /\ pc # "failed" => \A r \in page : Arrived(r)
  /\ pc # "failed" => \A r \in Row : Arrived(r) => out[r] = 1 \/ r \in page

(* Where the scan is. *)
ControlInv ==
  /\ pc \in {"advance", "emit"} /\ ~ done => pages_fetched < kScanMaxPages
  /\ pc = "emit" => lazy \/ done
  /\ pc = "emit" => last_page # 0
  /\ pc = "advance" /\ (lazy \/ done) => page = {}
  /\ pc = "done" => done /\ page = {}

(* The inductive invariant. *)
IInv == TypeOK /\ ResultInv /\ CursorInv /\ RowInv /\ ControlInv

-----------------------------------------------------------------------------

(* The invariant holds when the scan begins. *)
LEMMA IInit == Init => IInv
  <1> SUFFICES ASSUME Init PROVE IInv
    OBVIOUS
  <1> USE RestAssumption
  <1>1. NoRows \in [Row -> 0 .. PageBound] /\ NoRows \in [Row -> Nat]
    BY DEF NoRows
  <1>2. TypeOK
    <2>1. org \subseteq Row /\ stable = org /\ matched = org
      BY DEF Init
    <2>2. last_page \in 0 .. PageBound /\ next_path \in 1 .. PageBound
      BY DEF Init
    <2>3. churn \in 0 .. ChurnBound /\ pages_fetched \in 0 .. kScanMaxPages
      BY DEF Init
    <2> QED
      BY <1>1, <2>1, <2>2, <2>3 DEF Init, TypeOK
  <1>3. ResultInv
    BY DEF Init, ResultInv, NoRows
  <1>4. CursorInv
    BY DEF Init, CursorInv
  <1>5. RowInv
    BY DEF Init, RowInv, Arrived, NoRows
  <1>6. ControlInv
    BY DEF Init, ControlInv
  <1> QED
    BY <1>2, <1>3, <1>4, <1>5, <1>6 DEF IInv

(* The loop guard lets only the cursor of the next page through. *)
LEMMA OnlyNextPage ==
  ASSUME IInv, NEW loc \in 1 .. PageBound, Fetch(next_path, loc), loc \notin seen
  PROVE  loc = next_path + 1 /\ next_path < last_page
  <1> USE RestAssumption
  <1>1. next_path \in 1 .. PageBound /\ last_page \in 0 .. PageBound /\ next_path <= last_page
    BY DEF IInv, TypeOK, ResultInv, Fetch
  <1>2. loc \in {IF next_path = last_page THEN 0 ELSE next_path + 1} \cup 2 .. next_path
    BY DEF Fetch, Cursors
  <1>3. loc \notin 2 .. next_path
    BY DEF IInv, CursorInv
  <1> QED
    BY <1>1, <1>2, <1>3

(* Where a page takes the scan. *)
LEMMA AfterPageCases ==
  ASSUME NEW rows, NEW last \in BOOLEAN, lazy \in BOOLEAN
  PROVE  /\ AfterPage(rows, last) \in {"emit", "done", "advance"}
         /\ AfterPage(rows, last) = "emit" <=> rows # {} /\ (lazy \/ last)
         /\ AfterPage(rows, last) = "done" <=> rows = {} /\ last
  BY DEF AfterPage

(* A page in hand: its rows have not been handed out, and are on the page  *)
(* that was asked for or on an earlier one.                                *)
LEMMA FetchedRows ==
  ASSUME IInv, NEW loc, Fetch(next_path, loc)
  PROVE  /\ page' \subseteq Row
         /\ \A r \in page' : out[r] = 0 /\ result[r] # 0 /\ result[r] <= next_path
         /\ \A r \in Row : result[r] # 0 /\ result[r] <= next_path => out[r] = 1 \/ r \in page'
         /\ pages_fetched' = pages_fetched + 1
         /\ pages_fetched' \in 0 .. kScanMaxPages
  <1> USE RestAssumption
  <1>1. /\ page' = page \cup {r \in Row : result[r] = next_path}
        /\ pc = "advance" /\ last_page # 0 /\ ~ done
    BY DEF Fetch, PageRows
  <1>2. pages_fetched \in Nat /\ pages_fetched < kScanMaxPages
    BY <1>1 DEF IInv, TypeOK, ControlInv
  <1>3. pages_fetched' = pages_fetched + 1
    BY <1>2 DEF Fetch
  <1>4. page' \subseteq Row
    BY <1>1 DEF IInv, TypeOK
  <1>5. ASSUME NEW r \in Row
        PROVE  /\ r \in page' => out[r] = 0 /\ result[r] # 0 /\ result[r] <= next_path
               /\ result[r] # 0 /\ result[r] <= next_path => out[r] = 1 \/ r \in page'
    <2>1. result[r] \in Nat /\ next_path \in Nat /\ next_path # 0
      BY DEF IInv, TypeOK
    <2>2. /\ out[r] \in {0, 1} /\ (out[r] = 1 => Arrived(r)) /\ (r \in page => out[r] = 0)
          /\ (r \in page => Arrived(r)) /\ (Arrived(r) => out[r] = 1 \/ r \in page)
      BY <1>1 DEF IInv, RowInv
    <2> QED
      BY <1>1, <2>1, <2>2 DEF Arrived
  <1> QED
    BY <1>2, <1>3, <1>4, <1>5

(* The query is run: nothing has arrived yet. *)
LEMMA RunQueryKeeps == IInv /\ RunQuery => IInv'
  <1> SUFFICES ASSUME IInv, RunQuery PROVE IInv'
    OBVIOUS
  <1> USE RestAssumption
  <1>1. PICK m \in 1 .. PageBound : \E f \in [org -> 1 .. m] :
          last_page' = m /\ result' = [r \in Row |-> IF r \in org THEN f[r] ELSE 0]
    BY DEF RunQuery
  <1>2. PICK f \in [org -> 1 .. m] : result' = [r \in Row |-> IF r \in org THEN f[r] ELSE 0]
    BY <1>1
  <1>3. /\ pc = "advance" /\ last_page = 0 /\ last_page' = m /\ m # 0 /\ m \in Nat
        /\ UNCHANGED <<org, stable, matched, churn, lazy, pc, next_path, done, seen>>
        /\ UNCHANGED <<pages_fetched, page, out>>
    BY <1>1 DEF RunQuery, orgVars
  <1>4. next_path = 1 /\ ~ done /\ page = {} /\ out = NoRows /\ pages_fetched = 0
    BY <1>3 DEF IInv, ResultInv
  <1>5. \A r \in Row : /\ result'[r] \in 0 .. m
                       /\ result'[r] # 0 <=> r \in org
    BY <1>2, <1>3
  <1>6. TypeOK'
    <2>1. result' \in [Row -> 0 .. PageBound]
      BY <1>1, <1>2, <1>3, <1>5
    <2>2. last_page' \in 0 .. PageBound
      BY <1>3
    <2> QED
      BY <1>3, <2>1, <2>2 DEF IInv, TypeOK
  <1>7. ResultInv'
    <2>1. next_path' <= last_page' /\ last_page' # 0
      BY <1>3, <1>4
    <2>2. \A r \in Row : result'[r] <= last_page'
      BY <1>3, <1>5
    <2>3. /\ org' \subseteq matched' /\ stable' \subseteq org' /\ org \subseteq Row
          /\ org \subseteq matched
      BY <1>3 DEF IInv, ResultInv, TypeOK
    <2>4. \A r \in stable' : result'[r] # 0
      BY <1>3, <1>5, <2>3
    <2>5. \A r \in Row : result'[r] # 0 => r \in matched'
      BY <1>3, <1>5, <2>3
    <2> QED
      BY <1>3, <1>4, <2>1, <2>2, <2>3, <2>4, <2>5 DEF ResultInv
  <1>8. CursorInv'
    BY <1>3 DEF IInv, CursorInv
  <1>9. RowInv'
    <2>1. \A r \in Row : out'[r] = 0
      BY <1>3, <1>4 DEF NoRows
    <2>2. ASSUME NEW r \in Row
          PROVE  ~ Arrived(r)'
      <3>1. result'[r] \in Nat
        BY <1>3, <1>5
      <3> QED
        BY <1>3, <1>4, <3>1 DEF Arrived
    <2> QED
      BY <1>3, <1>4, <2>1, <2>2 DEF RowInv
  <1>10. ControlInv'
    BY <1>3, <1>4 DEF ControlInv
  <1> QED
    BY <1>6, <1>7, <1>8, <1>9, <1>10 DEF IInv

(* A page that is not the last: one cursor further. *)
LEMMA FollowCursorKeeps == IInv /\ FollowCursor => IInv'
  <1> SUFFICES ASSUME IInv, FollowCursor PROVE IInv'
    OBVIOUS
  <1> USE RestAssumption
  <1>1. PICK loc \in 1 .. PageBound :
          /\ Fetch(next_path, loc) /\ pages_fetched' < kScanMaxPages /\ loc \notin seen
          /\ next_path' = loc /\ seen' = seen \cup {loc}
    BY DEF FollowCursor
  <1>2. /\ pc = "advance" /\ last_page # 0 /\ ~ done /\ pc' = AfterPage(page', FALSE)
        /\ UNCHANGED <<org, stable, matched, churn, lazy, result, last_page, done, out>>
    BY <1>1 DEF FollowCursor, Fetch, orgVars
  <1>3. /\ next_path \in 1 .. PageBound /\ last_page \in 0 .. PageBound
        /\ next_path' = next_path + 1 /\ next_path' <= last_page
    BY <1>1, OnlyNextPage DEF IInv, TypeOK
  <1>4. /\ page' \subseteq Row
        /\ \A r \in page' : out[r] = 0 /\ result[r] # 0 /\ result[r] <= next_path
        /\ \A r \in Row : result[r] # 0 /\ result[r] <= next_path => out[r] = 1 \/ r \in page'
        /\ pages_fetched' \in 0 .. kScanMaxPages
    BY <1>1, FetchedRows
  <1>5. /\ pc' \in {"emit", "advance"}
        /\ pc' = "emit" => page' # {} /\ lazy
        /\ pc' = "advance" => page' = {} \/ ~ lazy
    BY <1>2, AfterPageCases DEF IInv, TypeOK
  <1>6. TypeOK'
    BY <1>1, <1>2, <1>4, <1>5 DEF IInv, TypeOK
  <1>7. ResultInv'
    BY <1>2, <1>3 DEF IInv, ResultInv
  <1>8. CursorInv'
    <2> SUFFICES ASSUME NEW p \in 1 .. PageBound
                 PROVE  p \in seen' <=> p \in 2 .. next_path'
      BY DEF CursorInv
    <2>1. p \in seen <=> p \in 2 .. next_path
      BY DEF IInv, CursorInv
    <2> QED
      BY <1>1, <1>3, <2>1
  <1>9. RowInv'
    <2>1. ASSUME NEW r \in Row
          PROVE  Arrived(r)' <=> result[r] # 0 /\ result[r] <= next_path
      <3>1. result[r] \in Nat
        BY DEF IInv, TypeOK
      <3> QED
        BY <1>2, <1>3, <3>1 DEF Arrived
    <2>2. ASSUME NEW r \in Row, out[r] = 1
          PROVE  Arrived(r)'
      <3>1. result[r] \in Nat /\ Arrived(r)
        BY <2>2 DEF IInv, TypeOK, RowInv
      <3> QED
        BY <1>2, <1>3, <3>1 DEF Arrived
    <2> QED
      BY <1>2, <1>4, <2>1, <2>2 DEF IInv, RowInv
  <1>10. ControlInv'
    BY <1>1, <1>2, <1>5 DEF ControlInv
  <1> QED
    BY <1>6, <1>7, <1>8, <1>9, <1>10 DEF IInv

(* A guard throws: what has been handed out stays as it is. *)
LEMMA RefuseCursorKeeps == IInv /\ RefuseCursor => IInv'
  <1> SUFFICES ASSUME IInv, RefuseCursor PROVE IInv'
    OBVIOUS
  <1>1. PICK loc \in 1 .. PageBound : Fetch(next_path, loc)
    BY DEF RefuseCursor
  <1>2. /\ pc' = "failed" /\ last_page # 0
        /\ UNCHANGED <<org, stable, matched, churn, lazy, result, last_page, next_path>>
        /\ UNCHANGED <<done, seen, out>>
    BY <1>1 DEF RefuseCursor, Fetch, orgVars
  <1>3. /\ page' \subseteq Row /\ \A r \in page' : out[r] = 0
        /\ pages_fetched' \in 0 .. kScanMaxPages
    BY <1>1, FetchedRows
  <1>4. TypeOK'
    BY <1>2, <1>3 DEF IInv, TypeOK
  <1>5. ResultInv' /\ CursorInv'
    BY <1>2 DEF IInv, ResultInv, CursorInv
  <1>6. RowInv'
    BY <1>2, <1>3 DEF IInv, RowInv, Arrived
  <1>7. ControlInv'
    BY <1>2 DEF ControlInv
  <1> QED
    BY <1>4, <1>5, <1>6, <1>7 DEF IInv

(* The last page: every row of the result has arrived. *)
LEMMA LastPageKeeps == IInv /\ LastPage => IInv' /\ next_path = last_page
  <1> SUFFICES ASSUME IInv, LastPage PROVE IInv' /\ next_path = last_page
    OBVIOUS
  <1> USE RestAssumption
  <1>1. /\ Fetch(next_path, 0) /\ done' = TRUE /\ pc' = AfterPage(page', TRUE)
        /\ UNCHANGED <<org, stable, matched, churn, lazy, result, last_page, next_path>>
        /\ UNCHANGED <<seen, out>> /\ pc = "advance" /\ last_page # 0 /\ ~ done
    BY DEF LastPage, Fetch, orgVars
  <1>2. next_path = last_page
    <2>1. next_path \in 1 .. PageBound
      BY DEF IInv, TypeOK
    <2>2. 0 \in {IF next_path = last_page THEN 0 ELSE next_path + 1} \cup 2 .. next_path
      BY <1>1 DEF Fetch, Cursors
    <2> QED
      BY <2>1, <2>2
  <1>3. /\ page' \subseteq Row
        /\ \A r \in page' : out[r] = 0 /\ result[r] # 0 /\ result[r] <= next_path
        /\ \A r \in Row : result[r] # 0 /\ result[r] <= next_path => out[r] = 1 \/ r \in page'
        /\ pages_fetched' \in 0 .. kScanMaxPages
    BY <1>1, FetchedRows
  <1>4. /\ pc' \in {"emit", "done"}
        /\ pc' = "done" => page' = {}
    BY <1>1, AfterPageCases DEF IInv, TypeOK
  <1>5. TypeOK'
    BY <1>1, <1>3, <1>4 DEF IInv, TypeOK
  <1>6. ResultInv' /\ CursorInv'
    BY <1>1, <1>2 DEF IInv, ResultInv, CursorInv
  <1>7. \A r \in Row : Arrived(r)' <=> result[r] # 0
    BY <1>1 DEF Arrived
  <1>8. \A r \in Row : result[r] <= next_path
    BY <1>1, <1>2 DEF IInv, ResultInv
  <1>9. \A r \in Row : out[r] = 1 => result[r] # 0
    BY DEF IInv, RowInv, Arrived
  <1>10. RowInv'
    BY <1>1, <1>3, <1>7, <1>8, <1>9 DEF IInv, RowInv
  <1>11. ControlInv'
    BY <1>1, <1>4 DEF ControlInv
  <1> QED
    BY <1>2, <1>5, <1>6, <1>10, <1>11 DEF IInv

(* A vector of rows is handed out: they were in hand, and no longer are. *)
LEMMA EmitVectorKeeps == IInv /\ EmitVector => IInv'
  <1> SUFFICES ASSUME IInv, EmitVector PROVE IInv'
    OBVIOUS
  <1>1. PICK S \in SUBSET page :
          /\ page' = page \ S /\ pc' = AfterEmit(page \ S)
          /\ out' = [r \in Row |-> IF r \in S THEN out[r] + 1 ELSE out[r]]
    BY DEF EmitVector
  <1>2. /\ pc = "emit"
        /\ UNCHANGED <<org, stable, matched, churn, lazy, result, last_page, next_path>>
        /\ UNCHANGED <<done, seen, pages_fetched>>
    BY DEF EmitVector, orgVars
  <1>3. /\ pc' \in {"emit", "advance"} /\ (pc' = "advance" => page' = {})
    BY <1>1 DEF AfterEmit
  <1>4. /\ page \subseteq Row /\ out \in [Row -> Nat]
        /\ \A r \in page : out[r] = 0 /\ Arrived(r)
        /\ \A r \in Row : out[r] \in {0, 1} /\ (out[r] = 1 => Arrived(r))
        /\ \A r \in Row : Arrived(r) => out[r] = 1 \/ r \in page
    BY <1>2 DEF IInv, TypeOK, RowInv
  <1>5. \A r \in Row : out'[r] = IF r \in S THEN 1 ELSE out[r]
    BY <1>1, <1>4
  <1>6. TypeOK'
    <2>1. out' \in [Row -> Nat]
      BY <1>1, <1>4
    <2> QED
      BY <1>1, <1>2, <1>3, <2>1 DEF IInv, TypeOK
  <1>7. ResultInv'
    <2>1. last_page # 0
      BY <1>2 DEF IInv, ControlInv
    <2> QED
      BY <1>2, <2>1 DEF IInv, ResultInv
  <1>8. CursorInv'
    BY <1>2 DEF IInv, CursorInv
  <1>9. RowInv'
    <2>1. \A r \in Row : Arrived(r)' <=> Arrived(r)
      BY <1>2 DEF Arrived
    <2> QED
      BY <1>1, <1>4, <1>5, <2>1 DEF RowInv
  <1>10. ControlInv'
    BY <1>2, <1>3 DEF IInv, ControlInv
  <1> QED
    BY <1>6, <1>7, <1>8, <1>9, <1>10 DEF IInv

(* The other steps move no page and no row. *)
LEMMA QuietKeeps ==
  ASSUME IInv,
         RequestFails \/ NoMoreRows \/ StopPulling \/ (\E r \in Row : Arrive(r) \/ Leave(r))
           \/ UNCHANGED vars
  PROVE  IInv'
  <1>0. UNCHANGED <<lazy, result, last_page, next_path, done, seen, pages_fetched, page, out>>
    BY DEF RequestFails, NoMoreRows, StopPulling, Arrive, Leave, vars
  <1>1. /\ matched \subseteq matched' /\ stable' \subseteq stable
        /\ org' \subseteq matched' /\ stable' \subseteq org'
        /\ org' \subseteq Row /\ stable' \subseteq Row /\ matched' \subseteq Row
        /\ churn' \in 0 .. ChurnBound
    BY RestAssumption
    DEF IInv, TypeOK, ResultInv, RequestFails, NoMoreRows, StopPulling, Arrive, Leave, vars,
        orgVars
  <1>2. \/ pc' = "failed" \/ pc' = pc \/ (pc = "advance" /\ done /\ pc' = "done")
        \/ pc' = "stopped" /\ pc # "failed"
    BY DEF RequestFails, NoMoreRows, StopPulling, Arrive, Leave, vars
  <1>3. TypeOK'
    BY <1>0, <1>1, <1>2 DEF IInv, TypeOK
  <1>4. ResultInv'
    BY <1>0, <1>1 DEF IInv, ResultInv
  <1>5. CursorInv'
    BY <1>0 DEF IInv, CursorInv
  <1>6. RowInv'
    <2>1. \A r \in Row : Arrived(r)' <=> Arrived(r)
      BY <1>0 DEF Arrived
    <2>2. pc' # "failed" => pc # "failed"
      BY <1>2
    <2> QED
      BY <1>0, <2>1, <2>2 DEF IInv, RowInv, TypeOK
  <1>7. ControlInv'
    BY <1>0, <1>2 DEF IInv, ControlInv
  <1> QED
    BY <1>3, <1>4, <1>5, <1>6, <1>7 DEF IInv

(* Every step keeps the invariant. *)
LEMMA IStep == IInv /\ [Next]_vars => IInv'
  BY RunQueryKeeps, FollowCursorKeeps, RefuseCursorKeeps, LastPageKeeps, EmitVectorKeeps,
     QuietKeeps
  DEF Next, Step, Idle

-----------------------------------------------------------------------------
(* TableScan.                                                              *)

(* A REST scan starts as a TableScan does. *)
LEMMA RefinesInit == Init => Promise!Init
  <1> SUFFICES ASSUME Init PROVE Promise!Init
    OBVIOUS
  <1>1. org \in SUBSET Row /\ stable = org /\ matched = org /\ out = [r \in Row |-> 0]
    BY RestAssumption DEF Init, NoRows
  <1>2. scanStatus = "running"
    BY DEF Init, scanStatus
  <1> QED
    BY <1>1, <1>2 DEF Promise!Init

(* A scan that is done has handed out every row that matched throughout. *)
Complete == pc = "done" => \A r \in stable : out[r] = 1

(* Nothing is left to arrive then, and nothing is in hand. *)
LEMMA DoneIsComplete == IInv => Complete
  <1> SUFFICES ASSUME IInv, pc = "done"
               PROVE  \A r \in stable : out[r] = 1
    BY DEF Complete
  <1>1. done /\ page = {} /\ stable \subseteq Row
    BY DEF IInv, ControlInv, TypeOK
  <1>2. last_page # 0
    BY <1>1 DEF IInv, ResultInv
  <1>3. \A r \in stable : result[r] # 0
    BY <1>2 DEF IInv, ResultInv
  <1> QED
    BY <1>1, <1>3 DEF IInv, RowInv, Arrived

(* Every step of a REST scan is a step of TableScan or stutters. *)
LEMMA RefinesStep == IInv /\ IInv' /\ [Next]_vars => [Promise!Next]_Promise!vars
  <1> SUFFICES ASSUME IInv, IInv', [Next]_vars
               PROVE  Promise!Next \/ UNCHANGED Promise!vars
    OBVIOUS
  <1>1. CASE EmitVector
    <2>1. PICK S \in SUBSET page :
            /\ pc' = AfterEmit(page \ S)
            /\ out' = [r \in Row |-> IF r \in S THEN out[r] + 1 ELSE out[r]]
      BY <1>1 DEF EmitVector
    <2>2. pc = "emit" /\ UNCHANGED <<org, stable, matched>> /\ pc' \in {"emit", "advance"}
      BY <1>1, <2>1 DEF EmitVector, orgVars, AfterEmit
    <2>3. scanStatus = "running" /\ scanStatus' = "running"
      BY <2>2 DEF scanStatus
    <2>4. S \subseteq Row /\ \A r \in S : out[r] = 0 /\ result[r] # 0
      BY <2>2 DEF IInv, TypeOK, RowInv, Arrived
    <2>5. S \subseteq matched
      BY <2>4 DEF IInv, ResultInv
    <2>6. out' = [r \in Row |-> IF r \in S THEN 1 ELSE out[r]]
      BY <2>1, <2>4
    <2>7. Promise!Deliver(S)
      BY <2>2, <2>3, <2>4, <2>5, <2>6 DEF Promise!Deliver
    <2> QED
      BY <2>4, <2>7 DEF Promise!Next
  <1>2. ASSUME NEW r \in Row, Arrive(r) \/ Leave(r)
        PROVE  Promise!Next
    <2>1. scanStatus' = scanStatus
      BY <1>2 DEF Arrive, Leave, scanStatus
    <2>2. Promise!Arrive(r) \/ Promise!Leave(r)
      BY <1>2, <2>1 DEF Arrive, Leave, Promise!Arrive, Promise!Leave
    <2> QED
      BY <2>2 DEF Promise!Next
  <1>3. CASE \/ RunQuery \/ FollowCursor \/ RefuseCursor \/ LastPage \/ RequestFails
             \/ NoMoreRows \/ StopPulling
    <2>1. UNCHANGED <<org, stable, matched, out>> /\ pc \in {"advance", "emit"}
      BY <1>3 DEF RunQuery, FollowCursor, RefuseCursor, LastPage, RequestFails, NoMoreRows,
                  StopPulling, Fetch, orgVars
    <2>2. scanStatus = "running"
      BY <2>1 DEF scanStatus
    <2>3. CASE pc' = "done"
      <3>1. \A r \in stable : out[r] = 1
        <4>1. IInv' => Complete'
          BY DoneIsComplete, PTL
        <4> QED
          BY <2>1, <2>3, <4>1 DEF Complete
      <3> QED
        BY <2>1, <2>2, <2>3, <3>1 DEF Promise!Next, Promise!Finish, scanStatus
    <2>4. CASE pc' = "failed"
      BY <2>1, <2>2, <2>4 DEF Promise!Next, Promise!Fail, scanStatus
    <2>5. CASE pc' \notin {"done", "failed"}
      BY <2>1, <2>2, <2>5 DEF Promise!vars, scanStatus
    <2> QED
      BY <2>3, <2>4, <2>5
  <1>4. CASE UNCHANGED vars
    BY <1>4 DEF vars, orgVars, scanStatus, Promise!vars
  <1> QED
    BY <1>1, <1>2, <1>3, <1>4 DEF Next, Step, Idle

-----------------------------------------------------------------------------

(* Every variable of the REST path keeps its type, and the page guard its  *)
(* bound, whatever the server's cursors.                                   *)
THEOREM RestTypeOK == Spec => []TypeOK
  <1>1. IInv => TypeOK
    BY DEF IInv
  <1> QED
    BY IInit, IStep, <1>1, PTL DEF Spec

(* A table scan asks for a page only when every row of the pages before it *)
(* was handed to DuckDB (ScanAdvancePage is called on a drained page).     *)
THEOREM RestLazyFetch == Spec => LazyFetch
  <1>1. IInv /\ [Next]_vars =>
          [lazy /\ pages_fetched' > pages_fetched =>
             \A r \in Row : result[r] \in 1 .. next_path - 1 => out[r] = 1]_vars
    <2> SUFFICES ASSUME IInv, Next, lazy, pages_fetched' > pages_fetched,
                        NEW r \in Row, result[r] \in 1 .. next_path - 1
                 PROVE  out[r] = 1
      OBVIOUS
    <2>1. pages_fetched \in Nat /\ result[r] \in Nat /\ next_path \in Nat
      BY DEF IInv, TypeOK
    <2>2. FollowCursor \/ RefuseCursor \/ LastPage
      <3>1. \/ FollowCursor \/ RefuseCursor \/ LastPage
            \/ pages_fetched' = pages_fetched
        BY DEF Next, Step, Idle, RunQuery, RequestFails, EmitVector, NoMoreRows, StopPulling,
               Arrive, Leave, vars
      <3> QED
        BY <2>1, <3>1
    <2>3. pc = "advance"
      BY <2>2 DEF FollowCursor, RefuseCursor, LastPage, Fetch
    <2>4. page = {} /\ Arrived(r)
      BY <2>1, <2>3 DEF IInv, ControlInv, Arrived
    <2> QED
      BY <2>3, <2>4 DEF IInv, RowInv
  <1> QED
    BY IInit, IStep, <1>1, PTL DEF Spec, LazyFetch

(* The REST path, with its empty pages, repeated cursors and failures,     *)
(* behaves as TableScan promises DuckDB.                                   *)
THEOREM RestImplementsTableScan == Spec => ImplementsTableScan
  BY IInit, IStep, RefinesInit, RefinesStep, PTL DEF Spec, ImplementsTableScan, Promise!Spec
=============================================================================
