------------------------------ MODULE TableScan ------------------------------
(***************************************************************************)
(* What every scan of a Salesforce object promises DuckDB, whatever        *)
(* transport serves it: while the org keeps changing, no row is handed out *)
(* twice, only rows that matched at some moment of the scan are handed     *)
(* out, and a scan that ends without an error has handed out every row     *)
(* that matched from its beginning to its end.                             *)
(***************************************************************************)
EXTENDS Naturals

CONSTANT Row

VARIABLES
  org,      \* the rows that match the scan's WHERE now
  stable,   \* those that have matched ever since the scan began
  matched,  \* those that have matched at some moment since it began
  out,      \* out[r]: how many times row r was handed to DuckDB
  status    \* "running", "done" or "failed"

vars == <<org, stable, matched, out, status>>

Init ==
  /\ org \in SUBSET Row
  /\ stable = org
  /\ matched = org
  /\ out = [r \in Row |-> 0]
  /\ status = "running"

(* Another client of the org makes r match: an insert, or an update. *)
Arrive(r) ==
  /\ r \notin org
  /\ org' = org \cup {r}
  /\ matched' = matched \cup {r}
  /\ UNCHANGED <<stable, out, status>>

Leave(r) ==
  /\ r \in org
  /\ org' = org \ {r}
  /\ stable' = stable \ {r}
  /\ UNCHANGED <<matched, out, status>>

(* One call of the scan function returns the rows S, none of them again. *)
Deliver(S) ==
  /\ status # "done"
  /\ S \subseteq matched
  /\ \A r \in S : out[r] = 0
  /\ out' = [r \in Row |-> IF r \in S THEN 1 ELSE out[r]]
  /\ UNCHANGED <<org, stable, matched, status>>

Finish ==
  /\ status = "running"
  /\ \A r \in stable : out[r] = 1
  /\ status' = "done"
  /\ UNCHANGED <<org, stable, matched, out>>

Fail ==
  /\ status = "running"
  /\ status' = "failed"
  /\ UNCHANGED <<org, stable, matched, out>>

Next ==
  \/ \E r \in Row : Arrive(r) \/ Leave(r)
  \/ \E S \in SUBSET Row : Deliver(S)
  \/ Finish
  \/ Fail

Spec == Init /\ [][Next]_vars
=============================================================================
