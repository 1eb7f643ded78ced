----------------------------- MODULE MCRestScan -----------------------------
(* Three interchangeable rows, on up to four pages, some of them empty. *)
EXTENDS RestScan, TLC

CONSTANTS r1, r2, r3

MCRow         == {r1, r2, r3}
MCInitialOrgs == SUBSET MCRow
=============================================================================
