----------------------------- MODULE MCBulkScan -----------------------------
(***************************************************************************)
(* Small instances of BulkScan: 4 x 2 Ids, so that a boundary can fall on  *)
(* an Id, between two Ids that share their first characters, or collapse.  *)
(***************************************************************************)
EXTENDS BulkScan

MCThreads       == 1 .. 2
MCChunkSettings == {0, 2, 4}
MCInitialOrgs   == {{}, {2}, {0, 1, 7}}
=============================================================================
