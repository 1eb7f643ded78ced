---------------------------- MODULE MCDiagnostics ---------------------------
(* Two scans that may overlap, of every kind, two threads and one call of  *)
(* another function.                                                       *)
EXTENDS Diagnostics, TLC

CONSTANTS t1, t2

MCScans == 1 .. 2
MCThreads == {t1, t2}
=============================================================================
