------------------------------ MODULE MCQuota ------------------------------
(***************************************************************************)
(* Two callers of an org with one request left to spend above its reserve. *)
(* The policies cover the governor off, warn-only, fail-closed, no cache   *)
(* and a cache of 2 seconds.                                               *)
(***************************************************************************)
EXTENDS Quota, TLC

CONSTANTS t1, t2

MCThreads  == {t1, t2}
MCSymmetry == Permutations(MCThreads)

MCPolicy(enabled, enforce, fail_open, ttl) ==
  [ enabled |-> enabled, enforce |-> enforce, fail_open |-> fail_open,
    reserve_pct |-> 50, min_remaining |-> 0, ttl |-> ttl ]

MCPolicies ==
  { MCPolicy(FALSE, TRUE, TRUE, 2),
    MCPolicy(TRUE, TRUE, TRUE, 2),
    MCPolicy(TRUE, FALSE, FALSE, 0) }
=============================================================================
