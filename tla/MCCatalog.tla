----------------------------- MODULE MCCatalog -----------------------------
(***************************************************************************)
(* An org of three objects: Case refers to Account directly and through    *)
(* Contact (a diamond), Contact refers back to Case (a cycle), and there   *)
(* is one reference of each kind that is skipped.                          *)
(***************************************************************************)
EXTENDS Catalog

Ref(from, rel, to, clash) == [ from |-> from, rel |-> rel, to |-> to, clash |-> clash ]

MCReferences ==
  << Ref("Case", "Account", {"Account"}, FALSE),
     Ref("Case", "Contact", {"Contact"}, FALSE),
     Ref("Contact", "Account", {"Account"}, FALSE),
     Ref("Contact", "ReportsTo", {"Contact"}, FALSE),
     Ref("Contact", "LastCase__r", {"Case"}, FALSE),
     Ref("Account", "Primary__r", {"Contact"}, FALSE),
     Ref("Account", "", {"Contact"}, FALSE),
     Ref("Account", "Owner", {"Case", "Contact"}, FALSE),
     Ref("Account", "Name", {"Contact"}, TRUE) >>
=============================================================================
