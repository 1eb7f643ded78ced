----------------------------- MODULE PkChunking -----------------------------
(***************************************************************************)
(* The Id-range chunking of a Bulk scan (salesforce_scan.cpp, #v0.7 9).    *)
(*                                                                         *)
(* A Salesforce Id is a fixed-length base-62 string compared lexically.    *)
(* All Ids of one object have the same length, so an Id is modelled by its *)
(* rank in that order: the first kIdPrec characters are the high digit     *)
(* (one of Prefixes values, 62^10 in the code), the rest is the low digit  *)
(* (one of SuffixSpan values, 62^5 or 62^8).  String comparison is then    *)
(* comparison of numbers, and right-padding with '0' is a low digit of 0.  *)
(***************************************************************************)
EXTENDS Integers

CONSTANTS
  Prefixes,     \* number of values of the first kIdPrec characters of an Id
  SuffixSpan,   \* number of Ids that share these characters
  ChunkCap,     \* the most chunks a scan may ask for (8 in the code)
  Word          \* number of values of the code's uint64_t

(***************************************************************************)
(* The last conjunct is the claim of the code's comment "62^10 < 2^63 -    *)
(* enough resolution for <=8 chunks".                                      *)
(***************************************************************************)
ASSUME ChunkingAssumption ==
  /\ Prefixes   \in Nat \ {0}
  /\ SuffixSpan \in Nat \ {0}
  /\ ChunkCap   \in Nat \ {0}
  /\ Word       \in Nat \ {0}
  /\ Prefixes * ChunkCap <= Word

Id == 0 .. (Prefixes * SuffixSpan - 1)

(* The number made of the first kIdPrec characters of an Id. *)
IdToNum(id) == id \div SuffixSpan

(* The Id with these first characters, padded with '0' to full length. *)
NumToId(v) == v * SuffixSpan

(***************************************************************************)
(* The i-th of n + 1 boundaries over [mn, mx]: the outer ones are the real *)
(* MIN(Id) and MAX(Id), the inner ones interpolate in uint64_t.            *)
(***************************************************************************)
Interpolate(lo, hi, i, n) == lo + (((hi - lo) * i) % Word) \div n

Boundary(mn, mx, n, i) ==
  CASE i = 0 -> mn
    [] i = n -> mx
    [] OTHER -> NumToId(Interpolate(IdToNum(mn), IdToNum(mx), i, n))

(* A chunk: the Ids of one job's WHERE.  Only the last one includes hi. *)
IdRange(mn, mx, n, i) ==
  [ lo   |-> Boundary(mn, mx, n, i),
    hi   |-> Boundary(mn, mx, n, i + 1),
    last |-> i = n - 1 ]

(* The single chunk of a scan that is not split: no Id predicate at all. *)
WholeObject == [ lo |-> 0, hi |-> Prefixes * SuffixSpan - 1, last |-> TRUE ]

InRange(id, rg) == rg.lo <= id /\ (id < rg.hi \/ (rg.last /\ id = rg.hi))

(* A collapsed boundary makes the chunk disappear, except the first one. *)
KeptChunks(mn, mx, n) ==
  { i \in 0 .. n - 1 : i = 0 \/ ~ (Boundary(mn, mx, n, i + 1) <= Boundary(mn, mx, n, i)) }

(* The listings of S, a set of at most n numbers, in increasing order. *)
OrderedListings(S, n) ==
  { pos \in UNION { [1 .. m -> S] : m \in 1 .. n } :
      /\ \A k, l \in DOMAIN pos : k < l => pos[k] < pos[l]
      /\ \A s \in S : \E k \in DOMAIN pos : pos[k] = s }

(***************************************************************************)
(* The chunk list for [mn, mx] and n is the listing of the kept chunks in  *)
(* order, which the code builds by appending them one by one.  The set has *)
(* exactly one member.                                                     *)
(***************************************************************************)
BuildIdRangeWheres(mn, mx, n) ==
  { [k \in DOMAIN pos |-> IdRange(mn, mx, n, pos[k])] :
      pos \in OrderedListings(KeptChunks(mn, mx, n), n) }
=============================================================================
