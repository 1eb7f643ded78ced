--------------------------- MODULE BulkScanProofs ---------------------------
(***************************************************************************)
(* Safety of the Bulk path of a scan, for every number of threads, chunks, *)
(* pages and rows: it is well typed, hands no row out twice and, when it   *)
(* ends without an error, has lost none.  It implements TableScan, the     *)
(* promise of any table scan to DuckDB.  First, about PkChunking: the Id   *)
(* ranges are disjoint and exhaustive, for every Id length, every pair of  *)
(* Ids and every number of chunks.                                         *)
(***************************************************************************)
EXTENDS BulkScan, WellFoundedInduction, TLAPS

-----------------------------------------------------------------------------
(* Arithmetic the boundaries rest on.                                      *)

(* Division is monotone. *)
LEMMA DivMonotone ==
  ASSUME NEW a \in Nat, NEW b \in Nat, NEW n \in Nat \ {0}, a <= b
  PROVE  a \div n <= b \div n
  BY SMTT(30)

(* Multiplication by a natural number is monotone. *)
LEMMA MulMonotone ==
  ASSUME NEW a \in Nat, NEW b \in Nat, NEW n \in Nat, a <= b
  PROVE  n * a <= n * b
  <1>1. b = a + (b - a) /\ b - a \in Nat
    OBVIOUS
  <1>2. n * b = n * a + n * (b - a)
    BY <1>1
  <1>3. n * (b - a) >= 0
    BY <1>1
  <1> QED
    BY <1>1, <1>2, <1>3

(* A nonempty set of natural numbers has a least element. *)
LEMMA LeastElement ==
  ASSUME NEW T, T \subseteq Nat, T # {}
  PROVE  \E k \in T : \A l \in T : k <= l
  <1>1. PICK R : R = OpToRel(<, Nat)
    BY Zenon
  <1>2. IsWellFoundedOn(R, Nat)
    BY <1>1, NatLessThanWellFounded, Zenon
  <1>3. R = { ss \in Nat \X Nat : ss[1] < ss[2] }
    BY <1>1, Zenon DEF OpToRel
  <1>4. PICK k \in T : \A l \in T : ~ (<<l, k>> \in R)
    BY <1>2, WFMin
  <1>5. ASSUME NEW l \in T, l < k
        PROVE  FALSE
    <2>1. <<l, k>> \in Nat \X Nat /\ <<l, k>>[1] < <<l, k>>[2]
      BY <1>5
    <2>2. <<l, k>> \in R
      BY <2>1, <1>3, Zenon
    <2> QED
      BY <2>2, <1>4
  <1> QED
    BY <1>5

(* An Id lies between the padded forms of its prefix and of the next one. *)
LEMMA PrefixBounds ==
  ASSUME NEW id \in Id
  PROVE  /\ IdToNum(id) \in Nat
         /\ IdToNum(id) < Prefixes
         /\ NumToId(IdToNum(id)) <= id
         /\ id < NumToId(IdToNum(id) + 1)
  BY ChunkingAssumption, SMTT(30) DEF Id, IdToNum, NumToId

(***************************************************************************)
(* uint64_t never wraps in the interpolation, and the interpolated number  *)
(* stays between those of the two Ids.                                     *)
(***************************************************************************)
LEMMA InterpolateBounds ==
  ASSUME NEW lo \in Nat, NEW hi \in Nat, lo <= hi, hi < Prefixes,
         NEW n \in 1 .. ChunkCap, NEW i \in 1 .. n
  PROVE  /\ Interpolate(lo, hi, i, n) = lo + ((hi - lo) * i) \div n
         /\ Interpolate(lo, hi, i, n) \in lo .. hi
         /\ lo < hi /\ i < n => Interpolate(lo, hi, i, n) < hi
  <1> DEFINE d == hi - lo
  <1>1. d \in Nat /\ d < Prefixes /\ n \in Nat \ {0} /\ i \in Nat /\ i <= n /\ i <= ChunkCap
    BY ChunkingAssumption
  <1>2. d * i <= d * n
    BY <1>1, MulMonotone
  <1>3. d * i < Word
    <2>1. d * i <= d * ChunkCap
      BY <1>1, MulMonotone, ChunkingAssumption
    <2>2. ChunkCap * d + ChunkCap <= ChunkCap * Prefixes
      <3>1. ChunkCap * (d + 1) <= ChunkCap * Prefixes
        BY <1>1, MulMonotone, ChunkingAssumption
      <3> QED
        BY <1>1, <3>1, ChunkingAssumption
    <2> QED
      BY <2>1, <2>2, <1>1, ChunkingAssumption
  <1>4. d * i \in Nat /\ (d * i) % Word = d * i
    BY <1>1, <1>3, ChunkingAssumption
  <1>5. (d * i) \div n \in Nat /\ (d * i) \div n <= d
    <2>1. (d * i) \div n <= (d * n) \div n
      BY <1>1, <1>2, <1>4, DivMonotone
    <2>2. (d * n) \div n = d
      BY <1>1
    <2> QED
      BY <2>1, <2>2, <1>1, <1>4
  <1>6. ASSUME 0 < d, i < n
        PROVE  (d * i) \div n < d
    <2>1. d * i < d * n
      <3>1. d * (i + 1) <= d * n
        BY <1>1, <1>6, MulMonotone
      <3> QED
        BY <1>1, <1>6, <3>1
    <2> QED
      BY <1>1, <1>4, <2>1
  <1> QED
    BY <1>1, <1>4, <1>5, <1>6 DEF Interpolate

-----------------------------------------------------------------------------
(* The boundaries of a chunked scan.                                       *)

(* A scan with a MIN and a MAX Id and a chunk count the settings allow. *)
Chunked(mn, mx, n) == mn \in Id /\ mx \in Id /\ mn <= mx /\ n \in 1 .. ChunkCap

(* The prefixes of two ordered Ids are ordered. *)
LEMMA PrefixesOrdered ==
  ASSUME NEW a \in Id, NEW b \in Id, a <= b
  PROVE  IdToNum(a) <= IdToNum(b)
  BY DivMonotone, ChunkingAssumption DEF Id, IdToNum

(* An inner boundary is a padded prefix between those of the two Ids. *)
LEMMA InnerBoundary ==
  ASSUME NEW mn, NEW mx, NEW n, Chunked(mn, mx, n), NEW i \in 1 .. n - 1
  PROVE  /\ Interpolate(IdToNum(mn), IdToNum(mx), i, n) \in IdToNum(mn) .. IdToNum(mx)
         /\ Boundary(mn, mx, n, i) = NumToId(Interpolate(IdToNum(mn), IdToNum(mx), i, n))
         /\ Boundary(mn, mx, n, i) \in Id
         /\ Boundary(mn, mx, n, i) <= mx
  <1> DEFINE lo == IdToNum(mn)
             hi == IdToNum(mx)
             v  == Interpolate(lo, hi, i, n)
  <1>1. mn \in Id /\ mx \in Id /\ mn <= mx /\ n \in 1 .. ChunkCap
    BY DEF Chunked
  <1>2. lo \in Nat /\ hi \in Nat /\ lo <= hi /\ hi < Prefixes /\ NumToId(hi) <= mx
    BY <1>1, PrefixBounds, PrefixesOrdered
  <1>3. i \in 1 .. n /\ i # 0 /\ i # n
    BY <1>1, ChunkingAssumption
  <1>4. v \in lo .. hi
    BY <1>1, <1>2, <1>3, InterpolateBounds
  <1>5. Boundary(mn, mx, n, i) = NumToId(v)
    BY <1>3 DEF Boundary
  <1>6. NumToId(v) \in Nat /\ NumToId(hi) \in Nat /\ NumToId(v) <= NumToId(hi)
    <2>1. SuffixSpan * v <= SuffixSpan * hi
      BY <1>2, <1>4, MulMonotone, ChunkingAssumption
    <2> QED
      BY <2>1, <1>2, <1>4, ChunkingAssumption DEF NumToId
  <1>7. NumToId(v) \in Id
    BY <1>1, <1>2, <1>6, ChunkingAssumption DEF Id
  <1> QED
    BY <1>1, <1>2, <1>4, <1>5, <1>6, <1>7, ChunkingAssumption DEF Id, NumToId

(* Every boundary is an Id. *)
LEMMA BoundaryType ==
  ASSUME NEW mn, NEW mx, NEW n, Chunked(mn, mx, n), NEW i \in 0 .. n
  PROVE  Boundary(mn, mx, n, i) \in Id
  <1>1. CASE i = 0
    BY <1>1 DEF Boundary, Chunked
  <1>2. CASE i = n
    BY <1>2 DEF Boundary, Chunked
  <1>3. CASE i # 0 /\ i # n
    <2>1. i \in 1 .. n - 1
      BY <1>3, ChunkingAssumption DEF Chunked
    <2> QED
      BY <2>1, InnerBoundary
  <1> QED
    BY <1>1, <1>2, <1>3

(* From the second boundary on, the boundaries never decrease. *)
LEMMA BoundariesOrdered ==
  ASSUME NEW mn, NEW mx, NEW n, Chunked(mn, mx, n),
         NEW i \in 1 .. n, NEW j \in 1 .. n, i <= j
  PROVE  Boundary(mn, mx, n, i) <= Boundary(mn, mx, n, j)
  <1> DEFINE lo == IdToNum(mn)
             hi == IdToNum(mx)
             d  == hi - lo
  <1>1. mn \in Id /\ mx \in Id /\ mn <= mx /\ n \in 1 .. ChunkCap /\ n \in Nat \ {0}
    BY ChunkingAssumption DEF Chunked
  <1>2. lo \in Nat /\ hi \in Nat /\ lo <= hi /\ hi < Prefixes /\ d \in Nat
    BY <1>1, PrefixBounds, PrefixesOrdered
  <1>3. CASE j = n /\ i = n
    BY <1>3, <1>1, BoundaryType DEF Id
  <1>4. CASE j = n /\ i # n
    <2>1. Boundary(mn, mx, n, j) = mx
      BY <1>1, <1>4 DEF Boundary
    <2>2. i \in 1 .. n - 1
      BY <1>1, <1>4
    <2> QED
      BY <2>1, <2>2, InnerBoundary
  <1>5. CASE j # n
    <2>1. i \in 1 .. n - 1 /\ j \in 1 .. n - 1 /\ i \in Nat /\ j \in Nat
      BY <1>1, <1>5
    <2>2. (d * i) \div n <= (d * j) \div n
      <3>1. d * i <= d * j /\ d * i \in Nat /\ d * j \in Nat
        BY <1>2, <2>1, MulMonotone
      <3> QED
        BY <3>1, <1>1, DivMonotone
    <2>3. /\ Interpolate(lo, hi, i, n) = lo + (d * i) \div n
          /\ Interpolate(lo, hi, j, n) = lo + (d * j) \div n
          /\ Interpolate(lo, hi, i, n) \in Nat
          /\ Interpolate(lo, hi, j, n) \in Nat
      <3>1. ASSUME NEW k \in 1 .. n
            PROVE  /\ Interpolate(lo, hi, k, n) = lo + (d * k) \div n
                   /\ Interpolate(lo, hi, k, n) \in lo .. hi
        BY <1>1, <1>2, InterpolateBounds
      <3> HIDE DEF lo, hi
      <3> QED
        BY <1>2, <3>1
    <2>4. Interpolate(lo, hi, i, n) <= Interpolate(lo, hi, j, n)
      <3>1. (d * i) \div n \in Int /\ (d * j) \div n \in Int
        BY <1>1, <1>2, <2>1
      <3> QED
        BY <2>2, <2>3, <3>1, <1>2
    <2>5. SuffixSpan * Interpolate(lo, hi, i, n) <= SuffixSpan * Interpolate(lo, hi, j, n)
      BY <2>3, <2>4, MulMonotone, ChunkingAssumption
    <2> QED
      BY <2>1, <2>3, <2>5, InnerBoundary, ChunkingAssumption DEF NumToId
  <1> QED
    BY <1>3, <1>4, <1>5

(***************************************************************************)
(* The last chunk is never empty when min_id < max_id, the condition that  *)
(* TryMinMaxId returns: the inclusive chunk is never skipped as collapsed. *)
(***************************************************************************)
LEMMA LastChunkNotCollapsed ==
  ASSUME NEW mn, NEW mx, NEW n, Chunked(mn, mx, n), mn < mx, n > 1
  PROVE  Boundary(mn, mx, n, n - 1) < mx
  <1> DEFINE lo == IdToNum(mn)
             hi == IdToNum(mx)
             v  == Interpolate(lo, hi, n - 1, n)
  <1>1. mn \in Id /\ mx \in Id /\ mn <= mx /\ n \in 1 .. ChunkCap /\ n \in Nat \ {0}
    BY ChunkingAssumption DEF Chunked
  <1>2. /\ lo \in Nat /\ hi \in Nat /\ lo <= hi /\ hi < Prefixes
        /\ NumToId(lo) <= mn /\ NumToId(hi) <= mx
    BY <1>1, PrefixBounds, PrefixesOrdered
  <1>3. n - 1 \in 1 .. n /\ n - 1 \in 1 .. n - 1
    BY <1>1
  <1>4. v \in lo .. hi /\ (lo < hi => v < hi)
    BY <1>1, <1>2, <1>3, InterpolateBounds
  <1>5. Boundary(mn, mx, n, n - 1) = NumToId(v)
    BY <1>3, InnerBoundary
  <1>6. CASE lo = hi
    <2>1. v = lo
      BY <1>4, <1>6, <1>2
    <2> QED
      BY <2>1, <1>5, <1>2, <1>1, ChunkingAssumption DEF Id, NumToId
  <1>7. CASE lo < hi
    <2>1. v \in Nat /\ v + 1 <= hi
      BY <1>2, <1>4, <1>7
    <2>2. SuffixSpan * (v + 1) <= SuffixSpan * hi
      BY <2>1, <1>2, MulMonotone, ChunkingAssumption
    <2> QED
      BY <2>1, <2>2, <1>5, <1>2, <1>1, ChunkingAssumption DEF Id, NumToId
  <1> QED
    BY <1>2, <1>6, <1>7

(* What it means for an Id to match the WHERE of chunk i. *)
LEMMA InChunk ==
  ASSUME NEW mn, NEW mx, NEW n, NEW i, NEW id
  PROVE  InRange(id, IdRange(mn, mx, n, i)) <=>
           /\ Boundary(mn, mx, n, i) <= id
           /\ \/ id < Boundary(mn, mx, n, i + 1)
              \/ i = n - 1 /\ id = Boundary(mn, mx, n, i + 1)
  BY Zenon DEF InRange, IdRange

-----------------------------------------------------------------------------
(* The two halves of "N disjoint, exhaustive WHERE clauses".               *)

(* No Id lies in two chunks. *)
THEOREM ChunksDisjoint ==
  ASSUME NEW mn, NEW mx, NEW n, Chunked(mn, mx, n),
         NEW i \in 0 .. n - 1, NEW j \in 0 .. n - 1, i < j, NEW id \in Id
  PROVE  ~ (InRange(id, IdRange(mn, mx, n, i)) /\ InRange(id, IdRange(mn, mx, n, j)))
  <1>1. n \in Nat \ {0}
    BY ChunkingAssumption DEF Chunked
  <1>2. /\ i + 1 \in 1 .. n /\ j \in 1 .. n /\ i + 1 <= j /\ i # n - 1
        /\ i + 1 \in 0 .. n /\ j \in 0 .. n
    BY <1>1
  <1>3. Boundary(mn, mx, n, i + 1) <= Boundary(mn, mx, n, j)
    BY <1>2, BoundariesOrdered
  <1>4. Boundary(mn, mx, n, i + 1) \in Id /\ Boundary(mn, mx, n, j) \in Id
    BY <1>2, BoundaryType
  <1> QED
    BY <1>2, <1>3, <1>4, InChunk, ChunkingAssumption DEF Id

(* Every Id from min_id to max_id lies in a chunk that is kept. *)
THEOREM ChunksExhaustive ==
  ASSUME NEW mn, NEW mx, NEW n, Chunked(mn, mx, n), mn < mx,
         NEW id \in Id, mn <= id, id <= mx
  PROVE  \E i \in KeptChunks(mn, mx, n) : InRange(id, IdRange(mn, mx, n, i))
  <1> DEFINE B(k) == Boundary(mn, mx, n, k)
             T    == { k \in 1 .. n : id < B(k) }
  <1>1. n \in Nat \ {0} /\ mn \in Nat /\ mx \in Nat /\ id \in Nat
    BY ChunkingAssumption DEF Chunked, Id
  <1>2. \A k \in 0 .. n : B(k) \in Nat
    BY BoundaryType, ChunkingAssumption DEF Id
  <1>3. B(0) = mn /\ B(n) = mx
    BY <1>1 DEF Boundary
  <1>4. CASE T = {}
    <2>1. id = mx
      BY <1>1, <1>3, <1>4
    <2>2. n - 1 \in KeptChunks(mn, mx, n)
      <3>1. n > 1 => B(n - 1) < B(n)
        BY <1>3, LastChunkNotCollapsed
      <3>2. n > 1 => ~ (B(n - 1 + 1) <= B(n - 1))
        BY <3>1, <1>1, <1>2
      <3> QED
        BY <3>2, <1>1 DEF KeptChunks
    <2>3. B(n - 1) <= id
      <3>1. CASE n = 1
        BY <3>1, <1>3
      <3>2. CASE n > 1
        BY <3>2, <2>1, <1>1, <1>2, LastChunkNotCollapsed
      <3> QED
        BY <3>1, <3>2, <1>1
    <2>4. InRange(id, IdRange(mn, mx, n, n - 1))
      <3>1. n - 1 + 1 = n
        BY <1>1
      <3> QED
        BY <2>1, <2>3, <1>3, <3>1, InChunk
    <2> QED
      BY <2>2, <2>4
  <1>5. CASE T # {}
    <2>1. PICK k \in T : \A l \in T : k <= l
      <3>1. T \subseteq Nat
        BY <1>1
      <3> QED
        BY <3>1, <1>5, LeastElement
    <2>2. \A l \in T : ~ (l < k)
      BY <2>1, <1>1
    <2>3. k \in 1 .. n /\ id < B(k) /\ k - 1 \in 0 .. n - 1 /\ k - 1 \in 0 .. n
      BY <1>1
    <2>4. B(k - 1) <= id
      <3>1. CASE k = 1
        BY <3>1, <1>3
      <3>2. CASE k # 1
        <4>1. k - 1 \in 1 .. n /\ k - 1 < k
          BY <2>3, <3>2, <1>1
        <4>2. ~ (id < B(k - 1))
          BY <4>1, <2>2
        <4> QED
          BY <4>2, <2>3, <1>1, <1>2
      <3> QED
        BY <3>1, <3>2
    <2>5. k - 1 + 1 = k
      BY <2>3, <1>1
    <2>6. k - 1 \in KeptChunks(mn, mx, n)
      <3>1. ~ (B(k) <= B(k - 1))
        BY <2>3, <2>4, <1>1, <1>2
      <3> QED
        BY <3>1, <2>3, <2>5 DEF KeptChunks
    <2>7. InRange(id, IdRange(mn, mx, n, k - 1))
      BY <2>3, <2>4, <2>5, InChunk
    <2> QED
      BY <2>6, <2>7
  <1> QED
    BY <1>4, <1>5

-----------------------------------------------------------------------------
(* The scan.                                                               *)

Working(t)   == pc[t] \in {"gate", "start", "advance", "publish", "emit"}
Streaming(t) == pc[t] \in {"advance", "publish", "emit"}
Holding(t)   == Working(t) \/ pc[t] = "failed"

(* r is a row of chunk i of the list (chunks are numbered from 1 here). *)
RowOf(r, i) == InRange(r, chunks[i])

(* Row r of thread t's chunk is still to be handed out. *)
Pending(t, r) ==
  \/ pc[t] \in {"gate", "start"}
  \/ pc[t] = "advance" /\ ~ chunk_done[t] /\ job[t][r] >= page_no[t]
  \/ pc[t] = "publish" /\ job[t][r] >= page_no[t]
  \/ pc[t] = "emit" /\ (r \in page[t] \/ (~ chunk_done[t] /\ job[t][r] >= page_no[t]))

(* The pages of a job are asked for in order, up to the last one. *)
PageInv ==
  \A t \in Threads : Streaming(t) =>
    /\ page_no[t] <= last_page[t]
    /\ seen[t] \subseteq 1 .. page_no[t]
    /\ pc[t] = "publish" =>
         /\ next_locator[t] \in {0, page_no[t] + 1} \cup seen[t]
         /\ next_locator[t] <= last_page[t]

(* The inductive invariant behind TypeOK. *)
TypeInv == TypeOK /\ PageInv

(* Nothing has happened before the chunk list exists. *)
BeforeInit ==
  active = {} => /\ chunks = <<>> /\ next_chunk = 0
                 /\ out = NoRows
                 /\ \A t \in Threads : pc[t] = "off"

(* No row is in two chunks. *)
ChunksApart ==
  \A i, j \in DOMAIN chunks : i # j => \A r \in Id : ~ (RowOf(r, i) /\ RowOf(r, j))

(* The dispenser hands every chunk to one thread only. *)
ClaimsApart ==
  /\ \A t \in Threads : Holding(t) => idx[t] + 1 \in DOMAIN chunks /\ idx[t] < next_chunk
  /\ \A t, u \in Threads : Working(t) /\ Working(u) /\ t # u => idx[t] # idx[u]

(* A job returns rows of its own chunk only, and a page is handed out      *)
(* before the next one is asked for.                                       *)
JobOf(t) ==
  Streaming(t) =>
    /\ \A r \in Id : job[t][r] # 0 => RowOf(r, idx[t] + 1)
    /\ pc[t] = "publish" => page[t] = PageRows(t, page_no[t]) /\ ~ chunk_done[t]
    /\ pc[t] = "emit" =>
         \A r \in page[t] : /\ job[t][r] # 0
                            /\ ~ chunk_done[t] => job[t][r] < page_no[t]

JobInv == \A t \in Threads : JobOf(t)

(* A row of a chunk nobody claimed was not handed out. *)
UnclaimedFresh ==
  \A i \in DOMAIN chunks : i > next_chunk => \A r \in Id : RowOf(r, i) => out[r] = 0

(* A row that is still pending was not handed out. *)
PendingFresh ==
  \A t \in Threads : Working(t) =>
    \A r \in Id : RowOf(r, idx[t] + 1) /\ Pending(t, r) => out[r] = 0

(***************************************************************************)
(* The inductive invariant behind AtMostOnce.                              *)
(***************************************************************************)
OnceInv ==
  /\ TypeInv
  /\ BeforeInit
  /\ ChunksApart
  /\ ClaimsApart
  /\ JobInv
  /\ UnclaimedFresh
  /\ PendingFresh
  /\ AtMostOnce

(* Every row that has matched all along is in some chunk. *)
ChunksCover ==
  /\ stable \subseteq org
  /\ active # {} => \A r \in stable : \E i \in DOMAIN chunks : RowOf(r, i)

(* A streaming thread still owes, or has handed out, every such row. *)
JobCoversOf(t) ==
  Streaming(t) =>
    /\ \A r \in Id : job[t][r] <= last_page[t]
    /\ pc[t] = "publish" /\ next_locator[t] = 0 => page_no[t] = last_page[t]
    /\ \A r \in stable : RowOf(r, idx[t] + 1) => Pending(t, r) \/ out[r] = 1

JobCovers == \A t \in Threads : JobCoversOf(t)

(* Every such row of chunk i was handed out. *)
Delivered(i) == \A r \in stable : RowOf(r, i) => out[r] = 1

(* A chunk that was claimed is held by a thread, or delivered. *)
ClaimedDelivered ==
  \A i \in DOMAIN chunks : i <= next_chunk =>
    \/ \E t \in Threads : Holding(t) /\ idx[t] + 1 = i
    \/ Delivered(i)

(* A thread stops only when the dispenser is dry; only active ones run. *)
DoneInv ==
  \A t \in Threads : /\ pc[t] = "done" => next_chunk >= Len(chunks)
                     /\ pc[t] # "off" => t \in active

(***************************************************************************)
(* The inductive invariant behind NothingLost.                             *)
(***************************************************************************)
CoverInv ==
  /\ OnceInv
  /\ ChunksCover
  /\ JobCovers
  /\ ClaimedDelivered
  /\ DoneInv

-----------------------------------------------------------------------------
(* The chunk lists.                                                        *)

(* No Id lies in two ranges of the list. *)
Apart(list) ==
  \A i, j \in DOMAIN list : i # j => \A r \in Id : ~ (InRange(r, list[i]) /\ InRange(r, list[j]))

(* Every Id of S lies in some range of the list. *)
Covers(list, S) == \A r \in S : \E i \in DOMAIN list : InRange(r, list[i])

(* A chunk is a range of Ids. *)
LEMMA IdRangeType ==
  ASSUME NEW mn, NEW mx, NEW n, Chunked(mn, mx, n), NEW i \in 0 .. n - 1
  PROVE  IdRange(mn, mx, n, i) \in ChunkRange
  <1>1. n \in Nat \ {0} /\ i \in 0 .. n /\ i + 1 \in 0 .. n
    BY ChunkingAssumption DEF Chunked
  <1>2. Boundary(mn, mx, n, i) \in Id /\ Boundary(mn, mx, n, i + 1) \in Id
    BY <1>1, BoundaryType
  <1>3. (i = n - 1) \in BOOLEAN
    OBVIOUS
  <1> QED
    BY <1>2, <1>3, Zenon DEF IdRange, ChunkRange

(* A list that BuildIdRangeWheres returns has at most n chunks, which are  *)
(* disjoint and cover [mn, mx].                                            *)
LEMMA BuildIdRangeWheresCorrect ==
  ASSUME NEW mn, NEW mx, NEW n, Chunked(mn, mx, n), mn < mx,
         NEW list \in BuildIdRangeWheres(mn, mx, n)
  PROVE  /\ \E m \in 1 .. n : list \in [1 .. m -> ChunkRange]
         /\ Apart(list)
         /\ Covers(list, { r \in Id : mn <= r /\ r <= mx })
  <1> DEFINE K == KeptChunks(mn, mx, n)
  <1>1. PICK pos \in OrderedListings(K, n) :
               list = [k \in DOMAIN pos |-> IdRange(mn, mx, n, pos[k])]
    BY DEF BuildIdRangeWheres
  <1>2. PICK m \in 1 .. n : pos \in [1 .. m -> K]
    BY <1>1 DEF OrderedListings
  <1>3. /\ \A k, l \in DOMAIN pos : k < l => pos[k] < pos[l]
        /\ \A s \in K : \E k \in DOMAIN pos : pos[k] = s
    BY <1>1 DEF OrderedListings
  <1>4. n \in Nat \ {0} /\ m \in Nat \ {0} /\ DOMAIN pos = 1 .. m /\ DOMAIN list = 1 .. m
    BY <1>1, <1>2, ChunkingAssumption DEF Chunked
  <1>5. \A k \in 1 .. m : pos[k] \in 0 .. n - 1 /\ list[k] = IdRange(mn, mx, n, pos[k])
    BY <1>1, <1>2, <1>4 DEF KeptChunks
  <1>6. list \in [1 .. m -> ChunkRange]
    <2>1. \A k \in 1 .. m : list[k] \in ChunkRange
      BY <1>5, IdRangeType
    <2> QED
      BY <1>1, <1>4, <2>1
  <1>7. Apart(list)
    <2> SUFFICES ASSUME NEW i \in 1 .. m, NEW j \in 1 .. m, i # j, NEW r \in Id
                 PROVE  ~ (InRange(r, list[i]) /\ InRange(r, list[j]))
      BY <1>4 DEF Apart
    <2>1. CASE i < j
      <3>1. pos[i] < pos[j]
        BY <2>1, <1>3, <1>4
      <3> QED
        BY <3>1, <1>5, ChunksDisjoint
    <2>2. CASE j < i
      <3>1. pos[j] < pos[i]
        BY <2>2, <1>3, <1>4
      <3> QED
        BY <3>1, <1>5, ChunksDisjoint
    <2> QED
      BY <2>1, <2>2, <1>4
  <1>8. Covers(list, { r \in Id : mn <= r /\ r <= mx })
    <2> SUFFICES ASSUME NEW r \in Id, mn <= r, r <= mx
                 PROVE  \E i \in 1 .. m : InRange(r, list[i])
      BY <1>4 DEF Covers
    <2>1. PICK s \in K : InRange(r, IdRange(mn, mx, n, s))
      BY ChunksExhaustive
    <2>2. PICK i \in 1 .. m : pos[i] = s
      BY <1>3, <1>4
    <2> QED
      BY <2>1, <2>2, <1>5
  <1> QED
    BY <1>6, <1>7, <1>8

(* The list InitGlobal installs: at most ChunkCap chunks, no Id in two of  *)
(* them, and every row that matches now in one of them.                    *)
LEMMA ChunkListCorrect ==
  ASSUME org \in SUBSET Id, NEW c \in Int, NEW list \in BulkChunkLists(ClampChunks(c))
  PROVE  /\ \E m \in 1 .. ChunkCap : list \in [1 .. m -> ChunkRange]
         /\ Apart(list)
         /\ Covers(list, org)
  <1> DEFINE n == ClampChunks(c)
  <1>1. n \in 1 .. ChunkCap
    BY ChunkingAssumption DEF ClampChunks
  <1>2. CASE list = <<WholeObject>>
    <2>1. Prefixes * SuffixSpan \in Nat \ {0}
      BY ChunkingAssumption
    <2>2. WholeObject \in ChunkRange
      <3>1. 0 \in Id /\ Prefixes * SuffixSpan - 1 \in Id
        BY <2>1 DEF Id
      <3> QED
        BY <3>1, Zenon DEF WholeObject, ChunkRange
    <2>3. \A r \in Id : InRange(r, WholeObject)
      <3> TAKE r \in Id
      <3>1. 0 <= r /\ (r < Prefixes * SuffixSpan - 1 \/ r = Prefixes * SuffixSpan - 1)
        BY <2>1 DEF Id
      <3> QED
        BY <3>1, Zenon DEF InRange, WholeObject
    <2>4. DOMAIN list = 1 .. 1 /\ list[1] = WholeObject /\ list \in [1 .. 1 -> ChunkRange]
      BY <1>2, <2>2
    <2>5. 1 \in 1 .. ChunkCap /\ 1 .. 1 = {1}
      BY ChunkingAssumption
    <2>6. Apart(list)
      BY <2>4, <2>5 DEF Apart
    <2>7. Covers(list, org)
      BY <2>3, <2>4, <2>5 DEF Covers
    <2> QED
      BY <2>4, <2>5, <2>6, <2>7
  <1>3. CASE list # <<WholeObject>>
    <2>1. PICK p \in MinMaxIds : list \in BuildIdRangeWheres(p[1], p[2], n)
      BY <1>3 DEF BulkChunkLists
    <2>2. /\ p[1] \in Id /\ p[2] \in Id /\ p[1] < p[2]
          /\ \A r \in org : r \in Id /\ p[1] <= r /\ r <= p[2]
      BY <2>1 DEF MinMaxIds
    <2>3. Chunked(p[1], p[2], n)
      BY <1>1, <2>2 DEF Chunked, Id
    <2>4. /\ \E m \in 1 .. n : list \in [1 .. m -> ChunkRange]
          /\ Apart(list)
          /\ Covers(list, { r \in Id : p[1] <= r /\ r <= p[2] })
      BY <2>1, <2>2, <2>3, BuildIdRangeWheresCorrect
    <2>5. Covers(list, org)
      BY <2>2, <2>4 DEF Covers
    <2>6. \A m \in 1 .. n : m \in 1 .. ChunkCap
      BY <1>1, ChunkingAssumption
    <2> QED
      BY <2>4, <2>5, <2>6
  <1> QED
    BY <1>2, <1>3

-----------------------------------------------------------------------------
(* Type correctness.                                                       *)

(* The type invariant holds initially. *)
LEMMA TypeInvInit == Init => TypeInv
  <1> SUFFICES ASSUME Init PROVE TypeInv
    OBVIOUS
  <1>1. NoRows \in [Id -> 0 .. PageBound] /\ NoRows \in [Id -> Nat]
    BY BulkAssumption DEF NoRows
  <1>2. <<>> \in Seq(ChunkRange) /\ Len(<<>>) <= ChunkCap
    BY ChunkingAssumption
  <1>3. TypeOK
    BY <1>1, <1>2, BulkAssumption DEF Init, TypeOK, Locations
  <1>4. PageInv
    BY DEF Init, PageInv, Streaming
  <1> QED
    BY <1>3, <1>4 DEF TypeInv

(* Every step preserves it. *)
LEMMA TypeInvStep == TypeInv /\ [Next]_vars => TypeInv'
  <1> SUFFICES ASSUME TypeInv, [Next]_vars PROVE TypeInv'
    OBVIOUS
  <1> USE DEF TypeInv
  <1>1. CASE InitGlobal
    <2>1. PICK A \in SUBSET Threads :
            active' = A /\ pc' = [t \in Threads |-> IF t \in A THEN "claim" ELSE "off"]
      BY <1>1 DEF InitGlobal
    <2>2. PICK c \in ChunkSettings : chunks' \in BulkChunkLists(ClampChunks(c))
      BY <1>1 DEF InitGlobal
    <2>3. c \in Int /\ org \in SUBSET Id
      BY BulkAssumption DEF TypeOK
    <2>4. PICK m \in 1 .. ChunkCap : chunks' \in [1 .. m -> ChunkRange]
      BY <2>2, <2>3, ChunkListCorrect
    <2>7. chunks' \in Seq(ChunkRange) /\ Len(chunks') <= ChunkCap
      BY <2>4, ChunkingAssumption
    <2>5. TypeOK'
      BY <1>1, <2>1, <2>7 DEF InitGlobal, TypeOK, Locations, orgVars
    <2>6. PageInv'
      BY <2>1 DEF PageInv, Streaming
    <2> QED
      BY <2>5, <2>6
  <1>2. ASSUME NEW t \in Threads, Step(t) \/ RequestFails(t)
        PROVE  TypeInv'
    <2> USE DEF orgVars, globalVars, Goto
    <2>a. ASSUME PublishPages(t)
          PROVE  /\ pages_reported' \in Nat /\ ticket' \in [Threads -> Nat]
                 /\ next_locator' \in [Threads -> 0 .. PageBound]
      BY <2>a, BulkAssumption DEF PublishPages, TypeOK
    <2>1. CASE ClaimChunk(t)
      <3>4. TypeOK'
        <4>1. pc' \in [Threads -> Locations] /\ idx' \in [Threads -> Nat]
          BY <2>1 DEF ClaimChunk, TypeOK, Locations
        <4>2. next_chunk' \in Nat
          BY <2>1 DEF ClaimChunk, TypeOK
        <4> QED
          BY <2>1, <4>1, <4>2 DEF ClaimChunk, TypeOK
      <3>5. PageInv'
        BY <2>1 DEF ClaimChunk, TypeOK, PageInv, Streaming
      <3> QED
        BY <3>4, <3>5
    <2>2. CASE PassQuotaGuard(t)
      BY <2>2 DEF PassQuotaGuard, TypeOK, Locations, PageInv, Streaming
    <2>3. CASE StartJob(t)
      <3>1. PICK m \in 1 .. PageBound : \E f \in JobResults(chunks[idx[t] + 1], m) :
              job' = [job EXCEPT ![t] = f] /\ last_page' = [last_page EXCEPT ![t] = m]
        BY <2>3 DEF StartJob
      <3>3. PICK f \in JobResults(chunks[idx[t] + 1], m) :
              job' = [job EXCEPT ![t] = f] /\ last_page' = [last_page EXCEPT ![t] = m]
        BY <3>1
      <3>2. f \in [Id -> 0 .. PageBound]
        BY <3>3, BulkAssumption DEF JobResults
      <3>4. TypeOK'
        <4>1. /\ pc' \in [Threads -> Locations]
              /\ seen' \in [Threads -> SUBSET (1 .. PageBound)]
              /\ chunk_done' \in [Threads -> BOOLEAN]
          BY <2>3 DEF StartJob, TypeOK, Locations
        <4>2. /\ last_page' \in [Threads -> 0 .. PageBound]
              /\ page_no' \in [Threads -> 1 .. PageBound]
              /\ next_locator' \in [Threads -> 0 .. PageBound]
          BY <2>3, <3>3, BulkAssumption DEF StartJob, TypeOK
        <4>3. job' \in [Threads -> [Id -> 0 .. PageBound]]
          BY <3>3, <3>2 DEF TypeOK
        <4> QED
          BY <2>3, <4>1, <4>2, <4>3 DEF StartJob, TypeOK
      <3>5. PageInv'
        BY <2>3, <3>3, BulkAssumption DEF StartJob, TypeOK, PageInv, Streaming
      <3> QED
        BY <3>4, <3>5
    <2>4. CASE FetchResultPage(t)
      <3>1. /\ page_no[t] \in 1 .. PageBound /\ last_page[t] \in 0 .. PageBound
            /\ page_no[t] <= last_page[t] /\ seen[t] \subseteq 1 .. page_no[t]
        BY <2>4 DEF FetchResultPage, TypeOK, PageInv, Streaming
      <3>2. PICK loc \in seen[t] \cup {IF page_no[t] = last_page[t] THEN 0 ELSE page_no[t] + 1} :
              next_locator' = [next_locator EXCEPT ![t] = loc]
        BY <2>4 DEF FetchResultPage
      <3>3. /\ loc \in 0 .. PageBound /\ loc <= last_page[t]
            /\ loc \in {0, page_no[t] + 1} \cup seen[t]
        BY <3>1, <3>2, BulkAssumption
      <3>4. TypeOK'
        BY <2>4, <3>2, <3>3 DEF FetchResultPage, PageRows, TypeOK, Locations
      <3>5. PageInv'
        BY <2>4, <3>1, <3>2, <3>3 DEF FetchResultPage, TypeOK, PageInv, Streaming
      <3> QED
        BY <3>4, <3>5
    <2>5. CASE FollowLocator(t)
      <3>1. /\ page_no[t] \in 1 .. PageBound /\ next_locator[t] = page_no[t] + 1
            /\ next_locator[t] <= last_page[t] /\ last_page[t] \in 0 .. PageBound
            /\ seen[t] \subseteq 1 .. page_no[t]
        BY <2>5 DEF FollowLocator, TypeOK, PageInv, Streaming
      <3>4. TypeOK'
        <4>1. pc' \in [Threads -> Locations]
          BY <2>5 DEF FollowLocator, AfterPage, TypeOK, Locations
        <4>2. /\ seen' \in [Threads -> SUBSET (1 .. PageBound)]
              /\ page_no' \in [Threads -> 1 .. PageBound]
          BY <2>5, <3>1, BulkAssumption DEF FollowLocator, TypeOK
        <4> QED
          BY <2>5, <4>1, <4>2, <2>a DEF FollowLocator, TypeOK
      <3>5. PageInv'
        <4> SUFFICES ASSUME NEW u \in Threads, Streaming(u)'
                     PROVE  /\ page_no'[u] <= last_page'[u]
                            /\ seen'[u] \subseteq 1 .. page_no'[u]
                            /\ pc'[u] # "publish" \/ u # t
                            /\ u # t => Streaming(u) /\ UNCHANGED <<page_no[u], seen[u], pc[u]>>
          BY <2>5 DEF FollowLocator, PublishPages, TypeOK, PageInv, Streaming
        <4>1. CASE u = t
          BY <2>5, <3>1, <4>1, BulkAssumption DEF FollowLocator, AfterPage, TypeOK
        <4>2. CASE u # t
          BY <2>5, <4>2 DEF FollowLocator, TypeOK, PageInv, Streaming
        <4> QED
          BY <4>1, <4>2
      <3> QED
        BY <3>4, <3>5
    <2>6. CASE RefuseLocator(t)
      <3>4. TypeOK'
        <4>1. pc' \in [Threads -> Locations] /\ PublishPages(t)
          BY <2>6 DEF RefuseLocator, TypeOK, Locations
        <4> QED
          BY <2>6, <4>1, <2>a DEF RefuseLocator, TypeOK
      <3>5. PageInv'
        BY <2>6 DEF RefuseLocator, PublishPages, TypeOK, PageInv, Streaming
      <3> QED
        BY <3>4, <3>5
    <2>7. CASE FinishChunk(t)
      BY <2>7 DEF FinishChunk, AfterPage, PublishPages, TypeOK, Locations, PageInv, Streaming
    <2>8. CASE ReleaseChunk(t)
      BY <2>8 DEF ReleaseChunk, TypeOK, Locations, PageInv, Streaming
    <2>9. CASE EmitVector(t)
      BY <2>9 DEF EmitVector, TypeOK, Locations, PageInv, Streaming
    <2>10. CASE RequestFails(t)
      BY <2>10 DEF RequestFails, Throw, TypeOK, Locations, PageInv, Streaming
    <2> QED
      BY <1>2, <2>1, <2>2, <2>3, <2>4, <2>5, <2>6, <2>7, <2>8, <2>9, <2>10 DEF Step
  <1>3. ASSUME NEW r \in Id, Arrive(r) \/ Leave(r)
        PROVE  TypeInv'
    <2> USE DEF Arrive, Leave, globalVars, localVars
    <2>1. TypeOK'
      <3>1. churn' \in 0 .. ChurnBound
        BY <1>3, BulkAssumption DEF TypeOK
      <3>2. org' \in SUBSET Id /\ stable' \in SUBSET Id /\ matched' \in SUBSET Id
        BY <1>3 DEF TypeOK
      <3>3. UNCHANGED <<globalVars, localVars, out>>
        BY <1>3
      <3> QED
        BY <3>1, <3>2, <3>3 DEF TypeOK
    <2>2. PageInv'
      BY <1>3 DEF PageInv, Streaming
    <2> QED
      BY <2>1, <2>2
  <1>4. CASE UNCHANGED vars
    BY <1>4 DEF vars, orgVars, globalVars, localVars, TypeOK, PageInv, Streaming
  <1> QED
    BY <1>1, <1>2, <1>3, <1>4 DEF Next, Idle

(***************************************************************************)
(* A scan on the Bulk path keeps every variable in its type: no chunk      *)
(* beyond the cap, no page beyond the last one of a job, whatever the      *)
(* number of threads, chunks, pages and rows.                              *)
(***************************************************************************)
THEOREM TypeCorrect == Spec => []TypeOK
  <1>1. Spec => []TypeInv
    BY TypeInvInit, TypeInvStep, PTL DEF Spec
  <1>2. TypeInv => TypeOK
    BY DEF TypeInv
  <1> QED
    BY <1>1, <1>2, PTL

-----------------------------------------------------------------------------
(* No row is handed out twice.                                             *)

(* A step of thread t leaves the chunk list and the other threads alone. *)
LEMMA ThreadFrame ==
  ASSUME TypeOK, NEW t \in Threads, Step(t) \/ RequestFails(t)
  PROVE  /\ UNCHANGED <<org, stable, matched, churn, chunks, active>>
         /\ pc[t] # "off"
         /\ \A u \in Threads \ {t} :
              /\ pc'[u] = pc[u] /\ idx'[u] = idx[u] /\ job'[u] = job[u]
              /\ last_page'[u] = last_page[u] /\ page_no'[u] = page_no[u]
              /\ next_locator'[u] = next_locator[u] /\ seen'[u] = seen[u]
              /\ chunk_done'[u] = chunk_done[u] /\ page'[u] = page[u]
  <1> USE DEF orgVars, globalVars, Goto, TypeOK
  <1>1. CASE ClaimChunk(t)
    BY <1>1 DEF ClaimChunk
  <1>2. CASE PassQuotaGuard(t)
    BY <1>2 DEF PassQuotaGuard
  <1>3. CASE StartJob(t)
    BY <1>3 DEF StartJob
  <1>4. CASE FetchResultPage(t)
    BY <1>4 DEF FetchResultPage
  <1>5. CASE FollowLocator(t)
    BY <1>5 DEF FollowLocator, PublishPages
  <1>6. CASE RefuseLocator(t)
    BY <1>6 DEF RefuseLocator, PublishPages
  <1>7. CASE FinishChunk(t)
    BY <1>7 DEF FinishChunk, PublishPages
  <1>8. CASE ReleaseChunk(t)
    BY <1>8 DEF ReleaseChunk
  <1>9. CASE EmitVector(t)
    BY <1>9 DEF EmitVector
  <1>10. CASE RequestFails(t)
    BY <1>10 DEF RequestFails, Throw
  <1> QED
    BY <1>1, <1>2, <1>3, <1>4, <1>5, <1>6, <1>7, <1>8, <1>9, <1>10 DEF Step

(* A step that neither claims a chunk nor hands out rows takes no new      *)
(* chunk and puts no row back among the pending ones.                      *)
LEMMA QuietStep ==
  ASSUME TypeInv, JobInv, NEW t \in Threads, Step(t) \/ RequestFails(t),
         ~ ClaimChunk(t), ~ EmitVector(t)
  PROVE  /\ UNCHANGED <<next_chunk, idx, out>>
         /\ \A u \in Threads :
              /\ Holding(u)' => Holding(u)
              /\ Working(u)' => Working(u)
              /\ Working(u)' => \A r \in Id : Pending(u, r)' => Pending(u, r)
  <1> DEFINE Goal == /\ UNCHANGED <<next_chunk, idx, out>>
                     /\ Holding(t) /\ (Holding(t)' => pc'[t] # "done")
                     /\ Working(t)' => /\ Working(t)
                                       /\ \A r \in Id : Pending(t, r)' => Pending(t, r)
  <1> USE DEF TypeInv, TypeOK, globalVars, Goto, Holding, Working, Pending
  <1>1. Goal
    <2>2. CASE PassQuotaGuard(t)
      BY <2>2 DEF PassQuotaGuard
    <2>3. CASE StartJob(t)
      BY <2>3 DEF StartJob
    <2>4. CASE FetchResultPage(t)
      BY <2>4 DEF FetchResultPage
    <2>5. CASE FollowLocator(t)
      <3>1. /\ next_locator[t] = page_no[t] + 1
            /\ page_no[t] \in Nat /\ \A r \in Id : job[t][r] \in Nat
            /\ page[t] = PageRows(t, page_no[t]) /\ pc[t] = "publish"
        BY <2>5, BulkAssumption DEF FollowLocator, PageInv, Streaming, JobInv, JobOf
      <3>2. /\ page_no'[t] = page_no[t] + 1 /\ pc'[t] \in {"emit", "advance"}
            /\ UNCHANGED <<next_chunk, idx, out, job, page, chunk_done>>
        BY <2>5, <3>1 DEF FollowLocator, AfterPage
      <3> QED
        BY <3>1, <3>2 DEF PageRows
    <2>6. CASE RefuseLocator(t)
      BY <2>6 DEF RefuseLocator
    <2>7. CASE FinishChunk(t)
      <3>1. /\ \A r \in Id : job[t][r] \in Nat
            /\ page[t] = PageRows(t, page_no[t]) /\ pc[t] = "publish"
            /\ page_no[t] \in Nat
        BY <2>7, BulkAssumption DEF FinishChunk, Streaming, JobInv, JobOf
      <3>2. /\ pc'[t] \in {"emit", "claim"} /\ chunk_done'[t]
            /\ UNCHANGED <<next_chunk, idx, out, job, page, page_no>>
        BY <2>7 DEF FinishChunk, AfterPage
      <3> QED
        BY <3>1, <3>2 DEF PageRows
    <2>8. CASE ReleaseChunk(t)
      BY <2>8 DEF ReleaseChunk
    <2>10. CASE RequestFails(t)
      BY <2>10 DEF RequestFails, Throw
    <2> QED
      BY <2>2, <2>3, <2>4, <2>5, <2>6, <2>7, <2>8, <2>10 DEF Step
  <1>2. \A u \in Threads \ {t} :
          /\ pc'[u] = pc[u] /\ job'[u] = job[u] /\ page_no'[u] = page_no[u]
          /\ chunk_done'[u] = chunk_done[u] /\ page'[u] = page[u]
    BY ThreadFrame
  <1> DEFINE Quiet(u) == /\ Holding(u)' => Holding(u)
                         /\ Working(u)' => Working(u)
                         /\ Working(u)' => \A r \in Id : Pending(u, r)' => Pending(u, r)
  <1>3. ASSUME NEW u \in Threads \ {t} PROVE Quiet(u)
    BY <1>2, Zenon DEF Holding, Working, Pending
  <1>4. Quiet(t)
    BY <1>1, Zenon
  <1> HIDE DEF Quiet
  <1>5. \A u \in Threads : Quiet(u)
    BY <1>3, <1>4, Zenon
  <1> QED
    BY <1>1, <1>5, Zenon DEF Quiet

(* JobInv is preserved by every step of a thread. *)
LEMMA JobInvStep ==
  ASSUME TypeInv, JobInv, NEW t \in Threads, Step(t) \/ RequestFails(t)
  PROVE  JobInv'
  <1> USE DEF TypeInv, TypeOK, globalVars, Goto
  <1>1. chunks' = chunks
    BY ThreadFrame
  <1>2. ASSUME NEW u \in Threads, u # t
        PROVE  JobOf(u)'
    <2>1. /\ pc'[u] = pc[u] /\ idx'[u] = idx[u] /\ job'[u] = job[u] /\ page_no'[u] = page_no[u]
          /\ chunk_done'[u] = chunk_done[u] /\ page'[u] = page[u]
      BY <1>2, ThreadFrame
    <2> QED
      BY <1>1, <2>1 DEF JobInv, JobOf, Streaming, RowOf, PageRows
  <1>3. JobOf(t)'
    <2>1. CASE pc'[t] \notin {"advance", "publish", "emit"}
      BY <2>1 DEF JobOf, Streaming
    <2>3. CASE StartJob(t)
      <3>1. PICK m \in 1 .. PageBound : \E f \in JobResults(chunks[idx[t] + 1], m) :
              job' = [job EXCEPT ![t] = f]
        BY <2>3 DEF StartJob
      <3>2. PICK f \in JobResults(chunks[idx[t] + 1], m) : job' = [job EXCEPT ![t] = f]
        BY <3>1
      <3>3. \A r \in Id : f[r] # 0 => InRange(r, chunks[idx[t] + 1])
        BY <3>2 DEF JobResults, JobRows
      <3> QED
        BY <2>3, <3>2, <3>3, <1>1 DEF StartJob, JobOf, Streaming, RowOf
    <2>4. CASE FetchResultPage(t)
      BY <2>4, <1>1 DEF FetchResultPage, JobInv, JobOf, Streaming, RowOf, PageRows
    <2>5. CASE FollowLocator(t)
      <3>1. /\ next_locator[t] = page_no[t] + 1 /\ page_no[t] \in Nat \ {0}
            /\ page[t] = PageRows(t, page_no[t]) /\ pc[t] = "publish"
        BY <2>5, BulkAssumption DEF FollowLocator, PageInv, Streaming, JobInv, JobOf
      <3>2. /\ page_no'[t] = page_no[t] + 1 /\ pc'[t] \in {"emit", "advance"}
            /\ UNCHANGED <<idx, job, page, chunk_done>>
        BY <2>5, <3>1 DEF FollowLocator, AfterPage
      <3> QED
        BY <3>1, <3>2, <1>1 DEF PageRows, JobInv, JobOf, Streaming, RowOf
    <2>7. CASE FinishChunk(t)
      <3>1. page[t] = PageRows(t, page_no[t]) /\ pc[t] = "publish" /\ page_no[t] \in Nat \ {0}
        BY <2>7, BulkAssumption DEF FinishChunk, Streaming, JobInv, JobOf
      <3>2. /\ pc'[t] \in {"emit", "claim"} /\ chunk_done'[t]
            /\ UNCHANGED <<idx, job, page, page_no>>
        BY <2>7 DEF FinishChunk, AfterPage
      <3> QED
        BY <3>1, <3>2, <1>1 DEF PageRows, JobInv, JobOf, Streaming, RowOf
    <2>9. CASE EmitVector(t)
      <3>1. /\ pc[t] = "emit" /\ pc'[t] \in {"emit", "advance"} /\ page'[t] \subseteq page[t]
            /\ UNCHANGED <<idx, job, page_no, chunk_done>>
        BY <2>9 DEF EmitVector
      <3> QED
        BY <3>1, <1>1 DEF JobInv, JobOf, Streaming, RowOf
    <2>10. CASE ClaimChunk(t) \/ PassQuotaGuard(t) \/ RefuseLocator(t) \/ ReleaseChunk(t)
                \/ RequestFails(t)
      <3>1. pc'[t] \in {"done", "gate", "start", "failed", "claim"}
        BY <2>10 DEF ClaimChunk, PassQuotaGuard, RefuseLocator, ReleaseChunk, RequestFails, Throw
      <3> QED
        BY <3>1, <2>1
    <2> QED
      BY <2>3, <2>4, <2>5, <2>7, <2>9, <2>10 DEF Step
  <1> QED
    BY <1>2, <1>3 DEF JobInv

(* The rows a call hands out belong to the thread's chunk and are new. *)
LEMMA EmitFresh ==
  ASSUME OnceInv, NEW t \in Threads, EmitVector(t)
  PROVE  \E S \in SUBSET page[t] :
           /\ page' = [page EXCEPT ![t] = @ \ S]
           /\ pc' = [pc EXCEPT ![t] = IF S = page[t] THEN "advance" ELSE "emit"]
           /\ out' = [r \in Id |-> IF r \in S THEN out[r] + 1 ELSE out[r]]
           /\ \A r \in S : r \in Id /\ RowOf(r, idx[t] + 1) /\ out[r] = 0
  <1>1. PICK S \in SUBSET page[t] :
          /\ page' = [page EXCEPT ![t] = @ \ S]
          /\ pc' = [pc EXCEPT ![t] = IF S = page[t] THEN "advance" ELSE "emit"]
          /\ out' = [r \in Id |-> IF r \in S THEN out[r] + 1 ELSE out[r]]
    BY DEF EmitVector
  <1>2. pc[t] = "emit" /\ page[t] \subseteq Id
    BY DEF EmitVector, OnceInv, TypeInv, TypeOK
  <1>3. \A r \in page[t] : RowOf(r, idx[t] + 1)
    BY <1>2 DEF OnceInv, JobInv, JobOf, Streaming
  <1>4. \A r \in page[t] : out[r] = 0
    BY <1>2, <1>3 DEF OnceInv, PendingFresh, Pending, Working
  <1> QED
    BY <1>1, <1>2, <1>3, <1>4

(* The rest of OnceInv is preserved by every step of a thread. *)
LEMMA OnceThreadStep ==
  ASSUME OnceInv, NEW t \in Threads, Step(t) \/ RequestFails(t)
  PROVE  BeforeInit' /\ ChunksApart' /\ ClaimsApart' /\ UnclaimedFresh' /\ PendingFresh'
         /\ AtMostOnce'
  <1> USE DEF OnceInv, TypeInv
  <1>1. chunks' = chunks /\ active' = active /\ active # {} /\ next_chunk \in Nat
    BY ThreadFrame DEF BeforeInit, TypeOK
  <1>2. BeforeInit' /\ ChunksApart'
    BY <1>1 DEF BeforeInit, ChunksApart, RowOf
  <1>6. DOMAIN chunks = 1 .. Len(chunks) /\ Len(chunks) \in Nat
    BY DEF TypeOK
  <1>7. \A u \in Threads : idx[u] \in Nat
    BY DEF TypeOK
  <1>3. CASE ~ ClaimChunk(t) /\ ~ EmitVector(t)
    <2>1. /\ UNCHANGED <<next_chunk, idx, out>>
          /\ \A u \in Threads :
               /\ Holding(u)' => Holding(u)
               /\ Working(u)' => Working(u)
               /\ Working(u)' => \A r \in Id : Pending(u, r)' => Pending(u, r)
      BY <1>3, QuietStep
    <2>2. ClaimsApart'
      BY <1>1, <2>1 DEF ClaimsApart
    <2>3. UnclaimedFresh' /\ AtMostOnce'
      BY <1>1, <2>1 DEF UnclaimedFresh, AtMostOnce, RowOf
    <2>4. PendingFresh'
      BY <1>1, <2>1 DEF PendingFresh, RowOf
    <2> QED
      BY <1>2, <2>2, <2>3, <2>4
  <1>4. CASE ClaimChunk(t)
    <2>1. /\ next_chunk' = next_chunk + 1 /\ out' = out
          /\ UNCHANGED <<job, page, page_no, chunk_done>>
      BY <1>4 DEF ClaimChunk
    <2>2. \A u \in Threads \ {t} : pc'[u] = pc[u] /\ idx'[u] = idx[u]
      BY ThreadFrame
    <2>3. UnclaimedFresh' /\ AtMostOnce'
      BY <1>1, <1>6, <2>1 DEF UnclaimedFresh, AtMostOnce, RowOf
    <2>4. CASE next_chunk >= Len(chunks)
      <3>1. pc'[t] = "done" /\ idx'[t] = idx[t]
        BY <1>4, <2>4 DEF ClaimChunk, TypeOK
      <3>2. \A u \in Threads : /\ Holding(u)' => u # t /\ Holding(u)
                               /\ Working(u)' => u # t /\ Working(u)
        BY <2>2, <3>1 DEF Holding, Working
      <3>3. ClaimsApart'
        BY <1>1, <1>7, <2>1, <2>2, <3>2 DEF ClaimsApart
      <3>4. PendingFresh'
        BY <1>1, <2>1, <2>2, <3>2 DEF PendingFresh, Working, Pending, RowOf
      <3> QED
        BY <1>2, <2>3, <3>3, <3>4
    <2>5. CASE next_chunk < Len(chunks)
      <3>1. pc'[t] = "gate" /\ idx'[t] = next_chunk
        BY <1>1, <1>4, <2>5 DEF ClaimChunk, TypeOK
      <3>2. next_chunk + 1 \in DOMAIN chunks
        BY <1>1, <2>5 DEF TypeOK
      <3>3. \A u \in Threads \ {t} : /\ Holding(u)' => Holding(u)
                                     /\ Working(u)' => Working(u) /\ Holding(u)
        BY <2>2 DEF Holding, Working
      <3>4. ClaimsApart'
        <4>1. \A u \in Threads :
                Holding(u)' => idx'[u] + 1 \in DOMAIN chunks /\ idx'[u] < next_chunk'
          BY <1>1, <1>7, <2>1, <2>2, <3>1, <3>2, <3>3 DEF ClaimsApart
        <4>2. ASSUME NEW u \in Threads, NEW v \in Threads, Working(u)', Working(v)', u # v
              PROVE  idx'[u] # idx'[v]
          BY <1>1, <1>7, <2>2, <3>1, <3>3, <4>2 DEF ClaimsApart
        <4> QED
          BY <1>1, <4>1, <4>2 DEF ClaimsApart
      <3>5. PendingFresh'
        <4> SUFFICES ASSUME NEW u \in Threads, Working(u)', NEW r \in Id,
                            InRange(r, chunks[idx'[u] + 1]), Pending(u, r)'
                     PROVE  out[r] = 0
          BY <1>1, <2>1 DEF PendingFresh, RowOf
        <4>1. CASE u = t
          BY <1>1, <3>1, <3>2, <4>1 DEF UnclaimedFresh, RowOf
        <4>2. CASE u # t
          BY <2>1, <2>2, <3>3, <4>2 DEF PendingFresh, Pending, RowOf
        <4> QED
          BY <4>1, <4>2
      <3> QED
        BY <1>2, <2>3, <3>4, <3>5
    <2> QED
      BY <1>1, <2>4, <2>5 DEF TypeOK
  <1>5. CASE EmitVector(t)
    <2>1. PICK S \in SUBSET page[t] :
            /\ page' = [page EXCEPT ![t] = @ \ S]
            /\ pc' = [pc EXCEPT ![t] = IF S = page[t] THEN "advance" ELSE "emit"]
            /\ out' = [r \in Id |-> IF r \in S THEN out[r] + 1 ELSE out[r]]
            /\ \A r \in S : r \in Id /\ RowOf(r, idx[t] + 1) /\ out[r] = 0
      BY <1>5, EmitFresh
    <2>2. /\ pc[t] = "emit" /\ UNCHANGED <<next_chunk, idx, job, page_no, chunk_done>>
      BY <1>5 DEF EmitVector, globalVars
    <2>3. /\ \A r \in S : r \in Id /\ RowOf(r, idx[t] + 1) /\ out[r] = 0
          /\ idx[t] + 1 \in DOMAIN chunks /\ idx[t] < next_chunk /\ idx[t] \in Nat
          /\ Working(t)
      BY <1>7, <2>1, <2>2 DEF Working, ClaimsApart, Holding
    <2>4. AtMostOnce'
      BY <2>1, <2>3 DEF AtMostOnce, TypeOK
    <2>5. \A u \in Threads : /\ Holding(u)' => Holding(u)
                             /\ Working(u)' => Working(u)
      BY <2>1, <2>2 DEF Holding, Working, TypeOK
    <2>6. ClaimsApart'
      BY <1>1, <2>2, <2>5 DEF ClaimsApart
    <2>7. \A i \in DOMAIN chunks : i # idx[t] + 1 => \A r \in Id : RowOf(r, i) => out'[r] = out[r]
      BY <2>1, <2>3 DEF ChunksApart
    <2>8. UnclaimedFresh'
      BY <1>1, <2>2, <2>3, <2>7 DEF UnclaimedFresh, RowOf
    <2>9. PendingFresh'
      <3> SUFFICES ASSUME NEW u \in Threads, Working(u)', NEW r \in Id,
                          RowOf(r, idx[u] + 1), Pending(u, r)'
                   PROVE  out'[r] = 0
        BY <1>1, <2>2 DEF PendingFresh, RowOf
      <3>1. CASE u = t
        <4>1. Pending(t, r) /\ r \notin S
          BY <2>1, <2>2, <3>1 DEF Pending, TypeOK, JobInv, JobOf, Streaming
        <4>2. out[r] = 0
          BY <2>3, <3>1, <4>1 DEF PendingFresh
        <4> QED
          BY <2>1, <4>1, <4>2
      <3>2. CASE u # t
        <4>1. Working(u) /\ Pending(u, r)
          BY <2>1, <2>2, <2>5, <3>2 DEF Pending, TypeOK
        <4>2. idx[u] # idx[t] /\ idx[u] + 1 \in DOMAIN chunks /\ idx[u] \in Nat
          BY <2>3, <3>2, <4>1 DEF ClaimsApart, Holding, TypeOK
        <4> QED
          BY <2>3, <2>7, <4>1, <4>2 DEF PendingFresh
      <3> QED
        BY <3>1, <3>2
    <2> QED
      BY <1>2, <2>4, <2>6, <2>8, <2>9
  <1> QED
    BY <1>3, <1>4, <1>5

(* The invariant behind AtMostOnce is inductive. *)
LEMMA OnceInvInit == Init => OnceInv
  <1> SUFFICES ASSUME Init PROVE OnceInv
    OBVIOUS
  <1>1. TypeInv
    BY TypeInvInit
  <1>2. AtMostOnce
    BY DEF Init, NoRows, AtMostOnce
  <1>3. DOMAIN chunks = {}
    BY DEF Init
  <1>4. ChunksApart /\ UnclaimedFresh
    BY <1>3 DEF ChunksApart, UnclaimedFresh
  <1>5. BeforeInit /\ ClaimsApart /\ JobInv /\ PendingFresh
    BY DEF Init, BeforeInit, ClaimsApart, JobInv, JobOf, PendingFresh, Working, Holding, Streaming
  <1> QED
    BY <1>1, <1>2, <1>4, <1>5 DEF OnceInv

LEMMA OnceInvStep == OnceInv /\ [Next]_vars => OnceInv'
  <1> SUFFICES ASSUME OnceInv, [Next]_vars PROVE OnceInv'
    OBVIOUS
  <1> USE DEF OnceInv
  <1>0. TypeInv'
    BY TypeInvStep
  <1>1. CASE InitGlobal
    <2>1. PICK c \in ChunkSettings : chunks' \in BulkChunkLists(ClampChunks(c))
      BY <1>1 DEF InitGlobal
    <2>2. c \in Int /\ org \in SUBSET Id
      BY BulkAssumption DEF TypeInv, TypeOK
    <2>3. Apart(chunks')
      BY <2>1, <2>2, ChunkListCorrect
    <2>4. ChunksApart'
      BY <2>3 DEF Apart, ChunksApart, RowOf
    <2>5. /\ active' # {} /\ next_chunk' = 0 /\ out' = NoRows
          /\ \A t \in Threads : pc'[t] \in {"claim", "off"}
      BY <1>1 DEF InitGlobal, BeforeInit
    <2>6. BeforeInit' /\ ClaimsApart' /\ JobInv' /\ PendingFresh'
      BY <2>5 DEF BeforeInit, ClaimsApart, JobInv, JobOf, PendingFresh, Working, Holding, Streaming
    <2>7. UnclaimedFresh' /\ AtMostOnce'
      BY <2>5 DEF UnclaimedFresh, AtMostOnce, NoRows
    <2> QED
      BY <1>0, <2>4, <2>6, <2>7
  <1>2. ASSUME NEW t \in Threads, Step(t) \/ RequestFails(t)
        PROVE  OnceInv'
    BY <1>0, <1>2, OnceThreadStep, JobInvStep
  <1>3. ASSUME UNCHANGED <<globalVars, localVars, out>>
        PROVE  OnceInv'
    <2> USE <1>3 DEF globalVars, localVars
    <2>1. BeforeInit' /\ ChunksApart' /\ ClaimsApart'
      BY DEF BeforeInit, ChunksApart, ClaimsApart, Holding, Working, RowOf
    <2>2. JobInv'
      BY DEF JobInv, JobOf, Streaming, RowOf, PageRows
    <2>3. UnclaimedFresh' /\ PendingFresh' /\ AtMostOnce'
      BY DEF UnclaimedFresh, PendingFresh, AtMostOnce, Working, Pending, RowOf
    <2> QED
      BY <1>0, <2>1, <2>2, <2>3
  <1> QED
    BY <1>1, <1>2, <1>3 DEF Next, Idle, Arrive, Leave, vars

(***************************************************************************)
(* No row reaches DuckDB twice, for every number of threads, chunks, pages *)
(* and rows, every churn of the org and every locator the server repeats.  *)
(***************************************************************************)
THEOREM NoRowTwice == Spec => []AtMostOnce
  <1>1. Spec => []OnceInv
    BY OnceInvInit, OnceInvStep, PTL DEF Spec
  <1>2. OnceInv => AtMostOnce
    BY DEF OnceInv
  <1> QED
    BY <1>1, <1>2, PTL

-----------------------------------------------------------------------------
(* No row is lost.                                                         *)

(* A row that was handed out stays so; rows of other chunks are left alone. *)
LEMMA OutStep ==
  ASSUME OnceInv, NEW t \in Threads, Step(t) \/ RequestFails(t)
  PROVE  /\ \A r \in Id : out[r] = 1 => out'[r] = 1
         /\ \A u \in Threads \ {t} : Working(u) =>
              \A r \in Id : RowOf(r, idx[u] + 1) => out'[r] = out[r]
  <1> USE DEF OnceInv, TypeInv
  <1>1. CASE EmitVector(t)
    <2>1. PICK S \in SUBSET page[t] :
            /\ out' = [r \in Id |-> IF r \in S THEN out[r] + 1 ELSE out[r]]
            /\ \A r \in S : r \in Id /\ RowOf(r, idx[t] + 1) /\ out[r] = 0
      BY <1>1, EmitFresh
    <2>2. Working(t) /\ \A u \in Threads : idx[u] \in Nat
      BY <1>1 DEF EmitVector, Working, TypeOK
    <2>3. ASSUME NEW u \in Threads \ {t}, Working(u), NEW r \in Id, RowOf(r, idx[u] + 1)
          PROVE  r \notin S
      <3>1. /\ idx[u] # idx[t] /\ idx[u] + 1 \in DOMAIN chunks /\ idx[t] + 1 \in DOMAIN chunks
        BY <2>2, <2>3 DEF ClaimsApart, Holding
      <3>2. idx[u] + 1 # idx[t] + 1
        BY <2>2, <3>1
      <3> QED
        BY <2>1, <2>3, <3>1, <3>2 DEF ChunksApart
    <2> QED
      BY <2>1, <2>3
  <1>2. CASE ClaimChunk(t)
    BY <1>2 DEF ClaimChunk
  <1>3. CASE ~ ClaimChunk(t) /\ ~ EmitVector(t)
    BY <1>3, QuietStep
  <1> QED
    BY <1>1, <1>2, <1>3

(* A thread's step keeps what it owes, and what the others owe. *)
LEMMA JobCoversStep ==
  ASSUME CoverInv, NEW t \in Threads, Step(t) \/ RequestFails(t)
  PROVE  JobCovers'
  <1> USE DEF CoverInv, OnceInv, TypeInv, Goto
  <1>1. chunks' = chunks /\ stable' = stable /\ stable \in SUBSET Id /\ stable \subseteq org
    BY ThreadFrame DEF TypeOK, ChunksCover
  <1>2. ASSUME NEW u \in Threads, u # t
        PROVE  JobCoversOf(u)'
    <2>1. /\ pc'[u] = pc[u] /\ idx'[u] = idx[u] /\ job'[u] = job[u] /\ page_no'[u] = page_no[u]
          /\ chunk_done'[u] = chunk_done[u] /\ page'[u] = page[u]
          /\ last_page'[u] = last_page[u] /\ next_locator'[u] = next_locator[u]
      BY <1>2, ThreadFrame
    <2>2. SUFFICES ASSUME Streaming(u) PROVE JobCoversOf(u)'
      BY <2>1 DEF JobCoversOf, Streaming
    <2>3. \A r \in Id : RowOf(r, idx[u] + 1) => out'[r] = out[r]
      BY <1>2, <2>2, OutStep DEF Working, Streaming
    <2> QED
      BY <1>1, <2>1, <2>2, <2>3 DEF JobCovers, JobCoversOf, Streaming, RowOf, Pending
  <1>3. JobCoversOf(t)'
    <2>1. CASE pc'[t] \notin {"advance", "publish", "emit"}
      BY <2>1 DEF JobCoversOf, Streaming
    <2>3. CASE StartJob(t)
      <3>1. PICK m \in 1 .. PageBound : \E f \in JobResults(chunks[idx[t] + 1], m) :
              job' = [job EXCEPT ![t] = f] /\ last_page' = [last_page EXCEPT ![t] = m]
        BY <2>3 DEF StartJob
      <3>2. PICK f \in JobResults(chunks[idx[t] + 1], m) :
              job' = [job EXCEPT ![t] = f] /\ last_page' = [last_page EXCEPT ![t] = m]
        BY <3>1
      <3>3. /\ \A r \in Id : f[r] <= m
            /\ \A r \in stable : InRange(r, chunks[idx[t] + 1]) => f[r] >= 1
        <4>1. PICK g \in [JobRows(chunks[idx[t] + 1]) -> 1 .. m] :
                f = [r \in Id |-> IF r \in JobRows(chunks[idx[t] + 1]) THEN g[r] ELSE 0]
          BY <3>2 DEF JobResults
        <4>2. \A r \in stable : InRange(r, chunks[idx[t] + 1]) => r \in JobRows(chunks[idx[t] + 1])
          BY <1>1 DEF JobRows
        <4> QED
          BY <1>1, <4>1, <4>2
      <3>4. /\ job'[t] = f /\ last_page'[t] = m /\ page_no'[t] = 1 /\ pc'[t] = "advance"
            /\ ~ chunk_done'[t] /\ idx' = idx
        BY <2>3, <3>2 DEF StartJob, TypeOK
      <3> QED
        BY <1>1, <3>3, <3>4 DEF JobCoversOf, Pending, RowOf
    <2>4. CASE FetchResultPage(t)
      <3>1. /\ UNCHANGED <<idx, job, last_page, page_no, out>>
            /\ ~ chunk_done[t] /\ pc[t] = "advance" /\ pc'[t] = "publish"
        BY <2>4 DEF FetchResultPage, TypeOK
      <3>2. next_locator'[t] = 0 => page_no[t] = last_page[t]
        <4>1. next_locator'[t] \in
                seen[t] \cup {IF page_no[t] = last_page[t] THEN 0 ELSE page_no[t] + 1}
          BY <2>4 DEF FetchResultPage, TypeOK
        <4>2. 0 \notin seen[t] /\ page_no[t] + 1 # 0
          BY <3>1, BulkAssumption DEF TypeOK
        <4> QED
          BY <4>1, <4>2
      <3> QED
        BY <1>1, <3>1, <3>2 DEF JobCovers, JobCoversOf, Streaming, Pending, RowOf
    <2>5. CASE FollowLocator(t)
      <3>1. /\ next_locator[t] = page_no[t] + 1 /\ page_no[t] \in Nat \ {0}
            /\ page[t] = PageRows(t, page_no[t]) /\ ~ chunk_done[t] /\ pc[t] = "publish"
            /\ \A r \in Id : job[t][r] \in Nat
        BY <2>5, BulkAssumption DEF FollowLocator, PageInv, Streaming, JobInv, JobOf, TypeOK
      <3>2. /\ page_no'[t] = page_no[t] + 1
            /\ pc'[t] = IF page[t] # {} THEN "emit" ELSE "advance"
            /\ UNCHANGED <<idx, job, last_page, page, chunk_done, out>>
        BY <2>5, <3>1 DEF FollowLocator, AfterPage, TypeOK
      <3>3. ASSUME NEW r \in stable, job[t][r] >= page_no[t]
            PROVE  Pending(t, r)'
        <4>1. CASE job[t][r] = page_no[t]
          BY <1>1, <3>1, <3>2, <4>1 DEF PageRows, Pending
        <4>2. CASE job[t][r] # page_no[t]
          BY <1>1, <3>1, <3>2, <3>3, <4>2 DEF Pending
        <4> QED
          BY <4>1, <4>2
      <3> QED
        BY <1>1, <3>1, <3>2, <3>3 DEF JobCovers, JobCoversOf, Streaming, Pending, RowOf
    <2>7. CASE FinishChunk(t)
      <3>1. /\ page[t] = PageRows(t, page_no[t]) /\ pc[t] = "publish" /\ page_no[t] = last_page[t]
            /\ page_no[t] \in Nat /\ \A r \in Id : job[t][r] \in Nat /\ job[t][r] <= last_page[t]
        BY <2>7, BulkAssumption DEF FinishChunk, Streaming, JobInv, JobOf, JobCovers, JobCoversOf,
                                    TypeOK
      <3>2. /\ pc'[t] = IF page[t] # {} THEN "emit" ELSE "claim"
            /\ UNCHANGED <<idx, job, last_page, page, page_no, out>>
        BY <2>7 DEF FinishChunk, AfterPage, TypeOK
      <3>3. ASSUME NEW r \in stable, Pending(t, r)
            PROVE  r \in page[t]
        BY <1>1, <3>1, <3>3 DEF Pending, PageRows
      <3> QED
        BY <1>1, <3>1, <3>2, <3>3 DEF JobCovers, JobCoversOf, Streaming, Pending, RowOf
    <2>9. CASE EmitVector(t)
      <3>1. PICK S \in SUBSET page[t] :
              /\ page' = [page EXCEPT ![t] = @ \ S]
              /\ pc' = [pc EXCEPT ![t] = IF S = page[t] THEN "advance" ELSE "emit"]
              /\ out' = [r \in Id |-> IF r \in S THEN out[r] + 1 ELSE out[r]]
              /\ \A r \in S : r \in Id /\ RowOf(r, idx[t] + 1) /\ out[r] = 0
        BY <2>9, EmitFresh
      <3>2. /\ pc[t] = "emit" /\ UNCHANGED <<idx, job, last_page, page_no, chunk_done>>
        BY <2>9 DEF EmitVector
      <3>3. /\ page'[t] = page[t] \ S
            /\ pc'[t] = IF S = page[t] THEN "advance" ELSE "emit"
        BY <3>1 DEF TypeOK
      <3>4. ASSUME NEW r \in stable, Pending(t, r) \/ out[r] = 1
            PROVE  Pending(t, r)' \/ out'[r] = 1
        <4>1. CASE r \in S
          BY <1>1, <3>1, <4>1
        <4>2. CASE r \notin S
          BY <1>1, <3>1, <3>2, <3>3, <3>4, <4>2 DEF Pending
        <4> QED
          BY <4>1, <4>2
      <3> QED
        BY <1>1, <3>2, <3>3, <3>4 DEF JobCovers, JobCoversOf, Streaming, RowOf
    <2>10. CASE ClaimChunk(t) \/ PassQuotaGuard(t) \/ RefuseLocator(t) \/ ReleaseChunk(t)
                \/ RequestFails(t)
      <3>1. pc'[t] \in {"done", "gate", "start", "failed", "claim"}
        BY <2>10 DEF ClaimChunk, PassQuotaGuard, RefuseLocator, ReleaseChunk, RequestFails, Throw,
                     TypeOK
      <3> QED
        BY <3>1, <2>1
    <2> QED
      BY <2>3, <2>4, <2>5, <2>7, <2>9, <2>10 DEF Step
  <1> QED
    BY <1>2, <1>3 DEF JobCovers

(* A chunk that a thread gives up has been delivered. *)
LEMMA ClaimedDeliveredStep ==
  ASSUME CoverInv, NEW t \in Threads, Step(t) \/ RequestFails(t)
  PROVE  ClaimedDelivered'
  <1> USE DEF CoverInv, OnceInv, TypeInv, Goto
  <1>1. chunks' = chunks /\ stable' = stable /\ stable \in SUBSET Id
    BY ThreadFrame DEF TypeOK
  <1>2. \A i \in DOMAIN chunks : Delivered(i) => Delivered(i)'
    BY <1>1, OutStep DEF Delivered, RowOf
  <1>3. /\ \A u \in Threads \ {t} : pc'[u] = pc[u] /\ idx'[u] = idx[u]
        /\ \A u \in Threads \ {t} : Holding(u) => Holding(u)'
    BY ThreadFrame DEF Holding, Working
  <1>4. ASSUME ~ ClaimChunk(t), Holding(t) => Holding(t)' \/ Delivered(idx[t] + 1)
        PROVE  ClaimedDelivered'
    <2>1. UNCHANGED <<next_chunk, idx>>
      <3>1. CASE EmitVector(t)
        BY <3>1 DEF EmitVector, globalVars
      <3>2. CASE ~ EmitVector(t)
        BY <1>4, <3>2, QuietStep
      <3> QED
        BY <3>1, <3>2
    <2>2. \A u \in Threads : Holding(u) => Holding(u)' \/ Delivered(idx[u] + 1)
      BY <1>3, <1>4
    <2>3. ASSUME NEW i \in DOMAIN chunks, i <= next_chunk
          PROVE  (\E u \in Threads : Holding(u)' /\ idx[u] + 1 = i) \/ Delivered(i)'
      <3>1. CASE Delivered(i)
        BY <1>2, <3>1
      <3>2. CASE ~ Delivered(i)
        BY <2>2, <2>3, <3>2 DEF ClaimedDelivered
      <3> QED
        BY <3>1, <3>2
    <2> QED
      BY <1>1, <2>1, <2>3 DEF ClaimedDelivered
  <1>5. CASE ClaimChunk(t)
    <2>1. pc[t] = "claim" /\ next_chunk' = next_chunk + 1 /\ next_chunk \in Nat
      BY <1>5 DEF ClaimChunk, TypeOK
    <2>2. DOMAIN chunks = 1 .. Len(chunks) /\ Len(chunks) \in Nat
      BY DEF TypeOK
    <2>3. ASSUME NEW i \in DOMAIN chunks, i <= next_chunk
          PROVE  (\E u \in Threads : Holding(u)' /\ idx'[u] + 1 = i) \/ Delivered(i)'
      <3>1. CASE Delivered(i)
        BY <1>2, <3>1
      <3>2. CASE ~ Delivered(i)
        <4>1. PICK u \in Threads : Holding(u) /\ idx[u] + 1 = i
          BY <2>3, <3>2 DEF ClaimedDelivered
        <4>2. u # t
          BY <2>1, <4>1 DEF Holding, Working
        <4> QED
          BY <1>3, <4>1, <4>2
      <3> QED
        BY <3>1, <3>2
    <2>4. ASSUME NEW i \in DOMAIN chunks, i <= next_chunk + 1, ~ (i <= next_chunk)
          PROVE  Holding(t)' /\ idx'[t] + 1 = i
      <3>1. i = next_chunk + 1 /\ ~ (next_chunk >= Len(chunks))
        BY <2>1, <2>2, <2>4
      <3>2. pc'[t] = "gate" /\ idx'[t] = next_chunk
        BY <1>5, <3>1 DEF ClaimChunk, TypeOK
      <3> QED
        BY <3>1, <3>2 DEF Holding, Working
    <2> QED
      BY <1>1, <2>1, <2>3, <2>4 DEF ClaimedDelivered
  <1>6. CASE ReleaseChunk(t)
    <2>1. Delivered(idx[t] + 1)
      BY <1>1, <1>6 DEF ReleaseChunk, JobCovers, JobCoversOf, Streaming, Pending, Delivered
    <2>2. ~ ClaimChunk(t)
      BY <1>6 DEF ReleaseChunk, ClaimChunk
    <2> QED
      BY <1>4, <2>1, <2>2
  <1>7. CASE FinishChunk(t)
    <2>1. ~ ClaimChunk(t)
      BY <1>7 DEF FinishChunk, ClaimChunk
    <2>2. CASE page[t] # {}
      <3>1. Holding(t)'
        BY <1>7, <2>2 DEF FinishChunk, AfterPage, Holding, Working, TypeOK
      <3> QED
        BY <1>4, <2>1, <3>1
    <2>3. CASE page[t] = {}
      <3>1. /\ page[t] = PageRows(t, page_no[t]) /\ pc[t] = "publish" /\ page_no[t] = last_page[t]
            /\ page_no[t] \in Nat /\ \A r \in Id : job[t][r] \in Nat /\ job[t][r] <= last_page[t]
        BY <1>7, BulkAssumption DEF FinishChunk, Streaming, JobInv, JobOf, JobCovers, JobCoversOf,
                                    TypeOK
      <3>2. \A r \in Id : ~ Pending(t, r)
        BY <2>3, <3>1 DEF Pending, PageRows
      <3>3. Delivered(idx[t] + 1)
        BY <1>1, <3>1, <3>2 DEF JobCovers, JobCoversOf, Streaming, Delivered
      <3> QED
        BY <1>4, <2>1, <3>3
    <2> QED
      BY <2>2, <2>3
  <1>8. CASE PassQuotaGuard(t) \/ StartJob(t) \/ FetchResultPage(t) \/ FollowLocator(t)
             \/ RefuseLocator(t) \/ EmitVector(t) \/ RequestFails(t)
    <2>1. pc[t] # "claim" /\ pc'[t] \in {"start", "advance", "publish", "emit", "failed"}
      <3>1. CASE FollowLocator(t)
        BY <3>1 DEF FollowLocator, AfterPage, TypeOK
      <3>2. CASE ~ FollowLocator(t)
        BY <1>8, <3>2 DEF PassQuotaGuard, StartJob, FetchResultPage, RefuseLocator, EmitVector,
                          RequestFails, Throw, TypeOK
      <3> QED
        BY <3>1, <3>2
    <2>2. Holding(t)' /\ ~ ClaimChunk(t)
      BY <2>1 DEF Holding, Working, ClaimChunk
    <2> QED
      BY <1>4, <2>2
  <1> QED
    BY <1>5, <1>6, <1>7, <1>8 DEF Step

(* A thread stops only on a dry dispenser. *)
LEMMA DoneInvStep ==
  ASSUME CoverInv, NEW t \in Threads, Step(t) \/ RequestFails(t)
  PROVE  DoneInv'
  <1> USE DEF CoverInv, OnceInv, TypeInv, Goto
  <1>1. /\ chunks' = chunks /\ active' = active /\ pc[t] # "off"
        /\ \A u \in Threads \ {t} : pc'[u] = pc[u]
    BY ThreadFrame
  <1>2. /\ next_chunk' \in Nat /\ next_chunk' >= next_chunk
        /\ next_chunk \in Nat /\ Len(chunks) \in Nat
        /\ pc'[t] = "done" => next_chunk >= Len(chunks)
    <2>1. CASE ClaimChunk(t)
      BY <2>1 DEF ClaimChunk, TypeOK
    <2>2. CASE ~ ClaimChunk(t)
      <3>1. next_chunk' = next_chunk
        <4>1. CASE EmitVector(t)
          BY <4>1 DEF EmitVector, globalVars
        <4>2. CASE ~ EmitVector(t)
          BY <2>2, <4>2, QuietStep
        <4> QED
          BY <4>1, <4>2
      <3>2. pc'[t] # "done"
        BY <2>2 DEF Step, PassQuotaGuard, StartJob, FetchResultPage, FollowLocator, RefuseLocator,
                    FinishChunk, ReleaseChunk, EmitVector, AfterPage, RequestFails, Throw, TypeOK
      <3> QED
        BY <3>1, <3>2 DEF TypeOK
    <2> QED
      BY <2>1, <2>2
  <1> QED
    BY <1>1, <1>2 DEF DoneInv

(* The invariant behind NothingLost is inductive. *)
LEMMA CoverInvInit == Init => CoverInv
  <1> SUFFICES ASSUME Init PROVE CoverInv
    OBVIOUS
  <1>1. OnceInv
    BY OnceInvInit
  <1>2. ChunksCover /\ JobCovers /\ DoneInv
    BY DEF Init, ChunksCover, JobCovers, JobCoversOf, DoneInv, Streaming
  <1>3. ClaimedDelivered
    BY DEF Init, ClaimedDelivered
  <1> QED
    BY <1>1, <1>2, <1>3 DEF CoverInv

LEMMA CoverInvStep == CoverInv /\ [Next]_vars => CoverInv'
  <1> SUFFICES ASSUME CoverInv, [Next]_vars PROVE CoverInv'
    OBVIOUS
  <1> USE DEF CoverInv
  <1>0. OnceInv'
    BY OnceInvStep
  <1>1. CASE InitGlobal
    <2>1. PICK c \in ChunkSettings : chunks' \in BulkChunkLists(ClampChunks(c))
      BY <1>1 DEF InitGlobal
    <2>2. c \in Int /\ org \in SUBSET Id
      BY BulkAssumption DEF OnceInv, TypeInv, TypeOK
    <2>3. Covers(chunks', org) /\ \E m \in 1 .. ChunkCap : chunks' \in [1 .. m -> ChunkRange]
      BY <2>1, <2>2, ChunkListCorrect
    <2>4. UNCHANGED <<org, stable, out>> /\ next_chunk' = 0
      BY <1>1 DEF InitGlobal, OnceInv, BeforeInit, orgVars
    <2>5. ChunksCover'
      BY <2>3, <2>4 DEF Covers, ChunksCover, RowOf
    <2>6. ClaimedDelivered'
      BY <2>3, <2>4, ChunkingAssumption DEF ClaimedDelivered
    <2>7. \A t \in Threads : pc'[t] = "off" \/ (pc'[t] = "claim" /\ t \in active')
      BY <1>1 DEF InitGlobal
    <2>8. JobCovers' /\ DoneInv'
      BY <2>7 DEF JobCovers, JobCoversOf, Streaming, DoneInv
    <2> QED
      BY <1>0, <2>5, <2>6, <2>8
  <1>2. ASSUME NEW t \in Threads, Step(t) \/ RequestFails(t)
        PROVE  CoverInv'
    <2>1. ChunksCover'
      BY <1>2, ThreadFrame DEF ChunksCover, RowOf, OnceInv, TypeInv
    <2> QED
      BY <1>0, <1>2, <2>1, JobCoversStep, ClaimedDeliveredStep, DoneInvStep
  <1>3. ASSUME UNCHANGED <<globalVars, localVars, out>>, stable' \subseteq stable,
               stable' \subseteq org'
        PROVE  CoverInv'
    <2> USE <1>3 DEF globalVars, localVars
    <2>1. ChunksCover' /\ DoneInv'
      BY DEF ChunksCover, DoneInv, RowOf
    <2>2. JobCovers'
      BY DEF JobCovers, JobCoversOf, Streaming, Pending, RowOf
    <2>3. ClaimedDelivered'
      BY DEF ClaimedDelivered, Delivered, Holding, Working, RowOf
    <2> QED
      BY <1>0, <2>1, <2>2, <2>3
  <1>4. stable \subseteq org
    BY DEF ChunksCover
  <1>5. ASSUME NEW r \in Id, Arrive(r) \/ Leave(r)
        PROVE  CoverInv'
    BY <1>3, <1>4, <1>5 DEF Arrive, Leave
  <1>6. CASE UNCHANGED vars
    BY <1>3, <1>4, <1>6 DEF vars, orgVars
  <1> QED
    BY <1>1, <1>2, <1>5, <1>6 DEF Next, Idle

(* A scan that has succeeded holds no chunk and left none unclaimed. *)
LEMMA CoverInvLostNothing == CoverInv => NothingLost
  <1> SUFFICES ASSUME CoverInv, Succeeded, NEW r \in stable PROVE out[r] = 1
    BY DEF NothingLost
  <1> USE DEF CoverInv
  <1>1. PICK i \in DOMAIN chunks : RowOf(r, i)
    BY DEF Succeeded, Terminated, ChunksCover
  <1>2. \A t \in Threads : ~ Holding(t)
    BY DEF Succeeded, DoneInv, Holding, Working
  <1>3. PICK t \in active : t \in Threads /\ pc[t] = "done"
    BY DEF Succeeded, Terminated, OnceInv, TypeInv, TypeOK
  <1>4. i <= next_chunk
    <2>1. next_chunk >= Len(chunks) /\ next_chunk \in Nat /\ chunks \in Seq(ChunkRange)
      BY <1>3 DEF DoneInv, OnceInv, TypeInv, TypeOK
    <2> QED
      BY <2>1
  <1> QED
    BY <1>1, <1>2, <1>4 DEF ClaimedDelivered, Delivered

(***************************************************************************)
(* A Bulk scan that ends without an error has handed out every row that    *)
(* matched all along, for every number of threads, chunks, pages and rows: *)
(* no chunk is dropped by the dispenser, no page by the locators, no Id by *)
(* the boundaries.                                                         *)
(***************************************************************************)
THEOREM NoRowLost == Spec => []NothingLost
  <1>1. Spec => []CoverInv
    BY CoverInvInit, CoverInvStep, PTL DEF Spec
  <1> QED
    BY <1>1, CoverInvLostNothing, PTL

-----------------------------------------------------------------------------
(***************************************************************************)
(* The Bulk path of a scan implements TableScan, for every number of       *)
(* threads, chunks, pages and rows: its initial states are initial states  *)
(* of TableScan and each of its steps is a step of TableScan or changes    *)
(* nothing DuckDB sees.                                                    *)
(***************************************************************************)

(* A job returns only rows that match, or matched before. *)
MatchedOf(t) == Streaming(t) => \A r \in Id : job[t][r] # 0 => r \in matched

MatchedInv == org \subseteq matched /\ \A t \in Threads : MatchedOf(t)

(* A job is asked of the org while it runs, so its rows matched then. *)
LEMMA MatchedInvStep == CoverInv /\ MatchedInv /\ [Next]_vars => MatchedInv'
  <1> SUFFICES ASSUME CoverInv, MatchedInv, [Next]_vars PROVE MatchedInv'
    OBVIOUS
  <1>0. TypeOK
    BY DEF CoverInv, OnceInv, TypeInv
  <1>1. CASE InitGlobal
    <2>1. /\ UNCHANGED <<org, matched>>
          /\ \A t \in Threads : pc'[t] \in {"claim", "off"}
      BY <1>1 DEF InitGlobal, orgVars
    <2> QED
      BY <2>1 DEF MatchedInv, MatchedOf, Streaming
  <1>2. ASSUME NEW t \in Threads, Step(t) \/ RequestFails(t)
        PROVE  MatchedInv'
    <2>1. /\ UNCHANGED <<org, matched>>
          /\ \A u \in Threads \ {t} : pc'[u] = pc[u] /\ job'[u] = job[u]
      BY <1>0, <1>2, ThreadFrame
    <2>2. CASE StartJob(t)
      <3>1. PICK m \in 1 .. PageBound : \E f \in JobResults(chunks[idx[t] + 1], m) :
              job' = [job EXCEPT ![t] = f]
        BY <2>2 DEF StartJob
      <3>2. PICK f \in JobResults(chunks[idx[t] + 1], m) : job' = [job EXCEPT ![t] = f]
        BY <3>1
      <3>3. \A r \in Id : f[r] # 0 => r \in org
        BY <3>2 DEF JobResults, JobRows
      <3>4. job'[t] = f
        BY <1>0, <3>2 DEF TypeOK
      <3> QED
        BY <2>1, <3>3, <3>4 DEF MatchedInv, MatchedOf, Streaming
    <2>3. CASE ~ StartJob(t)
      <3>1. job' = job /\ (Streaming(t)' => Streaming(t))
        BY <1>0, <1>2, <2>3
        DEF Step, ClaimChunk, PassQuotaGuard, FetchResultPage, FollowLocator, RefuseLocator,
            FinishChunk, ReleaseChunk, EmitVector, RequestFails, Throw, Goto, TypeOK, Streaming
      <3> QED
        BY <2>1, <3>1 DEF MatchedInv, MatchedOf, Streaming
    <2> QED
      BY <2>2, <2>3
  <1>3. ASSUME NEW r \in Id, Arrive(r) \/ Leave(r)
        PROVE  MatchedInv'
    BY <1>3 DEF Arrive, Leave, localVars, MatchedInv, MatchedOf, Streaming
  <1>4. CASE UNCHANGED vars
    BY <1>4 DEF vars, orgVars, localVars, MatchedInv, MatchedOf, Streaming
  <1> QED
    BY <1>1, <1>2, <1>3, <1>4 DEF Next, Idle

(* A Bulk scan starts as a TableScan does. *)
LEMMA RefinesInit == Init => Promise!Init
  <1> SUFFICES ASSUME Init PROVE Promise!Init
    OBVIOUS
  <1>1. org \in SUBSET Id /\ stable = org /\ matched = org /\ out = [r \in Id |-> 0]
    BY BulkAssumption DEF Init, NoRows
  <1>2. scanStatus = "running"
    BY DEF Init, scanStatus, Succeeded, Terminated
  <1> QED
    BY <1>1, <1>2 DEF Promise!Init

(* What a step that hands out nothing can do to the status of the scan. *)
LEMMA StatusStep ==
  ASSUME CoverInv, CoverInv', NEW t \in Threads, Step(t) \/ RequestFails(t), out' = out
  PROVE  Promise!Next \/ UNCHANGED Promise!vars
  <1>1. /\ UNCHANGED <<org, stable, matched, active>> /\ pc[t] # "off"
        /\ \A u \in Threads \ {t} : pc'[u] = pc[u]
    BY ThreadFrame DEF CoverInv, OnceInv, TypeInv
  <1>2. t \in active /\ active \in SUBSET Threads
    BY <1>1 DEF CoverInv, DoneInv, OnceInv, TypeInv, TypeOK
  <1>3. pc[t] \notin {"done", "failed"}
    BY DEF Step, ClaimChunk, PassQuotaGuard, StartJob, FetchResultPage, FollowLocator,
           RefuseLocator, FinishChunk, ReleaseChunk, EmitVector, RequestFails, Throw, Goto
  <1>4. ~ Succeeded
    BY <1>2, <1>3 DEF Succeeded
  <1>5. CASE Succeeded'
    <2>1. \A u \in active : pc[u] # "failed"
      BY <1>1, <1>2, <1>3, <1>5 DEF Succeeded
    <2>2. scanStatus = "running" /\ scanStatus' = "done"
      BY <1>4, <1>5, <2>1 DEF scanStatus
    <2>3. \A r \in stable : out[r] = 1
      <3>1. CoverInv' => NothingLost'
        BY CoverInvLostNothing, PTL
      <3> QED
        BY <1>1, <1>5, <3>1 DEF NothingLost
    <2> QED
      BY <1>1, <2>2, <2>3 DEF Promise!Next, Promise!Finish
  <1>6. CASE ~ Succeeded'
    <2>1. CASE \E u \in active : pc[u] = "failed"
      <3>1. scanStatus = "failed" /\ scanStatus' = "failed"
        BY <1>1, <1>2, <1>3, <1>4, <1>6, <2>1 DEF scanStatus
      <3> QED
        BY <1>1, <3>1 DEF Promise!vars
    <2>2. CASE ~ \E u \in active : pc[u] = "failed"
      <3>1. scanStatus = "running" /\ scanStatus' \in {"running", "failed"}
        BY <1>4, <1>6, <2>2 DEF scanStatus
      <3> QED
        BY <1>1, <3>1 DEF Promise!vars, Promise!Next, Promise!Fail
    <2> QED
      BY <2>1, <2>2
  <1> QED
    BY <1>5, <1>6

(* Every step of a Bulk scan is a step of TableScan or stutters. *)
LEMMA RefinesStep ==
  CoverInv /\ CoverInv' /\ MatchedInv /\ [Next]_vars => [Promise!Next]_Promise!vars
  <1> SUFFICES ASSUME CoverInv, CoverInv', MatchedInv, [Next]_vars
               PROVE  Promise!Next \/ UNCHANGED Promise!vars
    OBVIOUS
  <1>0. TypeOK /\ OnceInv
    BY DEF CoverInv, OnceInv, TypeInv
  <1>1. CASE InitGlobal
    <2>1. /\ UNCHANGED <<org, stable, matched, out>> /\ active = {} /\ active' # {}
          /\ active' \in SUBSET Threads /\ \A t \in active' : pc'[t] = "claim"
      BY <1>1 DEF InitGlobal, orgVars
    <2>2. scanStatus = "running" /\ scanStatus' = "running"
      BY <2>1 DEF scanStatus, Succeeded, Terminated
    <2> QED
      BY <2>1, <2>2 DEF Promise!vars
  <1>2. ASSUME NEW t \in Threads, EmitVector(t)
        PROVE  Promise!Next \/ UNCHANGED Promise!vars
    <2>1. PICK S \in SUBSET page[t] :
            /\ pc' = [pc EXCEPT ![t] = IF S = page[t] THEN "advance" ELSE "emit"]
            /\ out' = [r \in Id |-> IF r \in S THEN out[r] + 1 ELSE out[r]]
            /\ \A r \in S : r \in Id /\ out[r] = 0
      BY <1>0, <1>2, EmitFresh
    <2>2. pc[t] = "emit" /\ UNCHANGED <<org, stable, matched, active>>
      BY <1>2 DEF EmitVector, orgVars, globalVars
    <2>3. S \subseteq matched
      BY <1>0, <2>1, <2>2 DEF MatchedInv, MatchedOf, Streaming, OnceInv, JobInv, JobOf, TypeOK
    <2>4. t \in active /\ active \in SUBSET Threads
      BY <1>0, <2>2 DEF CoverInv, DoneInv, TypeOK
    <2>5. /\ pc'[t] \in {"advance", "emit"}
          /\ \A u \in Threads \ {t} : pc'[u] = pc[u]
      BY <1>0, <2>1 DEF TypeOK
    <2>6. scanStatus' = scanStatus /\ scanStatus # "done"
      BY <2>2, <2>4, <2>5 DEF scanStatus, Succeeded
    <2>7. out' = [r \in Id |-> IF r \in S THEN 1 ELSE out[r]]
      BY <2>1
    <2>8. S \in SUBSET Id
      BY <2>1
    <2>9. Promise!Deliver(S)
      BY <2>1, <2>2, <2>3, <2>6, <2>7 DEF Promise!Deliver
    <2> QED
      BY <2>8, <2>9 DEF Promise!Next
  <1>3. ASSUME NEW t \in Threads, Step(t) \/ RequestFails(t), ~ EmitVector(t)
        PROVE  Promise!Next \/ UNCHANGED Promise!vars
    <2>1. out' = out
      <3>1. CASE ClaimChunk(t)
        BY <3>1 DEF ClaimChunk
      <3>2. CASE ~ ClaimChunk(t)
        BY <1>0, <1>3, <3>2, QuietStep DEF OnceInv
      <3> QED
        BY <3>1, <3>2
    <2> QED
      BY <1>3, <2>1, StatusStep
  <1>4. ASSUME NEW r \in Id, Arrive(r) \/ Leave(r)
        PROVE  Promise!Next \/ UNCHANGED Promise!vars
    <2>1. scanStatus' = scanStatus
      BY <1>4 DEF Arrive, Leave, globalVars, localVars, scanStatus, Succeeded, Terminated
    <2>2. Promise!Arrive(r) \/ Promise!Leave(r)
      BY <1>4, <2>1 DEF Arrive, Leave, Promise!Arrive, Promise!Leave
    <2> QED
      BY <2>2 DEF Promise!Next
  <1>5. CASE UNCHANGED vars
    <2>1. scanStatus' = scanStatus
      BY <1>5 DEF vars, globalVars, localVars, scanStatus, Succeeded, Terminated
    <2> QED
      BY <1>5, <2>1 DEF vars, orgVars, Promise!vars
  <1> QED
    BY <1>1, <1>2, <1>3, <1>4, <1>5 DEF Next, Idle

(***************************************************************************)
(* The Bulk path, with its threads, chunks, locators and failures, behaves *)
(* as TableScan promises DuckDB.                                           *)
(***************************************************************************)
THEOREM BulkImplementsTableScan == Spec => ImplementsTableScan
  <1>1. Spec => [](CoverInv /\ MatchedInv)
    <2>1. Init => MatchedInv
      BY DEF Init, MatchedInv, MatchedOf, Streaming
    <2> QED
      BY <2>1, CoverInvInit, CoverInvStep, MatchedInvStep, PTL DEF Spec
  <1> QED
    BY <1>1, RefinesInit, RefinesStep, PTL DEF Spec, ImplementsTableScan, Promise!Spec
=============================================================================
