------------------------ MODULE IncrementalLoadProofs ------------------------
(***************************************************************************)
(* The checkpoint of an incremental load is safe, for any clock            *)
(* resolution, any records and any number of sweeps and slices.  The       *)
(* argument is about what a frontier of whole seconds covers: everything   *)
(* deleted before it is among the rows of the sweep, and because the org   *)
(* never claims to cover the tick that is running, nothing deleted later   *)
(* can fall before it.                                                     *)
(***************************************************************************)
EXTENDS IncrementalLoad, SequenceTheorems, FiniteSetTheorems, WellFoundedInduction, TLAPS

(* What a sweep may emit. *)
RowSet == Ids \cup UNION { Range(Job[p]) : p \in DOMAIN Job }

(* The buffers are sequences, and the cursors lie within them. *)
BufferInv ==
  /\ source \in {"getDeleted", "queryAll", "resume"} /\ repeats \in BOOLEAN
  /\ rows \in Seq(RowSet) /\ out \in Seq(RowSet) /\ result \in Seq(Ids)
  /\ from \in Nat /\ at \in Nat
  /\ source = "queryAll" => at <= Len(result)
  /\ source = "queryAll" /\ status = "loading" /\ requests = 0 => at = 0 /\ rows = << >>
  /\ source = "resume" => at <= Len(Job) /\ status # "loading"

(* A sweep emits its rows in order, once they are all there. *)
EmitInv ==
  /\ source # "resume" => Len(out) = cursor /\ \A k \in 1 .. cursor : out[k] = rows[k]
  /\ status = "loading" => cursor = 0
  /\ status = "done" => cursor = Len(rows)
  /\ \A k \in 1 .. Len(out) : out[k] \in delivered

(* The rows hold every record deleted since the checkpoint and before      *)
(* second x.                                                               *)
AllBefore(x) ==
  \A i \in Ids : deleted[i] # 0 /\ Ticks(since) <= deleted[i] /\ deleted[i] < Ticks(x)
                 => \E k \in 1 .. Len(rows) : rows[k] = i

(* A getDeleted sweep: no id twice, and nothing missing before the place   *)
(* where its next slice starts, nor before the frontier it reports.        *)
SweepInv ==
  source = "getDeleted" =>
    /\ Ticks(since) <= now
    /\ \A j, k \in 1 .. Len(rows) : rows[j] = rows[k] => j = k
    /\ status = "loading" => Ticks(from) <= now /\ AllBefore(from)
    /\ status \in {"loading", "loaded", "done"} =>
         Ticks(latest_covered) <= now /\ AllBefore(latest_covered)

(* A queryAll sweep that is not led in circles has the first ids of its    *)
(* result, and all of them when it is loaded.                              *)
QueryAllInv ==
  source = "queryAll" =>
    /\ status = "loading" /\ ~ repeats => rows = SubSeq(result, 1, at)
    /\ status \in {"loaded", "done"} => rows = result

(* The inductive invariant. *)
IInv == TypeOK /\ BufferInv /\ EmitInv /\ SweepInv /\ QueryAllInv /\ CheckpointSafe

-----------------------------------------------------------------------------
(* Ticks and seconds.                                                      *)

(* Cutting a tick to its second goes back by less than a second. *)
LEMMA SecondsOf ==
  ASSUME NEW t \in Nat
  PROVE  /\ Seconds(t) \in Nat
         /\ Ticks(Seconds(t)) <= t
         /\ t < Ticks(Seconds(t) + 1)
  <1>1. TicksPerSecond \in Nat \ {0}
    BY IncrementalLoadAssumption
  <1>2. t \div TicksPerSecond \in Nat
    BY <1>1
  <1>3. (t \div TicksPerSecond) * TicksPerSecond <= t
    BY <1>1
  <1>4. t < (t \div TicksPerSecond) * TicksPerSecond + TicksPerSecond
    BY <1>1
  <1>5. \A s \in Nat : (s + 1) * TicksPerSecond = s * TicksPerSecond + TicksPerSecond
    BY <1>1
  <1> QED
    BY <1>2, <1>3, <1>4, <1>5 DEF Seconds, Ticks

(* Ticks keeps and reflects the order. *)
LEMMA TicksOrder ==
  ASSUME NEW a \in Nat, NEW b \in Nat
  PROVE  /\ Ticks(a) \in Nat
         /\ a <= b <=> Ticks(a) <= Ticks(b)
         /\ a < b <=> Ticks(a) < Ticks(b)
  BY IncrementalLoadAssumption DEF Ticks

(* The first second starts with the clock. *)
LEMMA TicksZero == Ticks(0) = 0
  BY IncrementalLoadAssumption DEF Ticks

(* The sequence of a finite set has each of its elements, once. *)
LEMMA SetToSeqType ==
  ASSUME NEW S, IsFiniteSet(S)
  PROVE  /\ SetToSeq(S) \in Seq(S)
         /\ \A x \in S : \E k \in 1 .. Len(SetToSeq(S)) : SetToSeq(S)[k] = x
         /\ \A j, k \in 1 .. Len(SetToSeq(S)) : SetToSeq(S)[j] = SetToSeq(S)[k] => j = k
  <1> DEFINE n == Cardinality(S)
             s == SetToSeq(S)
  <1>1. n \in Nat /\ ExistsBijection(1 .. n, S)
    BY FS_CardinalityType
  <1>2. \E f \in [1 .. n -> S] : IsInjective(f)
    BY <1>1 DEF ExistsBijection, Bijection, Injection
  <1>3. s \in [1 .. n -> S] /\ IsInjective(s)
    BY <1>2 DEF SetToSeq
  <1>4. s \in Seq(S) /\ Len(s) = n /\ DOMAIN s = 1 .. n
    BY <1>1, <1>3
  <1>5. IsFiniteSet(1 .. n) /\ Cardinality(1 .. n) = n
    BY <1>1, FS_Interval
  <1>6. s \in Surjection(1 .. n, S)
    BY <1>3, <1>5, FS_Injection DEF Injection
  <1> QED
    BY <1>3, <1>4, <1>6 DEF Surjection, IsInjective

(* The ids of a slice, added to the rows: nothing is lost, everything in   *)
(* the slice is there, and nothing twice.                                  *)
LEMMA AddFresh ==
  ASSUME rows \in Seq(RowSet), NEW ids \in SUBSET Ids, rows' = rows \o Fresh(ids)
  PROVE  /\ rows' \in Seq(RowSet) /\ Len(rows) <= Len(rows')
         /\ \A k \in 1 .. Len(rows) : rows'[k] = rows[k]
         /\ \A i \in ids : \E k \in 1 .. Len(rows') : rows'[k] = i
         /\ (\A j, k \in 1 .. Len(rows) : rows[j] = rows[k] => j = k)
              => \A j, k \in 1 .. Len(rows') : rows'[j] = rows'[k] => j = k
  <1> DEFINE S == { i \in ids : i \notin Range(rows) }
             f == Fresh(ids)
  <1>1. IsFiniteSet(S)
    BY FS_Subset, IncrementalLoadAssumption
  <1>2. /\ f \in Seq(S)
        /\ \A x \in S : \E k \in 1 .. Len(f) : f[k] = x
        /\ \A j, k \in 1 .. Len(f) : f[j] = f[k] => j = k
    BY <1>1, SetToSeqType DEF Fresh
  <1> HIDE DEF f
  <1>3. f \in Seq(RowSet) /\ \A k \in 1 .. Len(f) : f[k] \in S
    BY <1>2, SeqMonotonic, ElementOfSeq DEF RowSet
  <1>4. /\ rows' \in Seq(RowSet) /\ Len(rows') = Len(rows) + Len(f)
        /\ \A k \in 1 .. Len(rows) + Len(f) :
             rows'[k] = IF k <= Len(rows) THEN rows[k] ELSE f[k - Len(rows)]
    BY <1>3, ConcatProperties DEF f
  <1>5. Len(rows) \in Nat /\ Len(f) \in Nat /\ DOMAIN rows = 1 .. Len(rows)
    BY <1>2, LenProperties
  <1>6. \A k \in 1 .. Len(rows) : rows'[k] = rows[k]
    BY <1>4, <1>5
  <1>7. \A k \in 1 .. Len(f) : rows'[Len(rows) + k] = f[k] /\ Len(rows) + k \in 1 .. Len(rows')
    BY <1>4, <1>5
  <1>8. ASSUME NEW i \in ids
        PROVE  \E k \in 1 .. Len(rows') : rows'[k] = i
    <2>1. CASE i \in Range(rows)
      <3>1. PICK k \in 1 .. Len(rows) : rows[k] = i
        BY <1>5, <2>1 DEF Range
      <3> QED
        BY <1>4, <1>5, <1>6, <3>1
    <2>2. CASE i \notin Range(rows)
      <3>1. PICK k \in 1 .. Len(f) : f[k] = i
        BY <1>2, <2>2
      <3> QED
        BY <1>7, <3>1
    <2> QED
      BY <2>1, <2>2
  <1>9. ASSUME \A j, k \in 1 .. Len(rows) : rows[j] = rows[k] => j = k,
               NEW j \in 1 .. Len(rows'), NEW k \in 1 .. Len(rows'), rows'[j] = rows'[k]
        PROVE  j = k
    <2>1. ASSUME NEW a \in 1 .. Len(rows), NEW b \in 1 .. Len(f)
          PROVE  rows[a] # f[b]
      BY <1>3, <1>5 DEF Range
    <2>2. \A m \in 1 .. Len(rows') : m > Len(rows) => m - Len(rows) \in 1 .. Len(f)
      BY <1>4, <1>5
    <2>3. CASE j <= Len(rows) /\ k <= Len(rows)
      BY <1>4, <1>5, <1>6, <1>9, <2>3
    <2>4. CASE j > Len(rows) /\ k > Len(rows)
      <3>1. f[j - Len(rows)] = f[k - Len(rows)]
        BY <1>4, <1>5, <1>9, <2>4
      <3>2. j - Len(rows) = k - Len(rows)
        BY <1>2, <2>2, <2>4, <3>1
      <3> QED
        BY <1>5, <3>2
    <2>5. CASE j <= Len(rows) /\ k > Len(rows)
      BY <1>4, <1>5, <1>9, <2>1, <2>2, <2>5
    <2>6. CASE j > Len(rows) /\ k <= Len(rows)
      BY <1>4, <1>5, <1>9, <2>1, <2>2, <2>6
    <2> QED
      BY <1>5, <2>3, <2>4, <2>5, <2>6
  <1> QED
    BY <1>4, <1>5, <1>6, <1>8, <1>9

-----------------------------------------------------------------------------
(* The invariant.                                                          *)

(* The numbers a proof about a sweep needs. *)
LEMMA Numbers ==
  ASSUME TypeOK
  PROVE  /\ now \in Nat /\ now >= 1 /\ since \in Nat /\ until \in Nat /\ latest_covered \in Nat
         /\ requests \in Nat /\ cursor \in Nat /\ Seconds(MaxNow) \in Nat
         /\ \A i \in Ids : deleted[i] \in Nat
  BY SecondsOf, IncrementalLoadAssumption DEF TypeOK

(* A later tick belongs to no earlier second. *)
LEMMA SecondsOrder ==
  ASSUME NEW s \in Nat, NEW t \in Nat, NEW u \in Nat
  PROVE  /\ Ticks(s) <= t => s <= Seconds(t)
         /\ t <= u => Seconds(t) <= Seconds(u)
         /\ Seconds(Ticks(s)) = s
  <1>1. ASSUME NEW a \in Nat, NEW b \in Nat, Ticks(a) <= b
        PROVE  a <= Seconds(b)
    <2>1. Seconds(b) \in Nat /\ b < Ticks(Seconds(b) + 1)
      BY SecondsOf
    <2>2. Seconds(b) + 1 \in Nat
      BY <2>1
    <2>3. Ticks(a) \in Nat /\ Ticks(Seconds(b) + 1) \in Nat
          /\ (a < Seconds(b) + 1 <=> Ticks(a) < Ticks(Seconds(b) + 1))
      BY <2>2, TicksOrder
    <2> QED
      BY <1>1, <2>1, <2>3
  <1>2. Ticks(s) \in Nat /\ Seconds(t) \in Nat /\ Ticks(Seconds(t)) <= t
    BY SecondsOf, TicksOrder
  <1>3. Ticks(Seconds(t)) \in Nat
    BY <1>2, TicksOrder
  <1>4. t <= u => Seconds(t) <= Seconds(u)
    BY <1>1, <1>2, <1>3
  <1>5. Seconds(Ticks(s)) \in Nat /\ Ticks(Seconds(Ticks(s))) <= Ticks(s)
    BY <1>2, SecondsOf
  <1>6. s <= Seconds(Ticks(s))
    BY <1>1, <1>2
  <1>7. Seconds(Ticks(s)) <= s
    BY <1>5, TicksOrder
  <1> QED
    BY <1>1, <1>4, <1>5, <1>6, <1>7

(* Before the first sweep. *)
LEMMA IInit == Init => IInv
  <1> SUFFICES ASSUME Init PROVE IInv
    OBVIOUS
  <1> USE IncrementalLoadAssumption
  <1>1. Seconds(MaxNow) \in Nat /\ Ticks(0) = 0
    BY SecondsOf, TicksZero
  <1>2. << >> \in Seq(RowSet) /\ << >> \in Seq(Ids) /\ Len(<< >>) = 0
    BY EmptySeq
  <1>3. TypeOK
    <2>1. now \in 1 .. MaxNow
      BY DEF Init
    <2>2. deleted \in [Ids -> 0 .. MaxNow]
      BY DEF Init
    <2> QED
      BY <1>1, <1>2, <2>1, <2>2 DEF Init, TypeOK
  <1>4. BufferInv
    BY <1>2 DEF Init, BufferInv
  <1>5. EmitInv
    BY <1>2 DEF Init, EmitInv
  <1>6. SweepInv
    BY <1>1, <1>2 DEF Init, SweepInv
  <1>7. QueryAllInv
    BY DEF Init, QueryAllInv
  <1>8. CheckpointSafe
    BY DEF Init, CheckpointSafe, DeletedIn
  <1> QED
    BY <1>3, <1>4, <1>5, <1>6, <1>7, <1>8 DEF IInv

(* Time passes. *)
LEMMA TickStep == IInv /\ Tick => IInv'
  <1> SUFFICES ASSUME IInv, Tick PROVE IInv'
    OBVIOUS
  <1> USE DEF Tick
  <1>1. now \in Nat /\ since \in Nat /\ latest_covered \in Nat /\ MaxNow \in Nat
    BY Numbers, IncrementalLoadAssumption DEF IInv
  <1>2. now' \in 1 .. MaxNow /\ now' = now + 1
    BY <1>1
  <1>3. TypeOK'
    BY <1>2 DEF IInv, TypeOK
  <1>4. BufferInv' /\ EmitInv' /\ QueryAllInv'
    BY DEF IInv, BufferInv, EmitInv, QueryAllInv
  <1>5. SweepInv'
    <2>1. from \in Nat
      BY DEF IInv, BufferInv
    <2>2. Ticks(since) \in Nat /\ Ticks(from) \in Nat /\ Ticks(latest_covered) \in Nat
      BY <1>1, <2>1, TicksOrder
    <2>3. (AllBefore(from))' = AllBefore(from)
          /\ (AllBefore(latest_covered))' = AllBefore(latest_covered)
      BY DEF AllBefore, Ticks
    <2> QED
      BY <1>1, <1>2, <2>2, <2>3 DEF IInv, SweepInv, Ticks
  <1>6. CheckpointSafe'
    BY DEF IInv, CheckpointSafe, DeletedIn, Ticks
  <1> QED
    BY <1>3, <1>4, <1>5, <1>6 DEF IInv

(* A record is deleted now: no frontier of the load is later than that. *)
LEMMA DeleteStep == ASSUME IInv, NEW i \in Ids, Delete(i) PROVE IInv'
  <1> USE DEF Delete
  <1>1. now \in Nat /\ since \in Nat /\ latest_covered \in Nat /\ from \in Nat
    BY Numbers DEF IInv, BufferInv
  <1>2. deleted' \in [Ids -> 0 .. MaxNow] /\ deleted'[i] = now
        /\ \A x \in Ids : x # i => deleted'[x] = deleted[x]
    BY IncrementalLoadAssumption DEF IInv, TypeOK
  <1>3. TypeOK'
    BY <1>2 DEF IInv, TypeOK
  <1>4. BufferInv' /\ EmitInv' /\ QueryAllInv'
    BY DEF IInv, BufferInv, EmitInv, QueryAllInv
  <1>5. Ticks(since) \in Nat /\ Ticks(from) \in Nat /\ Ticks(latest_covered) \in Nat
    BY <1>1, TicksOrder
  <1>6. Ticks(from) <= now /\ AllBefore(from) => (AllBefore(from))'
    BY <1>1, <1>2, <1>5 DEF AllBefore, Ticks
  <1>7. Ticks(latest_covered) <= now /\ AllBefore(latest_covered) => (AllBefore(latest_covered))'
    BY <1>1, <1>2, <1>5 DEF AllBefore, Ticks
  <1>8. SweepInv'
    BY <1>6, <1>7 DEF IInv, SweepInv, Ticks
  <1>9. CheckpointSafe'
    <2>1. ASSUME NEW x \in Ids, source = "getDeleted", deleted'[x] # 0,
                 deleted'[x] \in Ticks(0) .. Ticks(since) - 1
          PROVE  x \in delivered
      <3>1. x # i
        BY <1>1, <1>2, <1>5, <2>1, TicksZero DEF IInv, SweepInv
      <3>2. x \in DeletedIn(0, Ticks(since))
        BY <1>2, <2>1, <3>1 DEF DeletedIn
      <3> QED
        BY <2>1, <3>2 DEF IInv, CheckpointSafe
    <2> QED
      BY <2>1 DEF CheckpointSafe, DeletedIn, Ticks
  <1> QED
    BY <1>3, <1>4, <1>8, <1>9 DEF IInv

(* A sweep of salesforce_deleted_ids starts at the checkpoint. *)
LEMMA DeletedIdsBindStep == IInv /\ DeletedIdsBind => IInv'
  <1> SUFFICES ASSUME IInv, DeletedIdsBind PROVE IInv'
    OBVIOUS
  <1> USE DEF org
  <1>1. now \in Nat /\ since \in Nat /\ Seconds(MaxNow) \in Nat /\ MaxNow \in Nat /\ now <= MaxNow
    BY Numbers, IncrementalLoadAssumption DEF IInv, TypeOK
  <1>2. until' \in since .. Seconds(MaxNow) /\ until' \in Nat
    <2>1. PICK u \in {now} \union { Ticks(s) : s \in 1 .. Seconds(MaxNow) } :
            Ticks(since) < u /\ until' = Seconds(u)
      BY DEF DeletedIdsBind
    <2>2. u \in Nat /\ Seconds(u) \in Nat /\ Seconds(u) <= Seconds(MaxNow)
      <3>1. CASE u = now
        BY <1>1, <3>1, SecondsOf, SecondsOrder
      <3>2. ASSUME NEW s \in 1 .. Seconds(MaxNow), u = Ticks(s)
            PROVE  u \in Nat /\ Seconds(u) \in Nat /\ Seconds(u) <= Seconds(MaxNow)
        <4>1. s \in Nat /\ s <= Seconds(MaxNow)
          BY <1>1
        <4> QED
          BY <3>2, <4>1, TicksOrder, SecondsOrder
      <3> QED
        BY <2>1, <3>1, <3>2
    <2>3. Ticks(since) \in Nat
      BY <1>1, TicksOrder
    <2>4. since <= Seconds(u)
      BY <1>1, <2>1, <2>2, <2>3, SecondsOrder
    <2> QED
      BY <1>1, <2>1, <2>2, <2>4
  <1>3. << >> \in Seq(RowSet) /\ << >> \in Seq(Ids) /\ Len(<< >>) = 0
    BY EmptySeq
  <1>4. TypeOK'
    <2>1. sweeps' \in 0 .. MaxSweeps
      <3>1. sweeps \in 0 .. MaxSweeps /\ sweeps < MaxSweeps /\ sweeps' = sweeps + 1
        BY DEF DeletedIdsBind, IInv, TypeOK
      <3> QED
        BY <3>1, IncrementalLoadAssumption
    <2>2. from' \in since' .. until'
      BY <1>1, <1>2 DEF DeletedIdsBind
    <2> QED
      BY <1>1, <1>2, <1>3, <2>1, <2>2, IncrementalLoadAssumption DEF DeletedIdsBind, IInv, TypeOK
  <1>5. BufferInv'
    BY <1>1, <1>3 DEF DeletedIdsBind, IInv, BufferInv
  <1>6. EmitInv'
    BY <1>3 DEF DeletedIdsBind, EmitInv
  <1>7. SweepInv'
    <2>1. Ticks(since) \in Nat /\ \A x \in Ids : deleted[x] \in Nat
      BY <1>1, TicksOrder, Numbers DEF IInv
    <2>2. (AllBefore(from))'
      BY <1>1, <2>1 DEF DeletedIdsBind, AllBefore, Ticks
    <2>3. (AllBefore(latest_covered))'
      BY <1>1, <2>1, TicksZero DEF DeletedIdsBind, AllBefore, Ticks
    <2> QED
      BY <1>1, <1>3, <2>2, <2>3, TicksZero DEF DeletedIdsBind, IInv, SweepInv, Ticks
  <1>8. QueryAllInv'
    <2>1. SubSeq(<< >>, 1, 0) = << >>
      BY SubSeqEmpty
    <2> QED
      BY <2>1 DEF DeletedIdsBind, QueryAllInv
  <1>9. CheckpointSafe'
    BY DEF DeletedIdsBind, IInv, CheckpointSafe, DeletedIn, Ticks
  <1> QED
    BY <1>4, <1>5, <1>6, <1>7, <1>8, <1>9 DEF IInv

(* The pages of the job are sequences of rows. *)
LEMMA JobPages == \A p \in 1 .. Len(Job) : Job[p] \in Seq(RowSet)
  <1> DEFINE R == UNION { Range(Job[p]) : p \in DOMAIN Job }
  <1>1. Job \in Seq(Seq(R))
    BY IncrementalLoadAssumption
  <1>2. R \subseteq RowSet
    BY DEF RowSet
  <1> HIDE DEF R
  <1> QED
    BY <1>1, <1>2, ElementOfSeq, SeqMonotonic

(* A resumed job starts with its first page. *)
LEMMA BulkResumeBindStep == IInv /\ BulkResumeBind => IInv'
  <1> SUFFICES ASSUME IInv, BulkResumeBind PROVE IInv'
    OBVIOUS
  <1> USE DEF BulkResumeBind, org
  <1>1. Len(Job) \in Nat /\ Len(Job) > 0
    BY IncrementalLoadAssumption, LenProperties
  <1>2. rows' \in Seq(RowSet) /\ << >> \in Seq(RowSet) /\ Len(<< >>) = 0
    <2>1. << >> \in Seq(RowSet) /\ Len(<< >>) = 0
      BY EmptySeq
    <2>2. Job[1] \in Seq(RowSet)
      BY <1>1, JobPages
    <2> QED
      BY <2>1, <2>2
  <1>3. Len(rows') \in Nat
    BY <1>2, LenProperties
  <1>4. TypeOK'
    <2>1. sweeps' \in 0 .. MaxSweeps
      BY IncrementalLoadAssumption DEF IInv, TypeOK
    <2> QED
      BY <1>2, <1>3, <2>1 DEF IInv, TypeOK
  <1>5. BufferInv'
    BY <1>1, <1>2 DEF IInv, BufferInv
  <1>6. EmitInv'
    BY <1>2 DEF EmitInv
  <1>7. SweepInv' /\ QueryAllInv'
    BY DEF SweepInv, QueryAllInv
  <1>8. CheckpointSafe'
    BY DEF CheckpointSafe
  <1> QED
    BY <1>4, <1>5, <1>6, <1>7, <1>8 DEF IInv

(* The frontier moves to the second of tick c, and the sweep goes on or    *)
(* ends there: the second half of GetDeletedSlice.                         *)
Covers(c) ==
  /\ latest_covered' = IF Frontier(c) > latest_covered THEN Frontier(c) ELSE latest_covered
  /\ IF Frontier(c) <= from \/ Frontier(c) >= until
     THEN status' = "loaded" /\ UNCHANGED from
     ELSE from' = Frontier(c) /\ UNCHANGED status

(* One slice of getDeleted: what it covers is in the rows. *)
LEMMA GetDeletedSliceStep == IInv /\ GetDeletedSlice => IInv'
  <1> SUFFICES ASSUME IInv, GetDeletedSlice PROVE IInv'
    OBVIOUS
  <1> USE DEF org
  <1>1. /\ now \in Nat /\ since \in Nat /\ until \in Nat /\ latest_covered \in Nat /\ from \in Nat
        /\ requests \in Nat /\ \A i \in Ids : deleted[i] \in Nat
    BY Numbers DEF IInv, BufferInv
  <1>2. /\ Ticks(since) \in Nat /\ Ticks(until) \in Nat /\ Ticks(from) \in Nat
        /\ Ticks(latest_covered) \in Nat
    BY <1>1, TicksOrder
  <1>3. /\ status = "loading" /\ source = "getDeleted" /\ cursor = 0 /\ from \in since .. until
        /\ requests < kGetDeletedMaxLoops /\ latest_covered <= until
        /\ rows \in Seq(RowSet)
    BY DEF GetDeletedSlice, MoreSlices, IInv, TypeOK, EmitInv, BufferInv
  <1> DEFINE Slice(t) ==
               /\ rows' = rows \o Fresh(DeletedIn(from, t))
               /\ \/ status' = "loaded" /\ UNCHANGED <<latest_covered, from>>
                  \/ \E c \in Ticks(from) .. Least(Ticks(until), now - 1) :
                       t = Least(Ticks(until), c + 1) /\ Covers(c)
  <1>4. PICK t \in Nat : Slice(t)
    <2>1. CASE /\ rows' = rows \o Fresh(DeletedIn(from, Least(Ticks(until), now + 1)))
               /\ status' = "loaded" /\ UNCHANGED <<latest_covered, from>>
      <3>1. Least(Ticks(until), now + 1) \in Nat
        BY <1>1, <1>2 DEF Least
      <3> QED
        BY <2>1, <3>1
    <2>2. ASSUME NEW c \in Ticks(from) .. Least(Ticks(until), now - 1),
                 rows' = rows \o Fresh(DeletedIn(from, Least(Ticks(until), c + 1))),
                 Covers(c)
          PROVE  \E t \in Nat : Slice(t)
      <3>1. Least(Ticks(until), c + 1) \in Nat
        BY <1>1, <1>2 DEF Least
      <3> QED
        BY <2>2, <3>1
    <2> QED
      BY <2>1, <2>2 DEF GetDeletedSlice, Covers
  <1> DEFINE ids == DeletedIn(from, t)
  <1>5. /\ rows' \in Seq(RowSet) /\ Len(rows) <= Len(rows') /\ Len(rows) \in Nat
        /\ Len(rows') \in Nat
        /\ \A k \in 1 .. Len(rows) : rows'[k] = rows[k]
        /\ \A i \in ids : \E k \in 1 .. Len(rows') : rows'[k] = i
        /\ (\A j, k \in 1 .. Len(rows) : rows[j] = rows[k] => j = k)
             => \A j, k \in 1 .. Len(rows') : rows'[j] = rows'[k] => j = k
    <2>1. ids \in SUBSET Ids /\ rows' = rows \o Fresh(ids)
      BY <1>4 DEF DeletedIn
    <2> HIDE DEF ids
    <2>2. /\ rows' \in Seq(RowSet) /\ Len(rows) <= Len(rows')
          /\ \A k \in 1 .. Len(rows) : rows'[k] = rows[k]
          /\ \A i \in ids : \E k \in 1 .. Len(rows') : rows'[k] = i
          /\ (\A j, k \in 1 .. Len(rows) : rows[j] = rows[k] => j = k)
               => \A j, k \in 1 .. Len(rows') : rows'[j] = rows'[k] => j = k
      BY <1>3, <2>1, AddFresh
    <2> QED
      BY <1>3, <2>2, LenProperties
  <1>6. \A i \in Ids : (\E k \in 1 .. Len(rows) : rows[k] = i)
                       => \E k \in 1 .. Len(rows') : rows'[k] = i
    BY <1>5
  <1>7. /\ since' = since /\ until' = until /\ deleted' = deleted /\ now' = now
        /\ source' = source /\ requests' = requests + 1 /\ cursor' = cursor /\ out' = out
        /\ UNCHANGED <<result, at, delivered, sweeps, repeats>>
    BY DEF GetDeletedSlice
  <1>8. /\ AllBefore(from) /\ AllBefore(latest_covered)
        /\ Ticks(since) <= now /\ Ticks(from) <= now /\ Ticks(latest_covered) <= now
        /\ \A j, k \in 1 .. Len(rows) : rows[j] = rows[k] => j = k
    BY <1>3 DEF IInv, SweepInv
  <1> DEFINE Good ==
               /\ latest_covered' \in Nat /\ latest_covered' <= until
               /\ Ticks(latest_covered') <= now
               /\ from' \in since .. until /\ Ticks(from') <= now
               /\ status' \in {"loading", "loaded"}
               /\ (AllBefore(latest_covered))' /\ (AllBefore(from))'
  <1>9. Good
    <2>1. CASE status' = "loaded" /\ UNCHANGED <<latest_covered, from>>
      <3>1. (AllBefore(latest_covered))' /\ (AllBefore(from))'
        BY <1>6, <1>7, <1>8, <2>1 DEF AllBefore, Ticks
      <3> QED
        BY <1>1, <1>3, <1>8, <2>1, <3>1
    <2>2. ASSUME NEW c \in Ticks(from) .. Least(Ticks(until), now - 1),
                 t = Least(Ticks(until), c + 1), Covers(c)
          PROVE  Good
      <3> DEFINE F == Seconds(c)
      <3>1. c \in Nat /\ Ticks(from) <= c /\ c <= Ticks(until) /\ c <= now
        BY <1>1, <1>2 DEF Least
      <3>2. F \in Nat /\ Ticks(F) <= c /\ from <= F
        BY <1>1, <3>1, SecondsOf, SecondsOrder
      <3> HIDE DEF F
      <3>3. Ticks(F) \in Nat /\ F <= until
        BY <1>1, <1>2, <3>1, <3>2, TicksOrder
      <3>4. ASSUME NEW i \in Ids, deleted[i] # 0, Ticks(since) <= deleted[i], deleted[i] < Ticks(F)
            PROVE  \E k \in 1 .. Len(rows') : rows'[k] = i
        <4>1. CASE deleted[i] < Ticks(from)
          BY <1>6, <1>8, <3>4, <4>1 DEF AllBefore
        <4>2. CASE deleted[i] >= Ticks(from)
          <5>1. deleted[i] \in Ticks(from) .. t - 1
            BY <1>1, <1>2, <2>2, <3>1, <3>2, <3>3, <3>4, <4>2 DEF Least
          <5>2. i \in ids
            BY <3>4, <5>1 DEF DeletedIn
          <5> QED
            BY <1>5, <5>2
        <4> QED
          BY <1>1, <1>2, <4>1, <4>2
      <3>5. latest_covered' = F \/ latest_covered' = latest_covered
        BY <2>2 DEF Covers, Frontier, F
      <3>6. from' = F \/ from' = from
        BY <2>2 DEF Covers, Frontier, F
      <3>7. Ticks(F) <= now
        BY <1>1, <3>1, <3>2, <3>3
      <3>8. (AllBefore(latest_covered))'
        BY <1>6, <1>7, <1>8, <3>4, <3>5 DEF AllBefore, Ticks
      <3>9. (AllBefore(from))'
        BY <1>6, <1>7, <1>8, <3>4, <3>6 DEF AllBefore, Ticks
      <3>10. status' \in {"loading", "loaded"}
        BY <1>3, <2>2 DEF Covers
      <3>11. from' \in since .. until /\ Ticks(from') <= now
        BY <1>1, <1>3, <1>8, <3>2, <3>3, <3>6, <3>7
      <3> QED
        BY <1>1, <1>3, <1>8, <3>2, <3>3, <3>5, <3>7, <3>8, <3>9, <3>10, <3>11
    <2> QED
      BY <1>4, <2>1, <2>2
  <1>10. TypeOK'
    <2>1. requests' \in 0 .. kGetDeletedMaxLoops + kQueryAllMaxPages
      BY <1>1, <1>3, <1>7, IncrementalLoadAssumption
    <2>2. latest_covered' \in 0 .. until'
      BY <1>1, <1>7, <1>9
    <2>3. cursor' \in 0 .. Len(rows')
      BY <1>3, <1>5, <1>7
    <2> QED
      BY <1>7, <1>9, <2>1, <2>2, <2>3 DEF IInv, TypeOK
  <1>11. BufferInv'
    BY <1>1, <1>3, <1>5, <1>7, <1>9 DEF IInv, BufferInv
  <1>12. EmitInv'
    BY <1>3, <1>7, <1>9 DEF IInv, EmitInv
  <1>13. SweepInv'
    BY <1>5, <1>7, <1>8, <1>9 DEF SweepInv, Ticks
  <1>14. QueryAllInv'
    BY <1>3, <1>7 DEF QueryAllInv
  <1>15. CheckpointSafe'
    BY <1>7 DEF IInv, CheckpointSafe, DeletedIn, Ticks
  <1> QED
    BY <1>10, <1>11, <1>12, <1>13, <1>14, <1>15 DEF IInv

(* The steps that only end a stage: getDeleted has no more slices,         *)
(* queryAll too many pages, a request throws, or everything was emitted.   *)
LEMMA StageEnds ==
  ASSUME IInv, GetDeletedEnd \/ QueryAllTooMany \/ LoadFails \/ EmitNothing
  PROVE  IInv'
  <1>1. /\ UNCHANGED <<org, source, since, until, from, requests, result, at, latest_covered, rows,
                       cursor, out, delivered, sweeps>>
        /\ \/ status' = "loaded" /\ status = "loading" /\ source = "getDeleted"
           \/ status' = "failed" /\ status = "loading"
           \/ status' = "done" /\ status = "loaded" /\ cursor = Len(rows)
    BY DEF GetDeletedEnd, QueryAllTooMany, LoadFails, EmitNothing
  <1> USE DEF org
  <1>2. TypeOK'
    BY <1>1 DEF IInv, TypeOK
  <1>3. BufferInv' /\ EmitInv'
    BY <1>1 DEF IInv, BufferInv, EmitInv
  <1>4. QueryAllInv'
    BY <1>1 DEF IInv, QueryAllInv
  <1>5. SweepInv'
    <2>1. (AllBefore(latest_covered))' = AllBefore(latest_covered)
      BY <1>1 DEF AllBefore, Ticks
    <2> QED
      BY <1>1, <2>1 DEF IInv, SweepInv, Ticks
  <1>6. CheckpointSafe'
    BY <1>1 DEF IInv, CheckpointSafe, DeletedIn, Ticks
  <1> QED
    BY <1>2, <1>3, <1>4, <1>5, <1>6 DEF IInv

(* One page of queryAll: unless the cursor leads nowhere, the rows are the *)
(* result up to the position of the cursor.                                *)
LEMMA QueryAllPageStep == IInv /\ QueryAllPage => IInv'
  <1> SUFFICES ASSUME IInv, QueryAllPage PROVE IInv'
    OBVIOUS
  <1> USE DEF org
  <1>1. /\ now \in Nat /\ requests \in Nat /\ at \in Nat /\ repeats \in BOOLEAN
        /\ rows \in Seq(RowSet) /\ result \in Seq(Ids)
    BY Numbers DEF IInv, BufferInv
  <1>2. /\ status = "loading" /\ source = "queryAll" /\ cursor = 0 /\ requests < kQueryAllMaxPages
        /\ requests' = requests + 1
        /\ UNCHANGED <<org, source, since, until, from, latest_covered, cursor, out, delivered,
                       sweeps>>
    BY DEF QueryAllPage, PagesLeft, IInv, EmitInv
  <1>3. result' \in Seq(Ids)
    <2>1. DeletedIn(since, now + 1) \subseteq Ids
      BY DEF DeletedIn
    <2>2. IsFiniteSet(DeletedIn(since, now + 1))
      BY <2>1, FS_Subset, IncrementalLoadAssumption
    <2>3. SetToSeq(DeletedIn(since, now + 1)) \in Seq(DeletedIn(since, now + 1))
      BY <2>2, SetToSeqType
    <2>4. SetToSeq(DeletedIn(since, now + 1)) \in Seq(Ids)
      BY <2>1, <2>3, SeqMonotonic
    <2> QED
      BY <1>1, <2>4 DEF QueryAllPage
  <1>4. Len(result') \in Nat /\ DOMAIN result' = 1 .. Len(result')
        /\ \A k \in 1 .. Len(result') : result'[k] \in Ids
    BY <1>3, LenProperties, ElementOfSeq
  <1>5. PICK n \in 0 .. Len(result') - at :
          /\ rows' = rows \o PageOf(result', at, n)
          /\ IF repeats
             THEN UNCHANGED <<at, status>>
             ELSE at' = at + n /\ status' = IF at + n = Len(result') THEN "loaded" ELSE "loading"
    BY DEF QueryAllPage
  <1>6. n \in Nat /\ at + n <= Len(result') /\ at <= Len(result')
    BY <1>1, <1>4
  <1>7. rows' \in Seq(RowSet) /\ Len(rows') \in Nat
    <2>1. at + 1 \in Int /\ at + n \in Int /\ \A k \in at + 1 .. at + n : result'[k] \in RowSet
      BY <1>1, <1>4, <1>6 DEF RowSet
    <2>2. SubSeq(result', at + 1, at + n) \in Seq(RowSet)
      BY <2>1, SubSeqProperties
    <2>3. rows' \in Seq(RowSet)
      BY <1>1, <1>5, <2>2, ConcatProperties DEF PageOf
    <2> QED
      BY <2>3, LenProperties
  <1>8. at' \in Nat /\ at' <= Len(result') /\ status' \in {"loading", "loaded"}
    BY <1>1, <1>2, <1>5, <1>6
  <1>9. TypeOK'
    <2>1. requests' \in 0 .. kGetDeletedMaxLoops + kQueryAllMaxPages
      BY <1>1, <1>2, IncrementalLoadAssumption
    <2>2. cursor' \in 0 .. Len(rows')
      BY <1>2, <1>7
    <2> QED
      BY <1>2, <1>8, <2>1, <2>2 DEF IInv, TypeOK
  <1>10. BufferInv'
    BY <1>1, <1>2, <1>3, <1>7, <1>8 DEF IInv, BufferInv
  <1>11. EmitInv'
    BY <1>2, <1>8 DEF IInv, EmitInv
  <1>12. SweepInv'
    BY <1>2 DEF SweepInv
  <1>13. CheckpointSafe'
    BY <1>2 DEF CheckpointSafe
  <1>14. QueryAllInv'
    <2>1. CASE repeats
      BY <1>2, <1>5, <2>1 DEF QueryAllInv
    <2>2. CASE ~ repeats
      <3>1. rows = SubSeq(result', 1, at)
        <4>1. CASE requests = 0
          <5>1. at = 0 /\ rows = << >>
            BY <1>2, <4>1 DEF IInv, BufferInv
          <5>2. SubSeq(result', 1, 0) = << >>
            BY SubSeqEmpty
          <5> QED
            BY <5>1, <5>2
        <4>2. CASE requests # 0
          BY <1>2, <2>2, <4>2 DEF QueryAllPage, IInv, QueryAllInv
        <4> QED
          BY <4>1, <4>2
      <3>2. 1 \in 1 .. Len(result') + 1 /\ at \in 1 - 1 .. Len(result')
            /\ at + n \in at .. Len(result')
        BY <1>1, <1>4, <1>6
      <3>3. rows' = SubSeq(result', 1, at + n)
        BY <1>3, <1>5, <3>1, <3>2, ConcatAdjacentSubSeq DEF PageOf
      <3>4. SubSeq(result', 1, Len(result')) = result'
        BY <1>3, SubSeqFull
      <3> QED
        BY <1>2, <1>5, <2>2, <3>3, <3>4 DEF QueryAllInv
    <2> QED
      BY <1>1, <2>1, <2>2
  <1> QED
    BY <1>9, <1>10, <1>11, <1>12, <1>13, <1>14 DEF IInv

(* A vector of rows is emitted: the next rows, in their order. *)
LEMMA EmitStep == IInv /\ Emit => IInv'
  <1> SUFFICES ASSUME IInv, Emit PROVE IInv'
    OBVIOUS
  <1> USE DEF org
  <1>1. /\ cursor \in Nat /\ rows \in Seq(RowSet) /\ out \in Seq(RowSet)
        /\ Len(rows) \in Nat /\ Len(out) \in Nat /\ cursor < Len(rows) /\ Len(out) >= cursor
        /\ \A k \in 1 .. Len(rows) : rows[k] \in RowSet
    <2>1. cursor \in Nat /\ rows \in Seq(RowSet) /\ out \in Seq(RowSet)
          /\ cursor < Len(rows) /\ Len(out) >= cursor
      BY Numbers DEF IInv, BufferInv, TypeOK, Emit
    <2> QED
      BY <2>1, LenProperties, ElementOfSeq
  <1> DEFINE to == Least(cursor + STANDARD_VECTOR_SIZE, Len(rows))
  <1>2. to \in Nat /\ cursor < to /\ to <= Len(rows)
    BY <1>1, IncrementalLoadAssumption DEF Least
  <1>3. /\ status = "loaded" /\ out' = out \o SubSeq(rows, cursor + 1, to) /\ cursor' = to
        /\ delivered' = delivered \union Range(out')
        /\ UNCHANGED <<org, source, since, until, from, requests, result, at, latest_covered, rows,
                       sweeps, status>>
    BY DEF Emit
  <1> HIDE DEF to
  <1>4. /\ SubSeq(rows, cursor + 1, to) \in Seq(RowSet)
        /\ Len(SubSeq(rows, cursor + 1, to)) = to - cursor
        /\ \A k \in 1 .. to - cursor : SubSeq(rows, cursor + 1, to)[k] = rows[cursor + k]
    <2>1. cursor + 1 \in Int /\ to \in Int /\ \A k \in cursor + 1 .. to : rows[k] \in RowSet
      BY <1>1, <1>2
    <2>2. /\ SubSeq(rows, cursor + 1, to) \in Seq(RowSet)
          /\ Len(SubSeq(rows, cursor + 1, to)) =
               IF cursor + 1 <= to THEN to - (cursor + 1) + 1 ELSE 0
          /\ \A k \in 1 .. to - (cursor + 1) + 1 :
               SubSeq(rows, cursor + 1, to)[k] = rows[(cursor + 1) + k - 1]
      BY <2>1, SubSeqProperties
    <2>3. cursor + 1 <= to /\ to - (cursor + 1) + 1 = to - cursor
      BY <1>1, <1>2
    <2>4. \A k \in 1 .. to - cursor : (cursor + 1) + k - 1 = cursor + k
      BY <1>1, <1>2
    <2> QED
      BY <2>2, <2>3, <2>4, Zenon
  <1>5. /\ out' \in Seq(RowSet) /\ Len(out') = Len(out) + (to - cursor)
        /\ \A k \in 1 .. Len(out) + (to - cursor) :
             out'[k] = IF k <= Len(out) THEN out[k] ELSE SubSeq(rows, cursor + 1, to)[k - Len(out)]
    BY <1>1, <1>3, <1>4, ConcatProperties
  <1>6. \A k \in 1 .. Len(out') : out'[k] \in delivered'
    <2>1. DOMAIN out' = 1 .. Len(out')
      BY <1>5, LenProperties
    <2> QED
      BY <1>3, <2>1 DEF Range
  <1>7. source # "resume" => Len(out') = to /\ \A k \in 1 .. to : out'[k] = rows[k]
    <2> SUFFICES ASSUME source # "resume"
                 PROVE  Len(out') = to /\ \A k \in 1 .. to : out'[k] = rows[k]
      OBVIOUS
    <2>1. Len(out) = cursor /\ \A k \in 1 .. cursor : out[k] = rows[k]
      BY DEF IInv, EmitInv
    <2>2. Len(out') = to
      BY <1>1, <1>2, <1>5, <2>1
    <2>3. ASSUME NEW k \in 1 .. to PROVE out'[k] = rows[k]
      <3>1. CASE k <= cursor
        BY <1>1, <1>2, <1>5, <2>1, <3>1
      <3>2. CASE k > cursor
        <4>1. k - cursor \in 1 .. to - cursor /\ cursor + (k - cursor) = k
          BY <1>1, <1>2, <3>2
        <4>2. out'[k] = SubSeq(rows, cursor + 1, to)[k - cursor]
          BY <1>1, <1>2, <1>5, <2>1, <3>2
        <4> QED
          BY <1>4, <4>1, <4>2
      <3> QED
        BY <1>1, <1>2, <3>1, <3>2
    <2> QED
      BY <2>2, <2>3
  <1>8. TypeOK'
    <2>1. cursor' \in 0 .. Len(rows') /\ Len(out') >= cursor'
      BY <1>1, <1>2, <1>3, <1>5
    <2> QED
      BY <1>3, <2>1 DEF IInv, TypeOK
  <1>9. BufferInv' /\ QueryAllInv'
    BY <1>3, <1>5 DEF IInv, BufferInv, QueryAllInv
  <1>10. EmitInv'
    BY <1>3, <1>6, <1>7 DEF EmitInv
  <1>11. SweepInv'
    <2>1. (AllBefore(latest_covered))' = AllBefore(latest_covered)
      BY <1>3 DEF AllBefore, Ticks
    <2> QED
      BY <1>3, <2>1 DEF IInv, SweepInv, Ticks
  <1>12. CheckpointSafe'
    BY <1>3 DEF IInv, CheckpointSafe, DeletedIn, Ticks
  <1> QED
    BY <1>8, <1>9, <1>10, <1>11, <1>12 DEF IInv

(* The next page of a resumed job. *)
LEMMA ResumeNextPageStep == IInv /\ ResumeNextPage => IInv'
  <1> SUFFICES ASSUME IInv, ResumeNextPage PROVE IInv'
    OBVIOUS
  <1> USE DEF org
  <1>1. /\ source = "resume" /\ at \in Nat /\ at < Len(Job) /\ Len(Job) \in Nat /\ status = "loaded"
        /\ rows \in Seq(RowSet) /\ Len(out) >= cursor /\ cursor \in 0 .. Len(rows)
    BY LenProperties, IncrementalLoadAssumption
       DEF IInv, BufferInv, TypeOK, ResumeNextPage, HasLocator
  <1>2. /\ UNCHANGED <<org, source, since, until, from, requests, result, latest_covered, out,
                       delivered, sweeps>>
        /\ \/ rows' = Job[at + 1] /\ at' = at + 1 /\ cursor' = 0 /\ status' = status
           \/ status' = "failed" /\ rows' = rows /\ at' = at /\ cursor' = cursor
    BY DEF ResumeNextPage
  <1>3. Job[at + 1] \in Seq(RowSet)
    BY <1>1, JobPages
  <1>4. Len(Job[at + 1]) \in Nat /\ out \in Seq(RowSet) /\ Len(out) \in Nat
    BY <1>3, LenProperties DEF IInv, BufferInv
  <1>5. rows' \in Seq(RowSet) /\ cursor' \in 0 .. Len(rows') /\ Len(out') >= cursor'
        /\ at' \in Nat /\ at' <= Len(Job) /\ status' \in {"loaded", "failed"}
    <2>1. CASE rows' = Job[at + 1] /\ at' = at + 1 /\ cursor' = 0 /\ status' = status
      BY <1>1, <1>2, <1>3, <1>4, <2>1
    <2>2. CASE status' = "failed" /\ rows' = rows /\ at' = at /\ cursor' = cursor
      BY <1>1, <1>2, <2>2
    <2> QED
      BY <1>2, <2>1, <2>2
  <1>6. TypeOK'
    BY <1>2, <1>5 DEF IInv, TypeOK
  <1>7. BufferInv'
    BY <1>1, <1>2, <1>5 DEF IInv, BufferInv
  <1>8. EmitInv'
    BY <1>1, <1>2, <1>5 DEF IInv, EmitInv
  <1>9. SweepInv' /\ QueryAllInv' /\ CheckpointSafe'
    BY <1>1, <1>2 DEF SweepInv, QueryAllInv, CheckpointSafe
  <1> QED
    BY <1>6, <1>7, <1>8, <1>9 DEF IInv

(* The checkpoint moves: the sweep that moves it has emitted all its rows. *)
LEMMA NextSweepStep == IInv /\ NextSweep => IInv'
  <1> SUFFICES ASSUME IInv, NextSweep PROVE IInv'
    OBVIOUS
  <1> USE DEF org
  <1>1. /\ now \in Nat /\ since \in Nat /\ until \in Nat /\ latest_covered \in Nat
        /\ \A i \in Ids : deleted[i] \in Nat
    BY Numbers DEF IInv
  <1>2. /\ status \in {"done", "failed"} /\ status' = "idle"
        /\ UNCHANGED <<org, source, until, from, requests, result, at, latest_covered, rows, cursor,
                       out, delivered, sweeps>>
        /\ \/ since' = since
           \/ since' = latest_covered /\ status = "done" /\ source = "getDeleted"
    BY DEF NextSweep
  <1>3. TypeOK'
    <2>1. since' \in 0 .. Seconds(MaxNow)
      BY <1>1, <1>2, Numbers DEF IInv, TypeOK
    <2> QED
      BY <1>2, <2>1 DEF IInv, TypeOK
  <1>4. BufferInv' /\ EmitInv' /\ QueryAllInv'
    BY <1>2 DEF IInv, BufferInv, EmitInv, QueryAllInv
  <1>5. SweepInv'
    BY <1>2 DEF IInv, SweepInv, Ticks
  <1>6. CheckpointSafe'
    <2>1. CASE since' = since
      BY <1>2, <2>1 DEF IInv, CheckpointSafe, DeletedIn, Ticks
    <2>2. CASE since' = latest_covered /\ status = "done" /\ source = "getDeleted"
      <3>1. Ticks(since) \in Nat /\ Ticks(latest_covered) \in Nat
        BY <1>1, TicksOrder
      <3>2. AllBefore(latest_covered) /\ cursor = Len(rows)
            /\ \A k \in 1 .. cursor : out[k] = rows[k] /\ out[k] \in delivered
        BY <2>2 DEF IInv, SweepInv, EmitInv
      <3>3. ASSUME NEW i \in Ids, deleted[i] # 0, deleted[i] < Ticks(latest_covered)
            PROVE  i \in delivered
        <4>1. CASE deleted[i] < Ticks(since)
          <5>1. i \in DeletedIn(0, Ticks(since))
            BY <1>1, <3>1, <3>3, <4>1, TicksZero DEF DeletedIn
          <5> QED
            BY <2>2, <5>1 DEF IInv, CheckpointSafe
        <4>2. CASE Ticks(since) <= deleted[i]
          <5>1. PICK k \in 1 .. Len(rows) : rows[k] = i
            BY <3>2, <3>3, <4>2 DEF AllBefore
          <5> QED
            BY <3>2, <5>1
        <4> QED
          BY <1>1, <3>1, <4>1, <4>2
      <3>4. \A i \in Ids : deleted[i] \in Ticks(0) .. Ticks(latest_covered) - 1
                           => deleted[i] < Ticks(latest_covered)
        BY <1>1, <3>1, TicksZero
      <3> QED
        BY <1>2, <2>2, <3>3, <3>4 DEF CheckpointSafe, DeletedIn, Ticks
    <2> QED
      BY <1>2, <2>1, <2>2
  <1> QED
    BY <1>3, <1>4, <1>5, <1>6 DEF IInv

(* Nothing happens. *)
LEMMA StutterStep == IInv /\ UNCHANGED vars => IInv'
  BY DEF vars, IInv, TypeOK, BufferInv, EmitInv, SweepInv, AllBefore, QueryAllInv, CheckpointSafe,
         DeletedIn, Ticks

(* Every step keeps the invariant. *)
LEMMA Inductive == IInv /\ [Next]_vars => IInv'
  BY TickStep, DeleteStep, DeletedIdsBindStep, BulkResumeBindStep, GetDeletedSliceStep, StageEnds,
     QueryAllPageStep, EmitStep, ResumeNextPageStep, NextSweepStep, StutterStep
     DEF Next

(* The invariant holds in every state of every behaviour. *)
LEMMA Invariant == Spec => []IInv
  BY IInit, Inductive, PTL DEF Spec

-----------------------------------------------------------------------------
(* The theorems.                                                           *)

(* Every variable of the incremental load keeps its type, and a slice      *)
(* starts inside its window.                                               *)
THEOREM LoadTypeOK == Spec => []TypeOK
  <1>1. IInv => TypeOK
    BY DEF IInv
  <1> QED
    BY <1>1, Invariant, PTL

(* The checkpoint never runs ahead of what was delivered, for any clock    *)
(* resolution: latest_covered of LoadViaGetDeleted is safe to resume from. *)
THEOREM LoadCheckpointSafe == Spec => []CheckpointSafe
  <1>1. IInv => CheckpointSafe
    BY DEF IInv
  <1> QED
    BY <1>1, Invariant, PTL

(* A getDeleted sweep emits no id twice, however many of its slices        *)
(* overlap: the seen set of LoadViaGetDeleted.                             *)
THEOREM LoadEmitsEachIdOnce == Spec => []EachIdOnce
  <1>1. IInv => EachIdOnce
    <2> SUFFICES ASSUME IInv, source = "getDeleted" PROVE IsInjective(out)
      BY DEF EachIdOnce
    <2>1. /\ out \in Seq(RowSet) /\ Len(out) = cursor /\ cursor \in 0 .. Len(rows)
          /\ rows \in Seq(RowSet) /\ \A k \in 1 .. cursor : out[k] = rows[k]
          /\ \A j, k \in 1 .. Len(rows) : rows[j] = rows[k] => j = k
      BY DEF IInv, TypeOK, BufferInv, EmitInv, SweepInv
    <2>2. DOMAIN out = 1 .. cursor /\ Len(rows) \in Nat
      BY <2>1, LenProperties
    <2> QED
      BY <2>1, <2>2 DEF IsInjective
  <1> QED
    BY <1>1, Invariant, PTL

-----------------------------------------------------------------------------
(* The pages of a resumed job, one after the other.                        *)

(* A nonempty set of natural numbers has a least element. *)
LEMMA LeastElement ==
  ASSUME NEW T, T \subseteq Nat, T # {}
  PROVE  \E k \in T : \A l \in T : k <= l
  <1>1. PICK R : R = OpToRel(<, Nat)
    BY Zenon
  <1>2. IsWellFoundedOn(R, Nat) /\ R = { ss \in Nat \X Nat : ss[1] < ss[2] }
    BY <1>1, NatLessThanWellFounded, Zenon DEF OpToRel
  <1>3. PICK k \in T : \A l \in T : ~ (<<l, k>> \in R)
    BY <1>2, WFMin
  <1>4. ASSUME NEW l \in T, l < k PROVE FALSE
    <2>1. <<l, k>> \in Nat \X Nat /\ <<l, k>>[1] < <<l, k>>[2]
      BY <1>4
    <2> QED
      BY <1>2, <1>3, <2>1, Zenon
  <1> QED
    BY <1>4

(* f[i] is the rows of the first i pages. *)
FirstPages(f, n) == f = [i \in 1 .. n |-> IF i = 1 THEN Job[i] ELSE f[i - 1] \o Job[i]]

(* FlattenSeq chooses such a function for all the pages. *)
Flat == CHOOSE f : FirstPages(f, Len(Job))

(* The rows of the pages before page k. *)
Before(k) == IF k = 1 THEN << >> ELSE Flat[k - 1]

(* There is such a function for any number of pages: one more page is one  *)
(* more concatenation.                                                     *)
LEMMA FirstPagesExist == \A n \in Nat : \E f : FirstPages(f, n)
  <1> DEFINE T == { n \in Nat : ~ \E f : FirstPages(f, n) }
  <1> SUFFICES ASSUME T # {} PROVE FALSE
    OBVIOUS
  <1>1. PICK m \in T : \A l \in T : m <= l
    BY LeastElement
  <1>2. m # 0
    <2>1. FirstPages([i \in 1 .. 0 |-> 0], 0)
      BY DEF FirstPages
    <2> QED
      BY <2>1
  <1>3. m \in Nat /\ m - 1 \in Nat /\ m - 1 \notin T
    BY <1>1, <1>2
  <1>4. PICK g : FirstPages(g, m - 1)
    BY <1>3
  <1> DEFINE last == IF m = 1 THEN Job[m] ELSE g[m - 1] \o Job[m]
             h == [i \in 1 .. m |-> IF i = m THEN last ELSE g[i]]
  <1>5. ASSUME NEW i \in 1 .. m PROVE h[i] = IF i = 1 THEN Job[i] ELSE h[i - 1] \o Job[i]
    <2>1. CASE i = m
      BY <1>3, <2>1
    <2>2. CASE i # m
      <3>1. i \in 1 .. m - 1 /\ (i # 1 => i - 1 \in 1 .. m - 1)
        BY <1>3, <2>2
      <3>2. g[i] = IF i = 1 THEN Job[i] ELSE g[i - 1] \o Job[i]
        BY <1>4, <3>1 DEF FirstPages
      <3>3. i - 1 # m
        BY <1>3, <3>1
      <3>4. h[i] = g[i] /\ (i # 1 => h[i - 1] = g[i - 1])
        BY <1>3, <2>2, <3>1, <3>3
      <3> QED
        BY <3>2, <3>4
    <2> QED
      BY <2>1, <2>2
  <1>6. FirstPages(h, m)
    <2>1. h = [i \in 1 .. m |-> h[i]]
      OBVIOUS
    <2> HIDE DEF h
    <2> QED
      BY <1>5, <2>1 DEF FirstPages
  <1> QED
    BY <1>1, <1>6

(* What FlattenSeq computes of the job, page by page. *)
LEMMA FlatPages ==
  /\ FlattenSeq(Job) = Flat[Len(Job)]
  /\ \A k \in 1 .. Len(Job) : Flat[k] = Before(k) \o Job[k]
  <1>1. Len(Job) \in Nat /\ Len(Job) > 0 /\ Job[1] \in Seq(RowSet)
    BY IncrementalLoadAssumption, LenProperties, JobPages
  <1>2. FirstPages(Flat, Len(Job))
    BY <1>1, FirstPagesExist DEF Flat
  <1>3. FlattenSeq(Job) = Flat[Len(Job)]
    BY <1>1 DEF FlattenSeq, Flat, FirstPages
  <1>4. << >> \o Job[1] = Job[1]
    BY <1>1
  <1> QED
    BY <1>1, <1>2, <1>3, <1>4 DEF FirstPages, Before

(* The rows before a page are a sequence. *)
LEMMA BeforeType == \A k \in 1 .. Len(Job) : Before(k) \in Seq(RowSet)
  <1> DEFINE T == { k \in Nat : k \in 1 .. Len(Job) /\ Before(k) \notin Seq(RowSet) }
  <1> SUFFICES ASSUME T # {} PROVE FALSE
    OBVIOUS
  <1>1. PICK m \in T : \A l \in T : m <= l
    BY LeastElement
  <1>2. m # 1
    BY EmptySeq DEF Before
  <1>3. Len(Job) \in Nat
    BY IncrementalLoadAssumption, LenProperties
  <1>4. m - 1 \in 1 .. Len(Job) /\ m - 1 \notin T
    BY <1>1, <1>2, <1>3
  <1>5. Before(m - 1) \in Seq(RowSet) /\ Job[m - 1] \in Seq(RowSet)
    BY <1>4, JobPages
  <1>6. Before(m) = Before(m - 1) \o Job[m - 1]
    <2>1. Flat[m - 1] = Before(m - 1) \o Job[m - 1]
      BY <1>4, FlatPages
    <2> QED
      BY <1>2, <2>1 DEF Before
  <1> QED
    BY <1>1, <1>5, <1>6, ConcatProperties

(* Rows are joined in any grouping. *)
LEMMA JoinRows ==
  \A s, t, u \in Seq(RowSet) : (s \o t) \o u = s \o (t \o u)
  <1> TAKE s, t, u \in Seq(RowSet)
  <1>1. /\ Len(s) \in Nat /\ Len(t) \in Nat /\ Len(u) \in Nat
        /\ (s \o t) \in Seq(RowSet) /\ (t \o u) \in Seq(RowSet)
    BY LenProperties, ConcatProperties
  <1> QED
    BY <1>1

(* A resumed job has emitted the pages before the one it holds, and of     *)
(* that one the rows up to its cursor.                                     *)
ResumeInv ==
  source = "resume" /\ status \in {"loaded", "done"} =>
    /\ at \in 1 .. Len(Job) /\ rows = Job[at]
    /\ out = Before(at) \o SubSeq(rows, 1, cursor)
    /\ status = "done" => at = Len(Job) /\ cursor = Len(rows)

(* Every step keeps it. *)
LEMMA ResumeStep == IInv /\ ResumeInv /\ [Next]_vars => ResumeInv'
  <1> SUFFICES ASSUME IInv, ResumeInv, [Next]_vars, source' = "resume",
                      status' \in {"loaded", "done"}
               PROVE  /\ at' \in 1 .. Len(Job) /\ rows' = Job[at']
                      /\ out' = Before(at') \o SubSeq(rows', 1, cursor')
                      /\ status' = "done" => at' = Len(Job) /\ cursor' = Len(rows')
    BY DEF ResumeInv
  <1> USE DEF org
  <1>1. Len(Job) \in Nat /\ Len(Job) > 0
    BY IncrementalLoadAssumption, LenProperties
  <1>2. source = "resume"
    BY DEF Next, vars, Tick, Delete, DeletedIdsBind, BulkResumeBind, GetDeletedSlice, GetDeletedEnd,
           QueryAllPage, QueryAllTooMany, LoadFails, Emit, ResumeNextPage, EmitNothing, NextSweep
  <1>3. /\ rows \in Seq(RowSet) /\ out \in Seq(RowSet) /\ cursor \in 0 .. Len(rows)
        /\ Len(rows) \in Nat
    BY LenProperties DEF IInv, BufferInv, TypeOK
  <1>4. CASE BulkResumeBind
    <2>1. rows' = Job[1] /\ at' = 1 /\ status' = "loaded" /\ cursor' = 0 /\ out' = << >>
      BY <1>4 DEF BulkResumeBind
    <2>2. Job[1] \in Seq(RowSet)
      BY <1>1, JobPages
    <2>3. << >> \o SubSeq(Job[1], 1, 0) = << >>
      BY <2>2
    <2> QED
      BY <1>1, <2>1, <2>3 DEF Before
  <1>5. CASE Emit
    <2> DEFINE to == Least(cursor + STANDARD_VECTOR_SIZE, Len(rows))
    <2>1. /\ status = "loaded" /\ out' = out \o SubSeq(rows, cursor + 1, to) /\ cursor' = to
          /\ UNCHANGED <<rows, at, status>>
      BY <1>5 DEF Emit
    <2>2. to \in Nat /\ cursor <= to /\ to <= Len(rows)
      BY <1>3, IncrementalLoadAssumption DEF Least
    <2> HIDE DEF to
    <2>3. at \in 1 .. Len(Job) /\ rows = Job[at] /\ out = Before(at) \o SubSeq(rows, 1, cursor)
      BY <1>2, <2>1 DEF ResumeInv
    <2>4. Before(at) \in Seq(RowSet)
      BY <2>3, BeforeType
    <2>5. out' = Before(at) \o SubSeq(rows, 1, to)
      <3>1. SubSeq(rows, 1, cursor) \o SubSeq(rows, cursor + 1, to) = SubSeq(rows, 1, to)
        BY <1>3, <2>2
      <3>2. /\ SubSeq(rows, 1, cursor) \in Seq(RowSet)
            /\ SubSeq(rows, cursor + 1, to) \in Seq(RowSet)
        BY <1>3, <2>2
      <3> DEFINE a == SubSeq(rows, 1, cursor)
      <3> DEFINE b == SubSeq(rows, cursor + 1, to)
      <3>3. a \in Seq(RowSet) /\ b \in Seq(RowSet) /\ a \o b = SubSeq(rows, 1, to)
        BY <3>1, <3>2
      <3>4. out = Before(at) \o a /\ out' = out \o b
        BY <2>1, <2>3
      <3> HIDE DEF a, b
      <3>5. (Before(at) \o a) \o b = Before(at) \o (a \o b)
        BY <2>4, <3>3, JoinRows
      <3> QED
        BY <3>3, <3>4, <3>5
    <2> QED
      BY <2>1, <2>3, <2>5
  <1>6. CASE ResumeNextPage
    <2>1. /\ status = "loaded" /\ cursor = Len(rows) /\ at < Len(Job)
          /\ rows' = Job[at + 1] /\ at' = at + 1 /\ cursor' = 0 /\ out' = out
          /\ status' = "loaded"
      BY <1>6 DEF ResumeNextPage, HasLocator
    <2>2. at \in 1 .. Len(Job) /\ rows = Job[at] /\ out = Before(at) \o SubSeq(rows, 1, cursor)
      BY <1>2, <2>1 DEF ResumeInv
    <2>3. SubSeq(rows, 1, Len(rows)) = rows
      BY <1>3
    <2>4. out = Before(at + 1)
      <3>1. Flat[at] = Before(at) \o Job[at]
        BY <2>2, FlatPages
      <3>2. at + 1 # 1 /\ (at + 1) - 1 = at
        BY <1>1, <2>2
      <3> QED
        BY <2>1, <2>2, <2>3, <3>1, <3>2 DEF Before
    <2>5. at + 1 \in 1 .. Len(Job)
      BY <1>1, <2>1, <2>2
    <2>6. Job[at + 1] \in Seq(RowSet) /\ Before(at + 1) \in Seq(RowSet)
      BY <2>5, JobPages, BeforeType
    <2>7. Before(at + 1) \o SubSeq(Job[at + 1], 1, 0) = Before(at + 1)
      BY <2>6
    <2> QED
      BY <2>1, <2>4, <2>5, <2>7
  <1>7. CASE EmitNothing
    <2>1. /\ status = "loaded" /\ cursor = Len(rows) /\ ~ HasLocator
          /\ UNCHANGED <<rows, at, cursor, out>>
      BY <1>7 DEF EmitNothing
    <2> QED
      BY <1>1, <1>2, <2>1 DEF ResumeInv, HasLocator
  <1>8. CASE UNCHANGED <<at, rows, cursor, out, source, status>>
    BY <1>2, <1>8 DEF ResumeInv
  <1>9. \/ BulkResumeBind \/ Emit \/ ResumeNextPage \/ EmitNothing
        \/ UNCHANGED <<at, rows, cursor, out, source, status>>
    BY <1>2 DEF Next, vars, Tick, Delete, DeletedIdsBind, GetDeletedSlice, GetDeletedEnd,
       QueryAllPage, QueryAllTooMany, LoadFails, NextSweep, IInv, BufferInv
  <1> QED
    BY <1>4, <1>5, <1>6, <1>7, <1>8, <1>9

(* A queryAll sweep that ends without an error has emitted exactly the     *)
(* result of its query, and a resumed job all its pages, in their order:   *)
(* neither LoadViaQueryAll nor BulkResumeFunction returns what it happens  *)
(* to have, for any number of pages, rows and vectors.                     *)
THEOREM LoadNeverPartial == Spec => []NeverPartial
  <1>1. Init => ResumeInv
    BY DEF Init, ResumeInv
  <1>2. IInv /\ ResumeInv => NeverPartial
    <2> SUFFICES ASSUME IInv, ResumeInv, status = "done"
                 PROVE  /\ source = "queryAll" => out = result
                        /\ source = "resume" => out = FlattenSeq(Job)
      BY DEF NeverPartial
    <2>1. /\ out \in Seq(RowSet) /\ rows \in Seq(RowSet) /\ cursor = Len(rows)
          /\ source # "resume" => Len(out) = cursor /\ \A k \in 1 .. cursor : out[k] = rows[k]
      BY DEF IInv, BufferInv, EmitInv
    <2>2. ASSUME source = "queryAll" PROVE out = result
      <3>1. out = rows
        BY <2>1, <2>2, SeqEqual
      <3> QED
        BY <2>2, <3>1 DEF IInv, QueryAllInv
    <2>3. ASSUME source = "resume" PROVE out = FlattenSeq(Job)
      <3>1. at \in 1 .. Len(Job) /\ at = Len(Job) /\ rows = Job[at]
            /\ out = Before(at) \o SubSeq(rows, 1, Len(rows))
        BY <2>1, <2>3 DEF ResumeInv
      <3>2. SubSeq(rows, 1, Len(rows)) = rows
        BY <2>1
      <3> QED
        BY <3>1, <3>2, FlatPages
    <2> QED
      BY <2>2, <2>3
  <1> QED
    BY <1>1, <1>2, Invariant, ResumeStep, PTL DEF Spec
=============================================================================
