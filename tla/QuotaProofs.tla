---------------------------- MODULE QuotaProofs ----------------------------
(***************************************************************************)
(* The quota governor is sound for any number of callers, any settings and *)
(* any clock.  The argument is about what a snapshot still says when it is *)
(* used: whatever order the callers ask, wait and store in, a snapshot is  *)
(* never older than the date it carries, and it shows a reserve as used up *)
(* if the reserve was used up before the snapshot was taken and still is.  *)
(***************************************************************************)
EXTENDS Quota, TLAPS

(* s was taken at some past moment, and for every reserve that is used up  *)
(* since before that moment, s shows it.                                   *)
Truthful(s) ==
  s.available =>
    /\ s.when <= clock
    /\ \A p \in Policies : spent_since[p] < s.when => Spent(p, s.api_remaining, s.bulk_remaining)

(* The limits s are good enough for a caller that entered at time n with   *)
(* cache time ttl, and that asked /limits itself or not.                   *)
Usable(s, n, ttl, own) ==
  \/ ~ s.available /\ own
  \/ s.available /\ \/ s.when >= n
                    \/ n - s.when < ttl

(* The history: a reserve said to be used up is used up now. *)
HistoryOK ==
  \A p \in Policies :
    /\ spent_since[p] # Never => Spent(p, remaining, bulk_left)
    /\ spent_since[p] = Never \/ spent_since[p] <= clock

(* An entry is an answer, and not older than its date. *)
CacheOK ==
  \A e \in cache : e.snap.available /\ Truthful(e.snap) /\ e.snap.when >= e.at

(* The locals of a caller, by the place it has reached. *)
CallerOK(t) ==
  /\ now[t] <= clock
  /\ Truthful(snap[t])
  /\ pc[t] = "store" => asked[t] /\ (snap[t].available => snap[t].when >= now[t])
  /\ pc[t] = "decide" => Usable(snap[t], now[t], policy[t].ttl, asked[t])
  /\ Judged(t) => /\ Usable(snap[t], now[t], policy[t].ttl, asked[t])
                  /\ pc[t] = Verdict(policy[t], snap[t])

CallersOK == \A t \in Threads : CallerOK(t)

(* The inductive invariant. *)
IInv == TypeOK /\ HistoryOK /\ CacheOK /\ CallersOK

-----------------------------------------------------------------------------

(* The reserve a policy keeps is a number. *)
LEMMA ThresholdType ==
  ASSUME NEW p \in Policies
  PROVE  Threshold(p) \in Int
  <1>1. /\ p.reserve_pct \in Int /\ p.min_remaining \in Int /\ ApiMax \in Int
    BY QuotaAssumption
  <1>2. ApiMax * p.reserve_pct \in Int
    BY <1>1
  <1>3. (ApiMax * p.reserve_pct) \div 100 \in Int
    BY <1>2
  <1> QED
    BY <1>1, <1>3 DEF Threshold

(* The stand-in for the settings of an idle caller is one of the settings. *)
LEMMA AnyPolicyType == AnyPolicy \in Policies
  BY QuotaAssumption DEF AnyPolicy

(* The fields of the settings. *)
LEMMA PolicyFields ==
  ASSUME NEW p \in Policies
  PROVE  /\ p.enabled \in BOOLEAN /\ p.enforce \in BOOLEAN /\ p.fail_open \in BOOLEAN
         /\ p.ttl \in Int
  BY QuotaAssumption

(* The guard of an allocation is the negation of the reserve used up: the  *)
(* verdict on an answer that shows it is never "allowed".                  *)
LEMMA SpentIsInsufficient ==
  ASSUME NEW p \in Policies, NEW rem \in Int, NEW bulk \in Int
  PROVE  Spent(p, rem, bulk) <=> ~ Sufficient(p, rem, bulk)
  BY ThresholdType DEF Spent, Sufficient

(* The guard's three outcomes. *)
LEMMA VerdictType ==
  ASSUME NEW p \in Policies, NEW s \in Snapshot
  PROVE  Verdict(p, s) \in Decisions
  BY PolicyFields DEF Verdict, Decisions, Snapshot

(* An enforcing guard blocks on an answer that shows the reserve used up.  *)
LEMMA SpentIsBlocked ==
  ASSUME NEW p \in Policies, NEW s \in Snapshot
  PROVE  s.available /\ p.enforce /\ Spent(p, s.api_remaining, s.bulk_remaining)
           => Verdict(p, s) = "blocked"
  <1>1. s.api_remaining \in Int /\ s.bulk_remaining \in Int
    BY QuotaAssumption DEF Snapshot
  <1>2. Spent(p, s.api_remaining, s.bulk_remaining)
          <=> ~ Sufficient(p, s.api_remaining, s.bulk_remaining)
    BY <1>1, SpentIsInsufficient
  <1> QED
    BY <1>2, PolicyFields DEF Verdict, Snapshot

(* What is unavailable is a snapshot, and says nothing. *)
LEMMA UnavailableType == Unavailable \in Snapshot /\ ~ Unavailable.available
  BY QuotaAssumption DEF Unavailable, Snapshot

(* The invariant holds when the extension is loaded. *)
LEMMA IInit == Init => IInv
  <1> SUFFICES ASSUME Init PROVE IInv
    OBVIOUS
  <1>1. TypeOK
    BY QuotaAssumption, AnyPolicyType, UnavailableType DEF Init, TypeOK, Never, Decisions
  <1>2. HistoryOK
    BY DEF Init, HistoryOK
  <1>3. CacheOK
    BY DEF Init, CacheOK
  <1>4. CallersOK
    <2> SUFFICES ASSUME NEW t \in Threads
                 PROVE  now[t] <= clock /\ Truthful(snap[t]) /\ pc[t] = "idle" /\ ~ Judged(t)
      BY DEF CallersOK, CallerOK
    <2>1. clock = 0 /\ now[t] = 0 /\ pc[t] = "idle" /\ snap[t] = Unavailable
      BY DEF Init
    <2>2. Truthful(snap[t])
      BY <2>1, UnavailableType DEF Truthful
    <2> QED
      BY <2>1, <2>2 DEF Judged, Decisions
  <1> QED
    BY <1>1, <1>2, <1>3, <1>4 DEF IInv

(* An allocation changes the history for the truth: a reserve still used   *)
(* up keeps its date, one newly used up has been so from now on.           *)
LEMMA AllocationKeeps ==
  ASSUME IInv,
         NEW rem \in 0 .. ApiMax, NEW bulk \in -1 .. 1,
         Allocation(rem, bulk), UNCHANGED <<clock, guardVars>>
  PROVE  IInv'
  <1> USE QuotaAssumption
  <1>1. /\ clock \in 0 .. MaxClock /\ clock' = clock
        /\ spent_since \in [Policies -> 0 .. Never]
        /\ cache' = cache /\ snap' = snap /\ pc' = pc /\ policy' = policy
        /\ now' = now /\ asked' = asked /\ last_allowed' = last_allowed
    BY DEF IInv, TypeOK, guardVars
  <1>2. \A p \in Policies :
          /\ spent_since'[p] \in 0 .. Never
          /\ spent_since'[p] \in {Never, clock} \/ spent_since'[p] = spent_since[p]
          /\ spent_since'[p] # Never => Spent(p, rem, bulk)
          /\ spent_since'[p] = Never \/ spent_since'[p] = clock \/ spent_since[p] # Never
    BY <1>1 DEF Allocation, Never
  <1>3. TypeOK'
    BY <1>1, <1>2 DEF IInv, TypeOK, Allocation, Decisions
  <1>4. HistoryOK'
    BY <1>1, <1>2 DEF IInv, HistoryOK, Allocation, Spent, Threshold, Never
  <1>5. ASSUME NEW s \in Snapshot, Truthful(s)
        PROVE  Truthful(s)'
    <2> SUFFICES ASSUME s.available, NEW p \in Policies, spent_since'[p] < s.when
                 PROVE  Spent(p, s.api_remaining, s.bulk_remaining)
      BY <1>1, <1>5 DEF Truthful, Spent, Threshold
    <2>1. s.when <= clock /\ s.when \in 0 .. MaxClock
      BY <1>5 DEF Truthful, Snapshot
    <2>2. spent_since'[p] = spent_since[p]
      BY <1>1, <1>2, <2>1 DEF Never
    <2> QED
      BY <1>5, <2>2 DEF Truthful
  <1>6. CacheOK'
    BY <1>1, <1>5 DEF IInv, CacheOK, TypeOK
  <1>7. CallersOK'
    BY <1>1, <1>5 DEF IInv, CallersOK, CallerOK, TypeOK, Judged, Usable, Verdict,
                  Sufficient, Threshold
  <1> QED
    BY <1>3, <1>4, <1>6, <1>7 DEF IInv

(* Time passes: nothing that was said about the past changes. *)
LEMMA TickKeeps == IInv /\ Tick => IInv'
  <1> SUFFICES ASSUME IInv, Tick PROVE IInv'
    OBVIOUS
  <1> USE QuotaAssumption
  <1>1. /\ clock \in 0 .. MaxClock /\ clock' = clock + 1 /\ clock < MaxClock
        /\ UNCHANGED <<remaining, bulk_left, spent_since>>
        /\ UNCHANGED <<cache, last_allowed, pc, policy, now, snap, asked>>
    BY DEF IInv, TypeOK, Tick, guardVars
  <1>2. TypeOK'
    BY <1>1 DEF IInv, TypeOK, Decisions
  <1>3. HistoryOK'
    <2> SUFFICES ASSUME NEW p \in Policies
                 PROVE  (/\ spent_since[p] # Never => Spent(p, remaining, bulk_left)
                         /\ spent_since[p] = Never \/ spent_since[p] <= clock)'
      BY DEF HistoryOK
    <2>1. spent_since[p] \in 0 .. Never
      BY DEF IInv, TypeOK
    <2> QED
      BY <1>1, <2>1 DEF IInv, HistoryOK, Spent, Threshold, Never
  <1>4. ASSUME NEW s \in Snapshot, Truthful(s)
        PROVE  Truthful(s)'
    <2>1. s.when \in Int
      BY DEF Snapshot
    <2> QED
      BY <1>1, <1>4, <2>1 DEF Truthful, Spent, Threshold
  <1>5. CacheOK'
    BY <1>1, <1>4 DEF IInv, CacheOK, TypeOK
  <1>6. CallersOK'
    <2> SUFFICES ASSUME NEW t \in Threads PROVE CallerOK(t)'
      BY DEF CallersOK
    <2>1. now[t] \in Int /\ snap[t] \in Snapshot /\ CallerOK(t)
      BY DEF IInv, TypeOK, CallersOK
    <2> QED
      BY <1>1, <1>4, <2>1 DEF CallerOK, Judged, Usable, Verdict, Sufficient, Threshold
  <1> QED
    BY <1>2, <1>3, <1>5, <1>6 DEF IInv

(* A step of caller t leaves the locals of the others alone. *)
LEMMA GuardFrame ==
  ASSUME IInv, NEW t \in Threads, UNCHANGED orgVars, TypeOK', CacheOK', CallerOK(t)',
         \A u \in Threads \ {t} :
           /\ pc'[u] = pc[u] /\ policy'[u] = policy[u] /\ now'[u] = now[u]
           /\ snap'[u] = snap[u] /\ asked'[u] = asked[u]
  PROVE  IInv'
  <1>1. HistoryOK'
    BY DEF IInv, HistoryOK, orgVars, Spent, Threshold, Never
  <1>2. CallersOK'
    <2> SUFFICES ASSUME NEW u \in Threads, u # t PROVE CallerOK(u)'
      BY DEF CallersOK
    <2>1. CallerOK(u)
      BY DEF IInv, CallersOK
    <2>2. clock' = clock /\ spent_since' = spent_since
      BY DEF orgVars
    <2>3. Truthful(snap[u])'
      BY <2>1, <2>2 DEF CallerOK, Truthful, Spent, Threshold
    <2> QED
      BY <2>1, <2>2, <2>3 DEF CallerOK, Judged, Usable, Verdict, Sufficient, Threshold
  <1> QED
    BY <1>1, <1>2 DEF IInv

(* The entries that stay in the cache stay good. *)
LEMMA CacheFrame ==
  ASSUME IInv, UNCHANGED orgVars, UNCHANGED cache
  PROVE  CacheOK'
  BY DEF IInv, CacheOK, Truthful, Spent, Threshold, orgVars

(* Every step of a caller keeps the invariant. *)
LEMMA GuardKeeps ==
  ASSUME IInv, NEW t \in Threads, Guard(t)
  PROVE  IInv'
  <1> USE QuotaAssumption
  <1>0. /\ TypeOK /\ CallerOK(t)
        /\ clock \in 0 .. MaxClock /\ now[t] \in 0 .. MaxClock /\ snap[t] \in Snapshot
        /\ policy[t] \in Policies /\ asked[t] \in BOOLEAN
    BY DEF IInv, TypeOK, CallersOK
  <1>1. ASSUME NEW p \in Policies, SkipGuard(t, p)
        PROVE  IInv'
    <2>1. UNCHANGED orgVars /\ UNCHANGED cache
      BY <1>1 DEF SkipGuard
    <2>2. TypeOK'
      BY <1>0, <1>1 DEF SkipGuard, Goto, TypeOK, orgVars, Decisions
    <2>3. pc'[t] = "allowed" /\ policy'[t] = p /\ ~ p.enabled
      BY <1>0, <1>1 DEF SkipGuard, Goto, TypeOK
    <2>4. CallerOK(t)'
      BY <1>0, <1>1, <2>1, <2>3
         DEF SkipGuard, CallerOK, Judged, Truthful, Spent, Threshold, orgVars
    <2> QED
      BY <1>1, <2>1, <2>2, <2>4, CacheFrame, GuardFrame DEF SkipGuard, Goto, TypeOK, IInv
  <1>2. ASSUME NEW p \in Policies, EnterGuard(t, p)
        PROVE  IInv'
    <2>1. UNCHANGED orgVars /\ UNCHANGED cache
      BY <1>2 DEF EnterGuard
    <2>2. TypeOK'
      BY <1>0, <1>2 DEF EnterGuard, Goto, TypeOK, orgVars, Decisions
    <2>3. pc'[t] = "lookup" /\ now'[t] = clock /\ snap'[t] = snap[t]
      BY <1>0, <1>2 DEF EnterGuard, Goto, TypeOK
    <2>4. CallerOK(t)'
      BY <1>0, <2>1, <2>3
         DEF CallerOK, Judged, Decisions, Truthful, Spent, Threshold, orgVars
    <2> QED
      BY <1>2, <2>1, <2>2, <2>4, CacheFrame, GuardFrame DEF EnterGuard, Goto, TypeOK, IInv
  <1>3. CASE CacheHit(t)
    <2>1. UNCHANGED orgVars /\ UNCHANGED cache
      BY <1>3 DEF CacheHit
    <2>2. PICK e \in cache : Fresh(t, e) /\ snap' = [snap EXCEPT ![t] = e.snap]
      BY <1>3 DEF CacheHit
    <2>3. /\ e.snap \in Snapshot /\ e.snap.available /\ Truthful(e.snap) /\ e.snap.when >= e.at
          /\ e.snap.when \in Int /\ e.at \in Int /\ policy[t].ttl \in Int
      BY <1>0, PolicyFields DEF IInv, TypeOK, CacheOK, Snapshot
    <2>4. TypeOK'
      BY <1>0, <1>3, <2>2, <2>3 DEF CacheHit, Goto, TypeOK, orgVars, Decisions
    <2>5. /\ pc'[t] = "decide" /\ snap'[t] = e.snap /\ now' = now /\ policy' = policy
          /\ asked' = asked
      BY <1>0, <1>3, <2>2 DEF CacheHit, Goto, TypeOK
    <2>6. Usable(e.snap, now[t], policy[t].ttl, asked[t])
      BY <1>0, <2>2, <2>3 DEF Fresh, Usable
    <2>7. CallerOK(t)'
      BY <1>0, <2>1, <2>3, <2>5, <2>6
         DEF CallerOK, Judged, Decisions, Truthful, Spent, Threshold, orgVars, Usable
    <2> QED
      BY <1>3, <2>1, <2>2, <2>4, <2>7, CacheFrame, GuardFrame DEF CacheHit, Goto, TypeOK, IInv
  <1>4. CASE CacheMiss(t)
    <2>1. UNCHANGED orgVars /\ UNCHANGED cache /\ pc'[t] = "fetch" /\ UNCHANGED <<now, snap>>
      BY <1>0, <1>4 DEF CacheMiss, Goto, TypeOK
    <2>2. TypeOK'
      BY <1>0, <1>4 DEF CacheMiss, Goto, TypeOK, orgVars, Decisions
    <2>3. CallerOK(t)'
      BY <1>0, <2>1 DEF CallerOK, Judged, Decisions, Truthful, Spent, Threshold, orgVars
    <2> QED
      BY <1>4, <2>1, <2>2, <2>3, CacheFrame, GuardFrame DEF CacheMiss, Goto, TypeOK, IInv
  <1>5. CASE AskLimits(t)
    <2>1. UNCHANGED orgVars /\ UNCHANGED cache /\ UNCHANGED <<now, policy>>
      BY <1>5 DEF AskLimits
    <2> DEFINE answer == [ available |-> TRUE, api_remaining |-> remaining,
                           bulk_remaining |-> bulk_left, when |-> clock ]
    <2>2. PICK s \in {Unavailable, answer} : snap' = [snap EXCEPT ![t] = s]
      BY <1>5 DEF AskLimits
    <2>3. answer \in Snapshot
      BY <1>0 DEF TypeOK, Snapshot
    <2>4. TypeOK'
      BY <1>0, <1>5, <2>2, <2>3, UnavailableType
         DEF AskLimits, Goto, TypeOK, orgVars, Decisions
    <2>5. pc'[t] = "store" /\ snap'[t] = s /\ asked'[t] = TRUE
      BY <1>0, <1>5, <2>2 DEF AskLimits, Goto, TypeOK
    <2>6. Truthful(answer)
      <3> SUFFICES ASSUME NEW p \in Policies, spent_since[p] < clock
                   PROVE  Spent(p, remaining, bulk_left)
        BY <1>0 DEF Truthful
      <3>1. spent_since[p] # Never
        BY <1>0 DEF Never
      <3> QED
        BY <3>1 DEF IInv, HistoryOK
    <2>7. Truthful(s) /\ (s.available => s.when >= now[t])
      BY <1>0, <2>2, <2>6, UnavailableType DEF CallerOK, Truthful
    <2>8. CallerOK(t)'
      BY <1>0, <2>1, <2>5, <2>7
         DEF CallerOK, Judged, Decisions, Truthful, Spent, Threshold, orgVars
    <2> QED
      BY <1>5, <2>1, <2>2, <2>4, <2>8, CacheFrame, GuardFrame DEF AskLimits, Goto, TypeOK, IInv
  <1>6. CASE StoreLimits(t)
    <2>1. UNCHANGED orgVars /\ UNCHANGED <<now, snap, policy, asked>>
      BY <1>6 DEF StoreLimits
    <2>2. pc[t] = "store" /\ pc'[t] = "decide"
      BY <1>0, <1>6 DEF StoreLimits, Goto, TypeOK
    <2>3. CacheEntry(t) \in [ snap : Snapshot, at : 0 .. MaxClock ]
      BY <1>0 DEF CacheEntry
    <2>4. cache' = cache \/ (cache' = {CacheEntry(t)} /\ snap[t].available)
      BY <1>6 DEF StoreLimits
    <2>5. TypeOK'
      BY <1>0, <1>6, <2>3, <2>4 DEF StoreLimits, Goto, TypeOK, orgVars, Decisions
    <2>6. CacheOK'
      <3>1. CASE cache' = cache
        BY <2>1, <3>1, CacheFrame
      <3>2. CASE cache' = {CacheEntry(t)} /\ snap[t].available
        <4>1. CacheEntry(t).snap = snap[t] /\ CacheEntry(t).at = now[t]
          BY DEF CacheEntry
        <4>2. Truthful(snap[t])'
          BY <1>0, <2>1 DEF CallerOK, Truthful, Spent, Threshold, orgVars
        <4> QED
          BY <1>0, <2>1, <2>2, <3>2, <4>1, <4>2 DEF CallerOK, CacheOK, Truthful, Spent, Threshold
      <3> QED
        BY <2>4, <3>1, <3>2
    <2>7. CallerOK(t)'
      BY <1>0, <2>1, <2>2
         DEF CallerOK, Judged, Decisions, Truthful, Spent, Threshold, orgVars, Usable
    <2> QED
      BY <1>6, <2>1, <2>5, <2>6, <2>7, GuardFrame DEF StoreLimits, Goto, TypeOK, IInv
  <1>7. CASE Decide(t)
    <2>1. UNCHANGED orgVars /\ UNCHANGED cache /\ UNCHANGED <<now, snap, policy, asked>>
      BY <1>7 DEF Decide
    <2>2. /\ pc[t] = "decide" /\ pc'[t] = Verdict(policy[t], snap[t])
          /\ Verdict(policy[t], snap[t]) \in Decisions
      BY <1>0, <1>7, VerdictType DEF Decide, Goto, TypeOK
    <2>3. TypeOK'
      BY <1>0, <1>7, <2>2 DEF Decide, Goto, TypeOK, orgVars
    <2>4. Verdict(policy[t], snap[t])' = Verdict(policy[t], snap[t])
      BY <2>1 DEF Verdict, Sufficient, Threshold
    <2>5. Truthful(snap[t])'
      BY <1>0, <2>1 DEF CallerOK, Truthful, Spent, Threshold, orgVars
    <2>6. Usable(snap[t], now[t], policy[t].ttl, asked[t])'
      BY <1>0, <2>1, <2>2 DEF CallerOK, Usable
    <2>7. (now[t] <= clock)' /\ pc'[t] # "store" /\ pc'[t] # "decide"
      BY <1>0, <2>1, <2>2 DEF CallerOK, Decisions, orgVars
    <2>8. CallerOK(t)'
      BY <2>2, <2>4, <2>5, <2>6, <2>7 DEF CallerOK
    <2> QED
      BY <1>7, <2>1, <2>3, <2>8, CacheFrame, GuardFrame DEF Decide, Goto, TypeOK, IInv
  <1>8. CASE LeaveGuard(t)
    <2>1. UNCHANGED orgVars /\ UNCHANGED cache
      BY <1>8 DEF LeaveGuard
    <2>2. TypeOK'
      BY <1>0, <1>8, UnavailableType, AnyPolicyType
         DEF LeaveGuard, TypeOK, orgVars, Decisions
    <2>3. pc'[t] = "idle" /\ now'[t] = 0 /\ snap'[t] = Unavailable
      BY <1>0, <1>8 DEF LeaveGuard, TypeOK
    <2>4. Truthful(snap[t])'
      BY <2>3, UnavailableType DEF Truthful
    <2>5. CallerOK(t)'
      BY <1>0, <2>1, <2>3, <2>4 DEF CallerOK, Judged, Decisions, orgVars
    <2> QED
      BY <1>8, <2>1, <2>2, <2>5, CacheFrame, GuardFrame DEF LeaveGuard, TypeOK, IInv
  <1> QED
    BY <1>1, <1>2, <1>3, <1>4, <1>5, <1>6, <1>7, <1>8 DEF Guard

(* Every step keeps the invariant. *)
LEMMA IStep == IInv /\ [Next]_vars => IInv'
  <1> SUFFICES ASSUME IInv, [Next]_vars PROVE IInv'
    OBVIOUS
  <1> USE QuotaAssumption
  <1>0. remaining \in 0 .. ApiMax /\ bulk_left \in -1 .. 1
    BY DEF IInv, TypeOK
  <1>1. CASE Consume
    <2>1. CASE remaining > 0 /\ Allocation(remaining - 1, bulk_left)
      <3>1. remaining - 1 \in 0 .. ApiMax
        BY <1>0, <2>1
      <3> QED
        BY <1>0, <1>1, <2>1, <3>1, AllocationKeeps DEF Consume
    <2>2. CASE bulk_left > 0 /\ Allocation(remaining, bulk_left - 1)
      <3>1. bulk_left - 1 \in -1 .. 1
        BY <1>0, <2>2
      <3> QED
        BY <1>0, <1>1, <2>2, <3>1, AllocationKeeps DEF Consume
    <2> QED
      BY <1>1, <2>1, <2>2 DEF Consume
  <1>2. CASE DailyReset
    <2> DEFINE bulk == IF bulk_left = -1 THEN -1 ELSE 1
    <2>1. ApiMax \in 0 .. ApiMax /\ bulk \in -1 .. 1
      OBVIOUS
    <2>2. Allocation(ApiMax, bulk) /\ UNCHANGED <<clock, guardVars>>
      BY <1>2 DEF DailyReset
    <2> HIDE DEF bulk
    <2> QED
      BY <2>1, <2>2, AllocationKeeps
  <1>3. CASE Tick
    BY <1>3, TickKeeps
  <1>4. CASE \E t \in Threads : Guard(t)
    BY <1>4, GuardKeeps
  <1>5. CASE UNCHANGED vars
    <2>1. /\ UNCHANGED <<clock, remaining, bulk_left, spent_since, cache, last_allowed>>
          /\ UNCHANGED <<pc, policy, now, snap, asked>>
      BY <1>5 DEF vars, orgVars, guardVars
    <2>2. TypeOK'
      BY <2>1 DEF IInv, TypeOK
    <2>3. HistoryOK'
      BY <2>1 DEF IInv, HistoryOK, Spent, Threshold
    <2>4. CacheOK'
      BY <2>1, CacheFrame DEF orgVars
    <2>5. CallersOK'
      BY <2>1 DEF IInv, CallersOK, CallerOK, Truthful, Spent, Judged, Usable, Verdict,
                  Sufficient, Threshold
    <2> QED
      BY <2>2, <2>3, <2>4, <2>5 DEF IInv
  <1> QED
    BY <1>1, <1>2, <1>3, <1>4, <1>5 DEF Next

-----------------------------------------------------------------------------

(* Every variable of the governor keeps its type, whatever its callers do. *)
THEOREM QuotaTypeOK == Spec => []TypeOK
  <1>1. IInv => TypeOK
    BY DEF IInv
  <1> QED
    BY IInit, IStep, <1>1, PTL DEF Spec

(* No decision of the guard rests on limits older than the cache time, and *)
(* none on an outage another caller met: the entry is dated before the     *)
(* request, and only an answer is stored.                                  *)
THEOREM DecisionsAreFresh == Spec => []FreshSnapshot
  <1>1. IInv => FreshSnapshot
    BY DEF IInv, CallersOK, CallerOK, FreshSnapshot, Usable
  <1> QED
    BY IInit, IStep, <1>1, PTL DEF Spec

(* An enforcing guard that decides on an answer of /limits blocks once the *)
(* reserve has been used up for the cache time, in whatever order the      *)
(* callers ask, wait and store.                                            *)
THEOREM GateIsSound == Spec => []GateSound
  <1>1. IInv => GateSound
    <2> SUFFICES ASSUME IInv, NEW t \in Threads, Judged(t),
                        snap[t].available, policy[t].enforce,
                        spent_since[policy[t]]
                          + (IF policy[t].ttl > 1 THEN policy[t].ttl ELSE 1) <= now[t]
                 PROVE  pc[t] = "blocked"
      BY DEF GateSound
    <2> USE QuotaAssumption
    <2>1. /\ CallerOK(t) /\ snap[t] \in Snapshot /\ policy[t] \in Policies
          /\ now[t] \in Int /\ spent_since[policy[t]] \in Int
      BY DEF IInv, TypeOK, CallersOK, Never
    <2>2. policy[t].ttl \in Int /\ snap[t].when \in Int
      BY <2>1, PolicyFields DEF Snapshot
    <2>3. spent_since[policy[t]] < snap[t].when
      BY <2>1, <2>2 DEF CallerOK, Usable
    <2>4. Spent(policy[t], snap[t].api_remaining, snap[t].bulk_remaining)
      BY <2>1, <2>3 DEF CallerOK, Truthful
    <2> QED
      BY <2>1, <2>4, SpentIsBlocked DEF CallerOK
  <1> QED
    BY IInit, IStep, <1>1, PTL DEF Spec
=============================================================================
