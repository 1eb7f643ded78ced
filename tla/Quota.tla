------------------------------- MODULE Quota -------------------------------
(***************************************************************************)
(* The quota governor (salesforce_quota.cpp): the gate that every Bulk job *)
(* passes before it starts.  Any number of threads and connections run     *)
(* QuotaGuardBulkStart at once; they share a cache of the org's limits     *)
(* (one org: one instance_url) and one record of the last decision, each   *)
(* behind a lock that is not held while /limits is asked.  The org's       *)
(* allocation shrinks meanwhile, and is filled up at the org's midnight.   *)
(***************************************************************************)
EXTENDS Integers

CONSTANTS
  Threads,        \* the callers
  Policies,       \* the sf_quota_* settings a connection may have
  ApiMax,         \* DailyApiRequests.Max
  MaxClock        \* bound: seconds of the steady clock

ASSUME QuotaAssumption ==
  /\ ApiMax \in Nat
  /\ MaxClock \in Nat
  /\ Policies # {}
  /\ Policies \subseteq [ enabled : BOOLEAN, enforce : BOOLEAN, fail_open : BOOLEAN,
                          reserve_pct : Int, min_remaining : Int, ttl : Int ]

VARIABLES
  clock,        \* steady_clock::now(), in seconds
  remaining,    \* DailyApiRequests.Remaining on the server
  bulk_left,    \* DailyBulkV2QueryJobs.Remaining; -1: the org reports none
  cache,        \* g_cache[instance_url]: the entries it holds, none or one
  last_allowed, \* the last decision, for salesforce_last_quota()
  pc,           \* where each caller is in QuotaGuardBulkStart
  policy,       \* the settings its connection had on entry
  now,          \* the time it took on entry
  snap,         \* the snapshot it decides on
  asked,        \* it asked /limits itself
  spent_since   \* history: since when each (policy's) reserve is used up

orgVars   == <<clock, remaining, bulk_left, spent_since>>
guardVars == <<cache, last_allowed, pc, policy, now, snap, asked>>
vars      == <<orgVars, guardVars>>

(* A snapshot of /limits; "when" is a history field, the time it was true. *)
Snapshot == [ available : BOOLEAN, api_remaining : 0 .. ApiMax, bulk_remaining : -1 .. 1,
              when : 0 .. MaxClock ]

Unavailable == [ available |-> FALSE, api_remaining |-> 0, bulk_remaining |-> -1, when |-> 0 ]

Never == MaxClock + 1

(* Stands for the settings of a caller that is not in the guard. *)
AnyPolicy == CHOOSE p \in Policies : TRUE

Init ==
  /\ clock = 0
  /\ remaining = ApiMax
  /\ bulk_left \in {-1, 1}
  /\ cache = {}
  /\ last_allowed = TRUE
  /\ policy = [t \in Threads |-> AnyPolicy]
  /\ pc = [t \in Threads |-> "idle"]
  /\ now = [t \in Threads |-> 0]
  /\ snap = [t \in Threads |-> Unavailable]
  /\ asked = [t \in Threads |-> FALSE]
  /\ spent_since = [p \in Policies |-> Never]

-----------------------------------------------------------------------------
(* The decision.                                                           *)

(* max(min_remaining, reserve_pct% of Max). *)
Threshold(p) ==
  LET reserve == IF p.reserve_pct > 0 THEN (ApiMax * p.reserve_pct) \div 100 ELSE 0
  IN  IF p.min_remaining > reserve THEN p.min_remaining ELSE reserve

(* A mutant of Sufficient: the reserve itself may be used. *)
SufficientAtReserve(p, rem, bulk) == rem >= Threshold(p) /\ bulk # 0

(* More is left than the reserve, and the Bulk job cap is not used up. *)
Sufficient(p, rem, bulk) == rem > Threshold(p) /\ bulk # 0

(* What the guard does with a snapshot: "allowed", "warned" or "blocked". *)
Verdict(p, s) ==
  CASE ~ s.available /\ p.fail_open   -> "allowed"
    [] ~ s.available /\ ~ p.fail_open -> "blocked"
    [] s.available /\ Sufficient(p, s.api_remaining, s.bulk_remaining) -> "allowed"
    [] OTHER -> IF p.enforce THEN "blocked" ELSE "warned"

-----------------------------------------------------------------------------
(* The org.                                                                *)

Spent(p, rem, bulk) == rem <= Threshold(p) \/ bulk = 0

Allocation(rem, bulk) ==
  /\ remaining' = rem
  /\ bulk_left' = bulk
  /\ spent_since' = [p \in Policies |-> IF ~ Spent(p, rem, bulk) THEN Never
                                        ELSE IF spent_since[p] = Never THEN clock
                                        ELSE spent_since[p]]

(* Any client of the org makes requests, or starts Bulk jobs. *)
Consume ==
  /\ \/ remaining > 0 /\ Allocation(remaining - 1, bulk_left)
     \/ bulk_left > 0 /\ Allocation(remaining, bulk_left - 1)
  /\ UNCHANGED <<clock, guardVars>>

(* The org's midnight: the daily allocations are filled up. *)
DailyReset ==
  /\ Allocation(ApiMax, IF bulk_left = -1 THEN -1 ELSE 1)
  /\ UNCHANGED <<clock, guardVars>>

Tick ==
  /\ clock < MaxClock
  /\ clock' = clock + 1
  /\ UNCHANGED <<remaining, bulk_left, spent_since, guardVars>>

-----------------------------------------------------------------------------
(* QuotaGuardBulkStart on caller t.                                        *)

Goto(t, from, to) ==
  /\ pc[t] = from
  /\ pc' = [pc EXCEPT ![t] = to]

(* The governor is off: the decision is recorded, /limits is not asked. *)
SkipGuard(t, p) ==
  /\ ~ p.enabled
  /\ Goto(t, "idle", "allowed")
  /\ policy' = [policy EXCEPT ![t] = p]
  /\ last_allowed' = TRUE
  /\ UNCHANGED <<orgVars, cache, now, snap, asked>>

(* The settings are read, then the time. *)
EnterGuard(t, p) ==
  /\ p.enabled
  /\ Goto(t, "idle", "lookup")
  /\ policy' = [policy EXCEPT ![t] = p]
  /\ now' = [now EXCEPT ![t] = clock]
  /\ UNCHANGED <<orgVars, cache, last_allowed, snap, asked>>

(* The entry may be younger than now: its age is negative then. *)
Fresh(t, e) == policy[t].ttl > 0 /\ now[t] - e.at < policy[t].ttl

CacheHit(t) ==
  /\ Goto(t, "lookup", "decide")
  /\ \E e \in cache : Fresh(t, e) /\ snap' = [snap EXCEPT ![t] = e.snap]
  /\ UNCHANGED <<orgVars, cache, last_allowed, policy, now, asked>>

CacheMiss(t) ==
  /\ Goto(t, "lookup", "fetch")
  /\ \A e \in cache : ~ Fresh(t, e)
  /\ UNCHANGED <<orgVars, cache, last_allowed, policy, now, snap, asked>>

(* QueryLimits: the truth of this moment, or unavailable for any failure. *)
AskLimits(t) ==
  /\ Goto(t, "fetch", "store")
  /\ \E s \in {Unavailable,
               [ available |-> TRUE, api_remaining |-> remaining,
                 bulk_remaining |-> bulk_left, when |-> clock ]} :
       snap' = [snap EXCEPT ![t] = s]
  /\ asked' = [asked EXCEPT ![t] = TRUE]
  /\ UNCHANGED <<orgVars, cache, last_allowed, policy, now>>

(* A mutant of CacheEntry: dated when it is stored, not on entry. *)
CacheEntryAtStore(t) == [ snap |-> snap[t], at |-> clock ]

(* The entry is dated with the time the caller took before it asked. *)
CacheEntry(t) == [ snap |-> snap[t], at |-> now[t] ]

(* A mutant of StoreLimits: the entry that is there is kept as well. *)
StoreLimitsBeside(t) ==
  /\ Goto(t, "store", "decide")
  /\ cache' = IF policy[t].ttl > 0 /\ snap[t].available THEN cache \cup {CacheEntry(t)} ELSE cache
  /\ UNCHANGED <<orgVars, last_allowed, policy, now, snap, asked>>

(* Only an available answer is cached, over whatever is there by now. *)
StoreLimits(t) ==
  /\ Goto(t, "store", "decide")
  /\ cache' = IF policy[t].ttl > 0 /\ snap[t].available THEN {CacheEntry(t)} ELSE cache
  /\ UNCHANGED <<orgVars, last_allowed, policy, now, snap, asked>>

(* RecordDecision, then return or throw. *)
Decide(t) ==
  /\ Goto(t, "decide", Verdict(policy[t], snap[t]))
  /\ last_allowed' = (Verdict(policy[t], snap[t]) # "blocked")
  /\ UNCHANGED <<orgVars, cache, policy, now, snap, asked>>

(* The caller goes on with its job, or fails; its locals are gone. *)
LeaveGuard(t) ==
  /\ pc[t] \in {"allowed", "warned", "blocked"}
  /\ pc' = [pc EXCEPT ![t] = "idle"]
  /\ policy' = [policy EXCEPT ![t] = AnyPolicy]
  /\ now' = [now EXCEPT ![t] = 0]
  /\ snap' = [snap EXCEPT ![t] = Unavailable]
  /\ asked' = [asked EXCEPT ![t] = FALSE]
  /\ UNCHANGED <<orgVars, cache, last_allowed>>

Guard(t) ==
  \/ \E p \in Policies : SkipGuard(t, p) \/ EnterGuard(t, p)
  \/ CacheHit(t)
  \/ CacheMiss(t)
  \/ AskLimits(t)
  \/ StoreLimits(t)
  \/ Decide(t)
  \/ LeaveGuard(t)

Next ==
  \/ Consume
  \/ DailyReset
  \/ Tick
  \/ \E t \in Threads : Guard(t)

Spec == Init /\ [][Next]_vars

-----------------------------------------------------------------------------
(* Properties.                                                             *)

Decisions == {"allowed", "warned", "blocked"}

(* Every variable keeps its type. *)
TypeOK ==
  /\ clock \in 0 .. MaxClock
  /\ remaining \in 0 .. ApiMax
  /\ bulk_left \in -1 .. 1
  /\ cache \subseteq [ snap : Snapshot, at : 0 .. MaxClock ]
  /\ \A e, f \in cache : e = f
  /\ last_allowed \in BOOLEAN
  /\ pc \in [Threads -> {"idle", "lookup", "fetch", "store", "decide"} \cup Decisions]
  /\ policy \in [Threads -> Policies]
  /\ now \in [Threads -> 0 .. MaxClock]
  /\ snap \in [Threads -> Snapshot]
  /\ asked \in [Threads -> BOOLEAN]
  /\ spent_since \in [Policies -> 0 .. Never]

Judged(t) == pc[t] \in Decisions /\ policy[t].enabled

(* A decision never rests on limits older than the cache time: the ones it *)
(* uses were true less than ttl seconds before the guard was entered, and, *)
(* with the cache off, after it.  Several callers may ask, wait and store  *)
(* in any order, each over the entry of the other.  Nor does it rest on an *)
(* outage another caller met: a failure of /limits is never remembered.    *)
FreshSnapshot ==
  \A t \in Threads :
    Judged(t) =>
      \/ ~ snap[t].available /\ asked[t]
      \/ snap[t].available /\ \/ snap[t].when >= now[t]
                              \/ now[t] - snap[t].when < policy[t].ttl

(* An enforcing guard lets no job start when /limits answers and the org's *)
(* reserve has been used up for the cache time (a second, if that is more) *)
(* when the guard is entered, whichever caller asked, and however late its *)
(* answer was stored.                                                      *)
GateSound ==
  \A t \in Threads :
    /\ Judged(t) /\ snap[t].available /\ policy[t].enforce
    /\ spent_since[policy[t]] + (IF policy[t].ttl > 1 THEN policy[t].ttl ELSE 1) <= now[t]
    => pc[t] = "blocked"

(* "sf_quota_enforce=false -> consult /limits, compute, but never block    *)
(* (warn)" (salesforce_quota.hpp): in warn-only mode no job is stopped.    *)
WarnOnlyNeverBlocks ==
  \A t \in Threads : Judged(t) /\ ~ policy[t].enforce => pc[t] # "blocked"
=============================================================================
