------------------------------ MODULE Session ------------------------------
(***************************************************************************)
(* One SalesforceSession (salesforce_session.cpp) on the live transport    *)
(* (salesforce_http_client.cpp).  Every operation is made of AuthorizedSend *)
(* calls: a request, which the transport retries when it fails for a       *)
(* transient reason, and after an HTTP 401 one token exchange              *)
(* (salesforce_auth.cpp) and the request again.  BulkStartJob creates a    *)
(* query job and polls it; ToolingDescribe follows a cursor.               *)
(*                                                                         *)
(* Meanwhile the access token may expire, a reply may be lost after the    *)
(* server did its work, and the jobs make progress on the server.          *)
(***************************************************************************)
EXTENDS Integers, FiniteSets

CONSTANTS
  RetryMax,       \* sf_retry_max, after its clamp to 1 .. 10
  PollBudget,     \* sf_bulk_poll_budget as given, any integer
  MaxExpiries,    \* bound: times the token expires during one operation
  MaxCursor,      \* bound: cursors a Tooling result goes through
  MaxLists,       \* bound: IN lists of kChunk objects a Tooling describe is split in
  CursorGuard     \* the Tooling pagination guard (100000 in the code)

ASSUME SessionAssumption ==
  /\ RetryMax \in Nat \ {0}
  /\ PollBudget \in Int
  /\ MaxExpiries \in Nat
  /\ MaxCursor \in Nat
  /\ MaxLists \in Nat \ {0}
  /\ CursorGuard \in Nat

(* The operations that end in one AuthorizedSend whose body is the answer  *)
(* ("get": DescribeJson, GlobalDescribe, FetchPage, BulkFetchResultPage,   *)
(* RunReport), those that swallow every failure ("probe": TryEstimateCount, *)
(* TryAggregateQuery, TryMinMaxId, QueryLimits), and the other three.      *)
Operations == {"auth", "get", "probe", "bulk", "tooling"}

(* What the transport sees of one attempt.  "lost" is any connection error, *)
(* "broken" a TLS verification failure or a URL that is not https, "limit" *)
(* an HTTP 403 with errorCode REQUEST_LIMIT_EXCEEDED, "rejected" any other *)
(* 4xx, or a token reply without its fields, "transient" HTTP 429 or 5xx.  *)
Answers == {"ok", "unauthorized", "limit", "rejected", "transient", "lost", "broken"}

JobStates == {"absent", "InProgress", "JobComplete", "Failed", "Aborted"}

(* BulkStartJob treats a budget below 1 as 1. *)
max_polls == IF PollBudget < 1 THEN 1 ELSE PollBudget

(* A call creates a job at most once per attempt of its creation request. *)
Jobs == 1 .. 2 * RetryMax

(* The most requests an operation sends: an AuthorizedSend sends at most   *)
(* RetryMax requests, RetryMax token requests and RetryMax requests again. *)
SendBound == (max_polls + 2) * 3 * RetryMax

VARIABLES
  token_ok,    \* the server accepts the access token the session holds
  jobs,        \* the state on the server of the jobs this call created
  op,          \* the operation that runs, or ran last
  stage,       \* what the current AuthorizedSend is for; "idle" between calls
  phase,       \* in AuthorizedSend: "first", "login" or "second" request
  attempt,     \* the attempt of LiveHttpClient::Send's loop
  job_id,      \* the job BulkStartJob polls, 0 before it is known
  polls,       \* the status polls that were answered
  lists,       \* IN lists ToolingDescribe has not come to yet
  cursor,      \* the nextRecordsUrl ToolingDescribe asks for
  seen,        \* the cursors it received
  outcome,     \* of the last operation: "none", "ok", "unavailable", "threw"
  sent,        \* history: requests sent by this call, token requests too
  limit_hit,   \* history: this call was told REQUEST_LIMIT_EXCEEDED
  expiries,    \* history: times the token expired during this call
  blame        \* history: something other than one expiry went wrong

vars == <<token_ok, jobs, op, stage, phase, attempt, job_id, polls, lists, cursor, seen, outcome,
          sent, limit_hit, expiries, blame>>

Init ==
  /\ token_ok \in BOOLEAN   \* SetToken: the catalog's token may be old
  /\ jobs = [j \in Jobs |-> "absent"]
  /\ op = "auth" /\ stage = "idle" /\ phase = "first" /\ attempt = 1
  /\ job_id = 0 /\ polls = 0 /\ lists = 0 /\ cursor = 0 /\ seen = {}
  /\ outcome = "none"
  /\ sent = 0 /\ limit_hit = FALSE /\ expiries = 0 /\ blame = FALSE

-----------------------------------------------------------------------------
(* The server, on its own.                                                 *)

ExpireToken ==
  /\ stage # "idle" /\ expiries < MaxExpiries
  /\ token_ok
  /\ token_ok' = FALSE
  /\ expiries' = expiries + 1
  /\ blame' = (blame \/ phase = "second")   \* a fresh token expired in its turn
  /\ UNCHANGED <<jobs, op, stage, phase, attempt, job_id, polls, lists, cursor, seen, outcome,
                 sent, limit_hit>>

JobProgress(j) ==
  /\ stage # "idle"
  /\ jobs[j] = "InProgress"
  /\ \E s \in {"JobComplete", "Failed", "Aborted"} : jobs' = [jobs EXCEPT ![j] = s]
  /\ UNCHANGED <<token_ok, op, stage, phase, attempt, job_id, polls, lists, cursor, seen, outcome,
                 sent, limit_hit, expiries, blame>>

-----------------------------------------------------------------------------
(* A call begins.                                                          *)

FirstStage(o) ==
  CASE o = "bulk" -> "create" [] o = "tooling" -> "page" [] OTHER -> "body"

Call(o) ==
  /\ stage = "idle"
  /\ op' = o
  /\ stage' = FirstStage(o)
  /\ phase' = IF o = "auth" THEN "login" ELSE "first"
  /\ attempt' = 1
  /\ jobs' = [j \in Jobs |-> "absent"]
  /\ job_id' = 0 /\ polls' = 0 /\ cursor' = 0 /\ seen' = {}
  /\ lists' \in IF o = "tooling" THEN 0 .. MaxLists - 1 ELSE {0}
  /\ outcome' = "none"
  /\ sent' = 0 /\ limit_hit' = FALSE /\ expiries' = 0 /\ blame' = FALSE
  /\ UNCHANGED token_ok

-----------------------------------------------------------------------------
(* One attempt of LiveHttpClient::Send.                                    *)

(* Counting stops one above the bound. *)
CountRequest == sent' = IF sent <= SendBound THEN sent + 1 ELSE sent

(* The answers the server may give: an API request needs a valid token. *)
Possible(ans) ==
  CASE phase = "login"       -> ans # "unauthorized" /\ ans # "limit"
    [] ans = "ok"            -> token_ok
    [] ans = "limit"         -> token_ok
    [] ans = "rejected"      -> token_ok
    [] ans = "unauthorized"  -> ~ token_ok
    [] OTHER                 -> TRUE

(* A request that was not refused may have done its work even though the  *)
(* reply is an error or does not arrive.                                   *)
CreateJob(ans) ==
  \/ /\ ans # "ok" \/ stage # "create" \/ phase = "login"
     /\ UNCHANGED jobs
  \/ /\ stage = "create" /\ phase # "login" /\ token_ok
     /\ ans \in {"ok", "transient", "lost"}
     /\ \E j \in Jobs :
          /\ jobs[j] = "absent" /\ \A k \in Jobs : k < j => jobs[k] # "absent"
          /\ jobs' = [jobs EXCEPT ![j] = "InProgress"]

(* The job an accepted creation reply names. *)
NewJob == CHOOSE j \in Jobs : jobs'[j] # jobs[j]

Request(ans) ==
  /\ stage # "idle"
  /\ Possible(ans)
  /\ CreateJob(ans)
  /\ CountRequest
  /\ limit_hit' = (limit_hit \/ ans = "limit")

(* A mutant of Retries: every 4xx is retried, the daily limit included. *)
RetriesClientErrors(ans) ==
  ans \in {"transient", "lost", "limit", "rejected"} /\ attempt < RetryMax

(* A transient status or a connection error is tried again, but not for ever. *)
Retries(ans) == ans \in {"transient", "lost"} /\ attempt < RetryMax

RetryAttempt ==
  /\ \E ans \in Answers : Request(ans) /\ Retries(ans)
  /\ attempt' = attempt + 1
  /\ blame' = TRUE
  /\ UNCHANGED <<token_ok, op, stage, phase, job_id, polls, lists, cursor, seen, outcome, expiries>>

-----------------------------------------------------------------------------
(* The rest of AuthorizedSend, once Send has returned.                     *)

(* HTTP 401 on the first request: the token is exchanged, once. *)
Unauthorized ==
  /\ phase = "first"
  /\ Request("unauthorized")
  /\ phase' = "login"
  /\ attempt' = 1
  /\ UNCHANGED <<token_ok, op, stage, job_id, polls, lists, cursor, seen, outcome, expiries, blame>>

(* The operation returns or throws. *)
Return(result) ==
  /\ stage' = "idle"
  /\ outcome' = result

(* The token exchange succeeds: the request is sent again, or, at ATTACH,  *)
(* Authenticate returns.                                                   *)
TokenGranted ==
  /\ phase = "login"
  /\ Request("ok")
  /\ token_ok' = TRUE
  /\ phase' = "second"
  /\ attempt' = 1
  /\ IF op = "auth" THEN Return("ok") ELSE UNCHANGED <<stage, outcome>>
  /\ UNCHANGED <<op, job_id, polls, lists, cursor, seen, expiries, blame>>

(* A mutant of Throws: a 401 is not answered by a token exchange. *)
ThrowsOnExpiry(ans) ==
  \/ ans \in {"broken", "limit", "unauthorized"}
  \/ ans = "lost" /\ ~ Retries(ans)
  \/ phase = "login" /\ ans \in {"transient", "rejected"} /\ ~ Retries(ans)

(* AuthorizedSend throws: a transport failure on the last attempt or for   *)
(* good, a refused token exchange, a second 401, the daily limit.  A probe *)
(* catches it.                                                             *)
Throws(ans) ==
  \/ ans = "broken" \/ ans = "limit"
  \/ ans = "lost" /\ ~ Retries(ans)
  \/ phase = "second" /\ ans = "unauthorized"
  \/ phase = "login" /\ ans \in {"transient", "rejected"} /\ ~ Retries(ans)

SendThrows ==
  /\ \E ans \in Answers :
       /\ Throws(ans)
       /\ Request(ans)
       /\ blame' = (blame \/ ans # "unauthorized")
  /\ Return(IF op = "probe" THEN "unavailable" ELSE "threw")
  /\ UNCHANGED <<token_ok, op, phase, attempt, job_id, polls, lists, cursor, seen, expiries>>

(* AuthorizedSend returns an error status: most callers throw, a probe is  *)
(* unavailable and ToolingDescribe reports that its caller must fall back. *)
StatusRejected ==
  /\ phase # "login"
  /\ \E ans \in {"rejected", "transient"} : ~ Retries(ans) /\ Request(ans)
  /\ Return(IF op \in {"probe", "tooling"} THEN "unavailable" ELSE "threw")
  /\ polls' = IF stage = "poll" THEN polls + 1 ELSE polls
  /\ blame' = TRUE
  /\ UNCHANGED <<token_ok, op, phase, attempt, job_id, lists, cursor, seen, expiries>>

(* AuthorizedSend returned a good reply, and a new one begins. *)
NextSend(s) ==
  /\ stage' = s
  /\ phase' = "first"
  /\ attempt' = 1

Accepted == phase # "login" /\ Request("ok")

(* The body is the answer; an unexpected shape makes a probe unavailable. *)
BodyReceived ==
  /\ stage = "body" /\ op # "auth"
  /\ Accepted
  /\ \E result \in IF op = "probe" THEN {"ok", "unavailable"} ELSE {"ok"} : Return(result)
  /\ UNCHANGED <<token_ok, op, phase, attempt, job_id, polls, lists, cursor, seen, expiries, blame>>

-----------------------------------------------------------------------------
(* BulkStartJob.                                                           *)

JobCreated ==
  /\ stage = "create"
  /\ Accepted
  /\ \/ /\ job_id' = NewJob
        /\ NextSend("poll")
        /\ UNCHANGED <<outcome, blame>>
     \/ /\ Return("threw")        \* the reply names no id
        /\ blame' = TRUE
        /\ UNCHANGED <<job_id, phase, attempt>>
  /\ UNCHANGED <<token_ok, op, polls, lists, cursor, seen, expiries>>

(* A mutant of PollComplete: a job that has ended is taken for complete. *)
PollCompleteIfEnded ==
  /\ stage = "poll"
  /\ Accepted
  /\ polls' = polls + 1
  /\ jobs[job_id] # "InProgress"
  /\ Return("ok")
  /\ UNCHANGED <<token_ok, op, phase, attempt, job_id, lists, cursor, seen, expiries, blame>>

PollComplete ==
  /\ stage = "poll"
  /\ Accepted
  /\ polls' = polls + 1
  /\ jobs[job_id] = "JobComplete"
  /\ Return("ok")
  /\ UNCHANGED <<token_ok, op, phase, attempt, job_id, lists, cursor, seen, expiries, blame>>

(* The job failed on the server, or i has reached max_polls. *)
PollGivesUp ==
  /\ stage = "poll"
  /\ Accepted
  /\ polls' = polls + 1
  /\ jobs[job_id] # "JobComplete"
  /\ jobs[job_id] = "InProgress" => polls >= max_polls
  /\ Return("threw")
  /\ blame' = TRUE
  /\ UNCHANGED <<token_ok, op, phase, attempt, job_id, lists, cursor, seen, expiries>>

(* A mutant of PollAgain: the budget is not checked. *)
PollAgainUnbounded ==
  /\ stage = "poll"
  /\ Accepted
  /\ polls' = polls + 1
  /\ jobs[job_id] = "InProgress"
  /\ NextSend("poll")
  /\ UNCHANGED <<token_ok, op, job_id, lists, cursor, seen, outcome, expiries, blame>>

PollAgain ==
  /\ stage = "poll"
  /\ Accepted
  /\ polls' = polls + 1
  /\ jobs[job_id] = "InProgress"
  /\ polls < max_polls
  /\ NextSend("poll")
  /\ UNCHANGED <<token_ok, op, job_id, lists, cursor, seen, outcome, expiries, blame>>

-----------------------------------------------------------------------------
(* ToolingDescribe.                                                        *)

(* The last page of the last IN list, or a cursor that the pagination      *)
(* guard does not follow: the fields read so far are the answer.           *)
ToolingEnds ==
  /\ stage = "page" /\ lists = 0
  /\ Accepted
  /\ Return("ok")
  /\ UNCHANGED <<token_ok, op, phase, attempt, job_id, polls, lists, cursor, seen, expiries, blame>>

(* The same, with an IN list left: its cursors are counted from nothing. *)
ToolingNextList ==
  /\ stage = "page" /\ lists > 0
  /\ Accepted
  /\ lists' = lists - 1
  /\ cursor' = 0 /\ seen' = {}
  /\ NextSend("page")
  /\ UNCHANGED <<token_ok, op, job_id, polls, outcome, expiries, blame>>

(* A mutant of ToolingFollows: any cursor is followed. *)
ToolingFollowsUnguarded(next) ==
  /\ stage = "page"
  /\ Accepted
  /\ cursor' = next
  /\ seen' = seen \cup {next}
  /\ NextSend("page")
  /\ UNCHANGED <<token_ok, op, job_id, polls, lists, outcome, expiries, blame>>

(* A cursor that was not seen before is followed. *)
ToolingFollows(next) ==
  /\ stage = "page"
  /\ Accepted
  /\ next \notin seen /\ Cardinality(seen) < CursorGuard
  /\ cursor' = next
  /\ seen' = seen \cup {next}
  /\ NextSend("page")
  /\ UNCHANGED <<token_ok, op, job_id, polls, lists, outcome, expiries, blame>>

-----------------------------------------------------------------------------
Exchange ==
  \/ RetryAttempt
  \/ Unauthorized
  \/ TokenGranted
  \/ SendThrows
  \/ StatusRejected
  \/ BodyReceived
  \/ JobCreated
  \/ PollComplete
  \/ PollGivesUp
  \/ PollAgain
  \/ ToolingEnds
  \/ ToolingNextList
  \/ \E next \in 1 .. MaxCursor : ToolingFollows(next)

Next ==
  \/ \E o \in Operations : Call(o)
  \/ Exchange
  \/ ExpireToken
  \/ \E j \in Jobs : JobProgress(j)

Spec == Init /\ [][Next]_vars

(* Every attempt ends: the connection, read and write timeouts see to it.  *)
(* The server owes nothing: a job may stay InProgress for ever.            *)
FairSpec == Spec /\ WF_vars(Exchange)

-----------------------------------------------------------------------------
(* Properties.                                                             *)

(* Every variable keeps its type. *)
TypeOK ==
  /\ token_ok \in BOOLEAN
  /\ jobs \in [Jobs -> JobStates]
  /\ op \in Operations
  /\ stage \in {"idle", "body", "create", "poll", "page"}
  /\ phase \in {"first", "login", "second"}
  /\ attempt \in 1 .. RetryMax
  /\ job_id \in {0} \cup Jobs
  /\ polls \in 0 .. max_polls + 1
  /\ lists \in 0 .. MaxLists - 1
  /\ cursor \in 0 .. MaxCursor
  /\ seen \subseteq 1 .. MaxCursor
  /\ outcome \in {"none", "ok", "unavailable", "threw"}
  /\ sent \in 0 .. SendBound + 1
  /\ limit_hit \in BOOLEAN
  /\ expiries \in 0 .. MaxExpiries
  /\ blame \in BOOLEAN

(* The daily limit is terminal: once an answer says REQUEST_LIMIT_EXCEEDED *)
(* the operation sends nothing more, neither a retry nor a token request.  *)
LimitIsTerminal == [][limit_hit => sent' <= sent]_vars

(* BulkStartJob returns a results path only for a job that it created      *)
(* and that is complete on the server.                                     *)
ReturnsCompleteJob == op = "bulk" /\ outcome = "ok" => job_id # 0 /\ jobs[job_id] = "JobComplete"

(* An access token that expires, between any two requests of an operation, *)
(* is never by itself the reason why the operation fails.                  *)
ExpiryIsTransparent == outcome \in {"threw", "unavailable"} /\ op # "probe" => blame

(* Every operation ends, also when the job never does. *)
OperationEnds == [](stage # "idle" => <>(stage = "idle"))
=============================================================================
