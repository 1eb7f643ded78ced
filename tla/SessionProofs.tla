--------------------------- MODULE SessionProofs ---------------------------
(***************************************************************************)
(* One SalesforceSession for every retry limit, poll budget and pagination *)
(* guard.  AuthorizedSend is one loop shared by every operation, so the    *)
(* proofs are about what the operation may still rely on while requests    *)
(* are retried, tokens expire and replies get lost: which stage belongs to *)
(* which operation, that a poll is about a job this call created, and that *)
(* a token just granted is good unless something else went wrong.          *)
(***************************************************************************)
EXTENDS Session, TLAPS

(* A stage belongs to its operation, and an operation that runs has no     *)
(* outcome yet.                                                            *)
StageInv ==
  /\ stage \in {"create", "poll"} => op = "bulk"
  /\ stage = "page" => op = "tooling"
  /\ stage = "body" => op \in {"auth", "get", "probe"}
  /\ stage # "idle" => outcome = "none"

(* The job that is polled is known, and the budget is not used up. *)
PollInv ==
  /\ stage = "create" => polls = 0
  /\ stage = "poll" => job_id \in Jobs /\ polls <= max_polls

(* The request that follows a token exchange has a good token. *)
TokenInv == phase = "second" => token_ok \/ blame

(* The daily limit ended the operation. *)
LimitInv == limit_hit => stage = "idle"

(* The inductive invariant. *)
IInv ==
  /\ TypeOK
  /\ StageInv
  /\ PollInv
  /\ TokenInv
  /\ LimitInv
  /\ ReturnsCompleteJob
  /\ ExpiryIsTransparent

-----------------------------------------------------------------------------

(* The bounds are numbers. *)
LEMMA Bounds ==
  /\ max_polls \in Nat /\ max_polls >= 1
  /\ SendBound \in Nat
  <1>1. max_polls \in Nat /\ max_polls >= 1
    BY SessionAssumption DEF max_polls
  <1>2. RetryMax \in Nat
    BY SessionAssumption
  <1>3. 3 * RetryMax \in Nat
    BY <1>2
  <1>4. (max_polls + 2) * 3 \in Nat
    BY <1>1
  <1>5. \A m, n \in Nat : m * n \in Nat
    OBVIOUS
  <1>6. SendBound \in Nat
    BY <1>2, <1>4, <1>5 DEF SendBound
  <1> QED
    BY <1>1, <1>6

(* What one attempt of LiveHttpClient::Send changes, whatever the answer:  *)
(* a job may appear on the server, and the request is counted.             *)
LEMMA RequestFrame ==
  ASSUME TypeOK, LimitInv, NEW ans \in Answers, Request(ans)
  PROVE  /\ stage # "idle"
         /\ jobs' \in [Jobs -> JobStates]
         /\ sent' \in 0 .. SendBound + 1
         /\ limit_hit' = (ans = "limit")
         /\ stage # "create" => jobs' = jobs
  <1>1. stage # "idle" /\ ~ limit_hit
    BY DEF Request, LimitInv
  <1>2. jobs' \in [Jobs -> JobStates] /\ (stage # "create" => jobs' = jobs)
    BY DEF Request, CreateJob, TypeOK, JobStates
  <1>3. sent' \in 0 .. SendBound + 1
    BY Bounds DEF Request, CountRequest, TypeOK
  <1> QED
    BY <1>1, <1>2, <1>3 DEF Request

(* An accepted creation reply names a job of this call. *)
LEMMA NewJobType ==
  ASSUME TypeOK, stage = "create", phase # "login", Request("ok")
  PROVE  NewJob \in Jobs
  <1>1. PICK j \in Jobs : jobs[j] = "absent" /\ jobs' = [jobs EXCEPT ![j] = "InProgress"]
    BY DEF Request, CreateJob
  <1>2. jobs'[j] # jobs[j]
    BY <1>1 DEF TypeOK
  <1> QED
    BY <1>2 DEF NewJob

(* The session is created by ATTACH; nothing runs yet. *)
LEMMA IInit == Init => IInv
  <1> SUFFICES ASSUME Init PROVE IInv
    OBVIOUS
  <1> USE SessionAssumption, Bounds
  <1>1. TypeOK
    <2>1. /\ 1 \in 1 .. RetryMax /\ 0 \in 0 .. max_polls + 1 /\ 0 \in 0 .. MaxLists - 1
          /\ 0 \in 0 .. MaxCursor /\ 0 \in 0 .. SendBound + 1 /\ 0 \in 0 .. MaxExpiries
      OBVIOUS
    <2>2. jobs \in [Jobs -> JobStates]
      BY DEF Init, JobStates
    <2> QED
      BY <2>1, <2>2, Zenon DEF Init, TypeOK, Operations
  <1>2. StageInv /\ PollInv /\ TokenInv /\ LimitInv
    BY DEF Init, StageInv, PollInv, TokenInv, LimitInv
  <1>3. ReturnsCompleteJob /\ ExpiryIsTransparent
    BY DEF Init, ReturnsCompleteJob, ExpiryIsTransparent
  <1> QED
    BY <1>1, <1>2, <1>3 DEF IInv

(* A call begins: nothing is left of the one before, the token excepted. *)
LEMMA CallKeeps ==
  ASSUME IInv, NEW o \in Operations, Call(o)
  PROVE  IInv'
  <1> USE SessionAssumption, Bounds
  <1>1. /\ stage' = FirstStage(o) /\ op' = o /\ outcome' = "none"
        /\ phase' \in {"first", "login"} /\ limit_hit' = FALSE
    BY DEF Call
  <1>2. /\ stage' \in {"create", "page", "body"}
        /\ stage' = "create" <=> o = "bulk"
        /\ stage' = "page" <=> o = "tooling"
    BY <1>1 DEF FirstStage
  <1>3. TypeOK'
    <2>1. /\ 1 \in 1 .. RetryMax /\ 0 \in 0 .. max_polls + 1 /\ 0 \in 0 .. MaxLists - 1
          /\ 0 \in 0 .. MaxCursor /\ 0 \in 0 .. SendBound + 1 /\ 0 \in 0 .. MaxExpiries
      OBVIOUS
    <2>2. jobs' \in [Jobs -> JobStates]
      BY DEF Call, JobStates
    <2>3. lists' \in 0 .. MaxLists - 1
      BY <2>1 DEF Call
    <2>4. token_ok' \in BOOLEAN
      BY DEF Call, IInv, TypeOK
    <2> QED
      BY <1>1, <1>2, <2>1, <2>2, <2>3, <2>4, Zenon DEF Call, TypeOK
  <1>4. StageInv' /\ PollInv' /\ TokenInv' /\ LimitInv'
    BY <1>1, <1>2 DEF Call, StageInv, PollInv, TokenInv, LimitInv, Operations
  <1>5. ReturnsCompleteJob' /\ ExpiryIsTransparent'
    BY <1>1 DEF ReturnsCompleteJob, ExpiryIsTransparent
  <1> QED
    BY <1>3, <1>4, <1>5 DEF IInv

(* What happens at the server alone: the token expires, a job proceeds. *)
LEMMA ServerKeeps ==
  ASSUME IInv, ExpireToken \/ \E j \in Jobs : JobProgress(j)
  PROVE  IInv'
  <1> USE SessionAssumption, Bounds
  <1>1. /\ stage # "idle" /\ outcome = "none"
        /\ UNCHANGED <<op, stage, phase, attempt, job_id, polls, lists, cursor, seen, outcome>>
        /\ UNCHANGED <<sent, limit_hit>>
    BY DEF ExpireToken, JobProgress, IInv, StageInv
  <1>2. jobs' \in [Jobs -> JobStates]
    BY DEF ExpireToken, JobProgress, IInv, TypeOK, JobStates
  <1>3. token_ok' \in BOOLEAN /\ expiries' \in 0 .. MaxExpiries /\ blame' \in BOOLEAN
    <2>1. expiries' \in 0 .. MaxExpiries
      BY DEF ExpireToken, JobProgress, IInv, TypeOK
    <2>2. token_ok' \in BOOLEAN /\ blame' \in BOOLEAN
      BY Zenon DEF ExpireToken, JobProgress, IInv, TypeOK
    <2> QED
      BY <2>1, <2>2
  <1>4. TypeOK'
    BY <1>1, <1>2, <1>3 DEF IInv, TypeOK
  <1>5. StageInv' /\ PollInv' /\ LimitInv'
    BY <1>1 DEF IInv, StageInv, PollInv, LimitInv
  <1>6. TokenInv'
    BY <1>1 DEF IInv, TokenInv, ExpireToken, JobProgress
  <1>7. ReturnsCompleteJob' /\ ExpiryIsTransparent'
    BY <1>1 DEF ReturnsCompleteJob, ExpiryIsTransparent
  <1> QED
    BY <1>4, <1>5, <1>6, <1>7 DEF IInv

(* A request is sent again, or the token is exchanged: the operation goes  *)
(* on where it was.                                                        *)
LEMMA ResendKeeps ==
  ASSUME IInv, RetryAttempt \/ Unauthorized \/ (TokenGranted /\ op # "auth")
  PROVE  IInv'
  <1> USE SessionAssumption, Bounds
  <1>1. PICK ans \in Answers :
          /\ Request(ans) /\ ans # "limit"
          /\ RetryAttempt => Retries(ans)
    BY DEF RetryAttempt, Unauthorized, TokenGranted, Retries, Answers
  <1>2. /\ stage # "idle" /\ jobs' \in [Jobs -> JobStates] /\ sent' \in 0 .. SendBound + 1
        /\ limit_hit' = FALSE
    BY <1>1, RequestFrame DEF IInv
  <1>3. /\ UNCHANGED <<op, stage, job_id, polls, lists, cursor, seen, outcome, expiries>>
        /\ outcome = "none"
    BY <1>2 DEF RetryAttempt, Unauthorized, TokenGranted, IInv, StageInv
  <1>4. /\ token_ok' \in BOOLEAN /\ blame' \in BOOLEAN /\ phase' \in {"first", "login", "second"}
        /\ attempt' \in 1 .. RetryMax
    <2>1. attempt' \in 1 .. RetryMax
      BY <1>1 DEF RetryAttempt, Unauthorized, TokenGranted, Retries, IInv, TypeOK
    <2>2. /\ token_ok' \in BOOLEAN /\ blame' \in BOOLEAN
          /\ phase' \in {"first", "login", "second"}
      BY Zenon DEF RetryAttempt, Unauthorized, TokenGranted, IInv, TypeOK
    <2> QED
      BY <2>1, <2>2
  <1>5. TypeOK'
    BY <1>2, <1>3, <1>4 DEF IInv, TypeOK
  <1>6. StageInv' /\ PollInv' /\ LimitInv'
    BY <1>2, <1>3 DEF IInv, StageInv, PollInv, LimitInv
  <1>7. TokenInv'
    BY DEF IInv, TokenInv, RetryAttempt, Unauthorized, TokenGranted
  <1>8. ReturnsCompleteJob' /\ ExpiryIsTransparent'
    BY <1>3 DEF ReturnsCompleteJob, ExpiryIsTransparent
  <1> QED
    BY <1>5, <1>6, <1>7, <1>8 DEF IInv

(* The operation fails: for a reason of its own, or after a second 401,    *)
(* which a token just granted meets only when it expired in its turn.      *)
LEMMA FailureKeeps ==
  ASSUME IInv, SendThrows \/ StatusRejected
  PROVE  IInv'
  <1> USE SessionAssumption, Bounds
  <1>1. PICK ans \in Answers :
          /\ Request(ans)
          /\ SendThrows => Throws(ans) /\ blame' = (blame \/ ans # "unauthorized")
    BY DEF SendThrows, StatusRejected, Answers
  <1>2. /\ stage # "idle" /\ jobs' \in [Jobs -> JobStates] /\ sent' \in 0 .. SendBound + 1
        /\ limit_hit' \in BOOLEAN
    BY <1>1, RequestFrame DEF IInv
  <1>3. /\ stage' = "idle" /\ outcome' \in {"unavailable", "threw"}
        /\ UNCHANGED <<token_ok, op, phase, attempt, job_id, lists, cursor, seen, expiries>>
    BY DEF SendThrows, StatusRejected, Return
  <1>4. polls' \in 0 .. max_polls + 1
    BY DEF SendThrows, StatusRejected, IInv, TypeOK, PollInv
  <1>5. blame' = TRUE
    <2>1. CASE StatusRejected
      BY <2>1 DEF StatusRejected
    <2>2. CASE SendThrows /\ ans # "unauthorized"
      BY <1>1, <2>2
    <2>3. CASE SendThrows /\ ans = "unauthorized"
      <3>1. phase = "second" /\ ~ token_ok
        BY <1>1, <2>3 DEF Throws, Request, Possible
      <3> QED
        BY <1>1, <2>3, <3>1 DEF IInv, TokenInv, TypeOK
    <2> QED
      BY <2>1, <2>2, <2>3
  <1>6. TypeOK'
    BY <1>2, <1>3, <1>4, <1>5 DEF IInv, TypeOK
  <1>7. StageInv' /\ PollInv' /\ LimitInv' /\ TokenInv'
    BY <1>3, <1>5 DEF StageInv, PollInv, LimitInv, TokenInv
  <1>8. ReturnsCompleteJob' /\ ExpiryIsTransparent'
    BY <1>3, <1>5 DEF ReturnsCompleteJob, ExpiryIsTransparent
  <1> QED
    BY <1>6, <1>7, <1>8 DEF IInv

(* The operation returns its answer.  Only BulkStartJob answers with a job, *)
(* the one it has just seen complete.                                      *)
LEMMA AnswerKeeps ==
  ASSUME IInv,
         \/ BodyReceived \/ PollComplete \/ ToolingEnds
         \/ TokenGranted /\ op = "auth"
  PROVE  IInv'
  <1> USE SessionAssumption, Bounds
  <1>1. Request("ok")
    BY DEF BodyReceived, PollComplete, ToolingEnds, TokenGranted, Accepted
  <1>2. /\ stage # "idle" /\ jobs' \in [Jobs -> JobStates] /\ sent' \in 0 .. SendBound + 1
        /\ limit_hit' = FALSE /\ (stage # "create" => jobs' = jobs)
    BY <1>1, RequestFrame DEF IInv, Answers
  <1>3. /\ stage' = "idle" /\ outcome' \in {"ok", "unavailable"}
        /\ outcome' = "unavailable" => op = "probe"
        /\ UNCHANGED <<op, job_id, lists, cursor, seen, expiries, blame>>
    BY DEF BodyReceived, PollComplete, ToolingEnds, TokenGranted, Return
  <1>4. /\ polls' \in 0 .. max_polls + 1 /\ attempt' \in 1 .. RetryMax
    BY DEF BodyReceived, PollComplete, ToolingEnds, TokenGranted, IInv, TypeOK, PollInv
  <1>5. /\ token_ok' \in BOOLEAN /\ phase' \in {"first", "login", "second"}
        /\ phase' = "second" => token_ok' \/ blame'
    BY DEF BodyReceived, PollComplete, ToolingEnds, TokenGranted, IInv, TypeOK, TokenInv
  <1>6. TypeOK'
    BY <1>2, <1>3, <1>4, <1>5 DEF IInv, TypeOK
  <1>7. StageInv' /\ PollInv' /\ LimitInv' /\ TokenInv'
    BY <1>3, <1>5 DEF StageInv, PollInv, LimitInv, TokenInv
  <1>8. ReturnsCompleteJob'
    <2>1. op = "bulk" => PollComplete
      BY DEF BodyReceived, ToolingEnds, TokenGranted, IInv, StageInv
    <2>2. PollComplete => job_id \in Jobs /\ jobs'[job_id] = "JobComplete" /\ 0 \notin Jobs
      BY <1>2 DEF PollComplete, IInv, PollInv, Jobs
    <2> QED
      BY <1>3, <2>1, <2>2 DEF ReturnsCompleteJob
  <1>9. ExpiryIsTransparent'
    BY <1>3 DEF ExpiryIsTransparent
  <1> QED
    BY <1>6, <1>7, <1>8, <1>9 DEF IInv

(* BulkStartJob gives up on a job that failed, or at the end of its budget. *)
LEMMA GiveUpKeeps ==
  ASSUME IInv, PollGivesUp
  PROVE  IInv'
  <1> USE SessionAssumption, Bounds
  <1>1. Request("ok")
    BY DEF PollGivesUp, Accepted
  <1>2. /\ jobs' \in [Jobs -> JobStates] /\ sent' \in 0 .. SendBound + 1 /\ limit_hit' = FALSE
    BY <1>1, RequestFrame DEF IInv, Answers
  <1>3. /\ stage' = "idle" /\ outcome' = "threw" /\ blame' = TRUE
        /\ UNCHANGED <<token_ok, op, phase, attempt, job_id, lists, cursor, seen, expiries>>
    BY DEF PollGivesUp, Return
  <1>4. polls' \in 0 .. max_polls + 1
    BY DEF PollGivesUp, IInv, TypeOK, PollInv
  <1>5. TypeOK'
    BY <1>2, <1>3, <1>4 DEF IInv, TypeOK
  <1>6. StageInv' /\ PollInv' /\ LimitInv' /\ TokenInv'
    BY <1>3 DEF StageInv, PollInv, LimitInv, TokenInv
  <1>7. ReturnsCompleteJob' /\ ExpiryIsTransparent'
    BY <1>3 DEF ReturnsCompleteJob, ExpiryIsTransparent
  <1> QED
    BY <1>5, <1>6, <1>7 DEF IInv

(* The job is created: it is polled from now on, or the reply names none. *)
LEMMA JobCreatedKeeps ==
  ASSUME IInv, JobCreated
  PROVE  IInv'
  <1> USE SessionAssumption, Bounds
  <1>1. Request("ok") /\ stage = "create" /\ phase # "login"
    BY DEF JobCreated, Accepted
  <1>2. /\ jobs' \in [Jobs -> JobStates] /\ sent' \in 0 .. SendBound + 1 /\ limit_hit' = FALSE
        /\ op = "bulk" /\ outcome = "none"
    BY <1>1, RequestFrame DEF IInv, Answers, StageInv
  <1>3. UNCHANGED <<token_ok, op, polls, lists, cursor, seen, expiries>>
    BY DEF JobCreated
  <1>4. CASE job_id' = NewJob /\ NextSend("poll") /\ UNCHANGED <<outcome, blame>>
    <2>1. job_id' \in Jobs
      BY <1>1, <1>4, NewJobType DEF IInv
    <2>2. stage' = "poll" /\ phase' = "first" /\ attempt' = 1 /\ outcome' = "none"
      BY <1>2, <1>4 DEF NextSend
    <2>3. attempt' \in 1 .. RetryMax
      BY <2>2
    <2>4. TypeOK'
      BY <1>2, <1>3, <1>4, <2>1, <2>2, <2>3 DEF IInv, TypeOK
    <2>5. polls' <= max_polls
      BY <1>1, <1>3 DEF IInv, PollInv
    <2> QED
      BY <1>2, <1>3, <2>1, <2>2, <2>4, <2>5
      DEF IInv, StageInv, PollInv, LimitInv, TokenInv, ReturnsCompleteJob, ExpiryIsTransparent
  <1>5. CASE Return("threw") /\ blame' = TRUE /\ UNCHANGED <<job_id, phase, attempt>>
    <2>1. stage' = "idle" /\ outcome' = "threw"
      BY <1>5 DEF Return
    <2>2. TypeOK'
      BY <1>2, <1>3, <1>5, <2>1 DEF IInv, TypeOK
    <2> QED
      BY <1>5, <2>1, <2>2
      DEF IInv, StageInv, PollInv, LimitInv, TokenInv, ReturnsCompleteJob, ExpiryIsTransparent
  <1> QED
    BY <1>4, <1>5 DEF JobCreated

(* A good reply leads to the next request of the same operation. *)
LEMMA NextSendKeeps ==
  ASSUME IInv,
         PollAgain \/ ToolingNextList \/ \E next \in 1 .. MaxCursor : ToolingFollows(next)
  PROVE  IInv'
  <1> USE SessionAssumption, Bounds
  <1>1. Request("ok") /\ stage \in {"poll", "page"}
    BY DEF PollAgain, ToolingNextList, ToolingFollows, Accepted
  <1>2. /\ jobs' \in [Jobs -> JobStates] /\ sent' \in 0 .. SendBound + 1 /\ limit_hit' = FALSE
        /\ outcome = "none"
    BY <1>1, RequestFrame DEF IInv, Answers, StageInv
  <1>3. /\ stage' = stage /\ phase' = "first" /\ attempt' = 1
        /\ UNCHANGED <<token_ok, op, job_id, outcome, expiries, blame>>
    BY <1>1 DEF PollAgain, ToolingNextList, ToolingFollows, NextSend
  <1>4. polls' \in 0 .. max_polls + 1 /\ (stage = "poll" => polls' <= max_polls)
    BY DEF PollAgain, ToolingNextList, ToolingFollows, IInv, TypeOK, PollInv
  <1>5. lists' \in 0 .. MaxLists - 1
    BY DEF PollAgain, ToolingNextList, ToolingFollows, IInv, TypeOK
  <1>6. cursor' \in 0 .. MaxCursor /\ seen' \subseteq 1 .. MaxCursor
    <2>1. CASE PollAgain
      BY <2>1 DEF PollAgain, IInv, TypeOK
    <2>2. CASE ToolingNextList
      BY <2>2 DEF ToolingNextList
    <2>3. ASSUME NEW next \in 1 .. MaxCursor, ToolingFollows(next)
          PROVE  cursor' \in 0 .. MaxCursor /\ seen' \subseteq 1 .. MaxCursor
      BY <2>3 DEF ToolingFollows, IInv, TypeOK
    <2> QED
      BY <2>1, <2>2, <2>3
  <1>7. TypeOK'
    <2>1. 1 \in 1 .. RetryMax
      OBVIOUS
    <2> QED
      BY <1>2, <1>3, <1>4, <1>5, <1>6, <2>1 DEF IInv, TypeOK
  <1>8. StageInv' /\ PollInv' /\ LimitInv' /\ TokenInv'
    BY <1>1, <1>2, <1>3, <1>4 DEF IInv, StageInv, PollInv, LimitInv, TokenInv
  <1>9. ReturnsCompleteJob' /\ ExpiryIsTransparent'
    BY <1>2, <1>3 DEF ReturnsCompleteJob, ExpiryIsTransparent
  <1> QED
    BY <1>7, <1>8, <1>9 DEF IInv

(* Every step keeps the invariant. *)
LEMMA IStep == IInv /\ [Next]_vars => IInv'
  <1> SUFFICES ASSUME IInv, [Next]_vars PROVE IInv'
    OBVIOUS
  <1>1. CASE \E o \in Operations : Call(o)
    BY <1>1, CallKeeps
  <1>2. CASE Exchange
    BY <1>2, ResendKeeps, FailureKeeps, AnswerKeeps, GiveUpKeeps, JobCreatedKeeps, NextSendKeeps
    DEF Exchange
  <1>3. CASE ExpireToken \/ \E j \in Jobs : JobProgress(j)
    BY <1>3, ServerKeeps
  <1>4. CASE UNCHANGED vars
    BY <1>4 DEF vars, IInv, TypeOK, StageInv, PollInv, TokenInv, LimitInv, ReturnsCompleteJob,
                ExpiryIsTransparent
  <1> QED
    BY <1>1, <1>2, <1>3, <1>4 DEF Next

-----------------------------------------------------------------------------

(* Every variable of the session keeps its type, and every loop its bound: *)
(* the attempts of a request, the polls of a job, the lists and cursors.   *)
THEOREM SessionTypeOK == Spec => []TypeOK
  <1>1. IInv => TypeOK
    BY DEF IInv
  <1> QED
    BY IInit, IStep, <1>1, PTL DEF Spec

(* BulkStartJob returns a results path only for a job it created and that  *)
(* is complete, whatever was retried, lost or created twice before.        *)
THEOREM BulkReturnsCompleteJob == Spec => []ReturnsCompleteJob
  <1>1. IInv => ReturnsCompleteJob
    BY DEF IInv
  <1> QED
    BY IInit, IStep, <1>1, PTL DEF Spec

(* A token that expires at any moment is never by itself the reason why an *)
(* operation fails: AuthorizedSend exchanges it and sends again.           *)
THEOREM TokenExpiryIsTransparent == Spec => []ExpiryIsTransparent
  <1>1. IInv => ExpiryIsTransparent
    BY DEF IInv
  <1> QED
    BY IInit, IStep, <1>1, PTL DEF Spec

(* Once an answer says REQUEST_LIMIT_EXCEEDED, the operation sends nothing *)
(* more: no retry, no token exchange, no next poll or page.                *)
THEOREM DailyLimitIsTerminal == Spec => LimitIsTerminal
  <1>1. IInv /\ [Next]_vars => [limit_hit => sent' <= sent]_vars
    <2> SUFFICES ASSUME IInv, Next, limit_hit PROVE sent' <= sent
      OBVIOUS
    <2>1. stage = "idle" /\ sent \in Nat
      BY Bounds DEF IInv, LimitInv, TypeOK
    <2>2. PICK o \in Operations : Call(o)
      BY <2>1 DEF Next, Exchange, RetryAttempt, Unauthorized, TokenGranted, SendThrows,
                  StatusRejected, BodyReceived, JobCreated, PollComplete, PollGivesUp, PollAgain,
                  ToolingEnds, ToolingNextList, ToolingFollows, Accepted, Request, ExpireToken,
                  JobProgress
    <2>3. sent' = 0
      BY <2>2 DEF Call
    <2> QED
      BY <2>1, <2>3
  <1> QED
    BY IInit, IStep, <1>1, PTL DEF Spec, LimitIsTerminal
=============================================================================
