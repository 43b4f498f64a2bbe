------------------------------- MODULE Reflex -------------------------------
(* One call of the reflex model: the request offers the retrieved candidates  *)
(* and asks a set of questions; the worker posts it, retries while the        *)
(* provider is rate limited or overloaded, inside a deadline and a token; the *)
(* answer is normalised into a decision, which the policy turns into an       *)
(* action. The call is made by the pipeline, which waits for it, or through   *)
(* a future whose worker thread goes on by itself: polled, woken or dropped.  *)
EXTENDS Naturals, Sequences, FiniteSets

CONSTANTS
    MaxAttempts, Deadline, MaxCandidates,    \* JevAdapterConfig, in ticks
    Backoffs,       \* values of initial_backoff considered
    Budgets,        \* what remains of the interaction budget
    Rankings,       \* sequences of asset ids, best first
    ReuseThreshold, MinConfidence,           \* PolicyConfig, in halves
    Bodies,         \* what the provider may answer
    MaxClock        \* bound on time

(* JevAdapterConfig::validate and ReflexPipeline::new.                        *)
ConfigAssumption ==
    /\ MaxAttempts \in Nat \ {0} /\ Deadline \in Nat \ {0} /\ MaxCandidates \in Nat \ {0}
    /\ ReuseThreshold \in 0 .. 2 /\ MinConfidence \in 0 .. 2
    /\ Backoffs \subseteq Nat /\ Budgets \subseteq Nat

VARIABLES
    clock,
    request,        \* [caller, sound, ranking, budget, backoff]
    pc,             \* the worker
    started, attempts, until,    \* of the call: start, attempts, deadline
    status,         \* of the last response
    answer,         \* its body
    naps,           \* until when it backs off
    token,          \* the cancellation token
    result,         \* what the call returned
    future,         \* "none", "pending", "ready" or "dropped"
    slot, waker,    \* WorkerState: result stored, waker stored
    scheduled,      \* the task that owns the future is due to be polled
    executed,       \* the pipeline's action
    posts,          \* history: when each attempt was posted and how it ended
    late            \* history: posts begun after the future was dropped

vars == <<clock, request, pc, started, attempts, until, status, answer, naps, token,
          result, future, slot, waker, scheduled, executed, posts, late>>
call == <<request, started, until>>
owner == <<future, waker, scheduled, token>>

Routes == {"silent", "reaction", "cached", "template", "llm"}
Engine == {"timeout", "unavailable", "rate_limited", "overloaded", "authentication", "invalid_request"}
NoAnswer == [given |-> {}, route |-> "silent", confidence |-> 0, reuse |-> 0, pick |-> "none"]
None == [kind |-> "none", at |-> 0, attempts |-> 0, answer |-> NoAnswer, pick |-> "none"]
Refused == [action |-> "none", asset |-> "none", reason |-> "none"]

-----------------------------------------------------------------------------
(* What is asked and how an answer is read                                    *)

Offered == {request.ranking[i] : i \in {j \in DOMAIN request.ranking : j <= MaxCandidates}}

(* build_questions: the fixed questions, and one about the candidates when    *)
(* there are any.                                                             *)
Questions(offered) ==
    {"response_route", "reaction_family", "gesture_family", "attention_target", "interrupt",
     "cache_reuse", "importance", "emotion_intensity"}
    \cup (IF offered = {} THEN {} ELSE {"selected_candidate"})

(* normalize_answers: every question answered with a known choice or a number *)
(* between 0 and 1 (here halves), and a picked candidate that was offered.    *)
Normalized(body, offered) ==
    /\ Questions(offered) \subseteq body.given
    /\ body.route \in Routes
    /\ body.confidence \in 0 .. 2 /\ body.reuse \in 0 .. 2
    /\ offered # {} => body.pick \in offered \cup {"none"}

-----------------------------------------------------------------------------
(* The worker: evaluate_with_cancellation_and_budget                          *)

Init ==
    /\ clock = 0
    /\ request \in [caller : {"pipeline", "future"}, sound : BOOLEAN, ranking : Rankings,
                    budget : Budgets, backoff : Backoffs]
    /\ pc = "start" /\ started = 0 /\ attempts = 0 /\ until = 0
    /\ status = 0 /\ answer = NoAnswer /\ naps = 0 /\ token = FALSE /\ result = None
    /\ future = IF request.caller = "future" THEN "pending" ELSE "none"
    /\ slot = None /\ waker = FALSE
    /\ scheduled = (request.caller = "future")
    /\ executed = Refused /\ posts = <<>> /\ late = 0

Expired == clock >= until

(* The call ends: with an error, or with what the answer was normalised to.   *)
Return(kind) ==
    /\ pc' = "returned"
    /\ result' = [kind |-> kind, at |-> clock, attempts |-> attempts, answer |-> answer,
                  pick |-> IF kind = "ok" /\ Offered # {} THEN answer.pick ELSE "none"]

(* The budget is the smaller of the deadline and what remains; the future is  *)
(* given no remaining budget. The body is built before the first check.       *)
Start ==
    LET budget == IF request.caller = "pipeline" /\ request.budget < Deadline
                  THEN request.budget ELSE Deadline
    IN  /\ pc = "start"
        /\ started' = clock /\ until' = clock + budget
        /\ \/ /\ budget = 0
              /\ Return("timeout")
           \/ /\ budget > 0 /\ ~request.sound
              /\ Return("invalid_request")
           \/ /\ budget > 0 /\ request.sound
              /\ pc' = "check" /\ UNCHANGED result
        /\ UNCHANGED <<clock, request, attempts, status, answer, naps, owner, slot, executed, posts, late>>

\* Mutant: the token is read only before the first attempt.
CheckOnce ==
    /\ pc = "check"
    /\ IF (token /\ attempts = 0) \/ Expired
       THEN Return("timeout") ELSE pc' = "post" /\ UNCHANGED result
    /\ UNCHANGED <<clock, call, attempts, status, answer, naps, owner, slot, executed, posts, late>>

(* The top of the loop: cancelled, or nothing remains.                        *)
Check ==
    /\ pc = "check"
    /\ IF token \/ Expired THEN Return("timeout") ELSE pc' = "post" /\ UNCHANGED result
    /\ UNCHANGED <<clock, call, attempts, status, answer, naps, owner, slot, executed, posts, late>>

Post ==
    /\ pc = "post"
    /\ attempts' = attempts + 1
    /\ pc' = "posted"
    /\ posts' = Append(posts, [at |-> clock, status |-> 0])
    /\ late' = IF token THEN late + 1 ELSE late
    /\ UNCHANGED <<clock, call, status, answer, naps, owner, result, slot, executed>>

(* The transport answers, times out or fails, after any time.                 *)
Respond(code, body) ==
    /\ pc = "posted"
    /\ status' = code /\ answer' = body
    /\ posts' = [posts EXCEPT ![Len(posts)].status = code]
    /\ pc' = "received"
    /\ UNCHANGED <<clock, call, attempts, naps, owner, result, slot, executed, late>>

TransportFails ==
    /\ pc = "posted"
    /\ \E kind \in {"timeout", "unavailable"} : Return(kind)
    /\ UNCHANGED <<clock, call, attempts, status, answer, naps, owner, slot, executed, posts, late>>

RetryKind == IF status = 429 THEN "rate_limited" ELSE "overloaded"

(* backoff_for: doubled with every attempt (the shift is bounded by 16).      *)
Pause(attempt) == request.backoff * 2 ^ (IF attempt - 1 < 16 THEN attempt - 1 ELSE 16)
Backoff == Pause(attempts)

(* What is not a success: refused, failed for good, or to be tried again      *)
(* after a pause; sleep_with_cancellation gives up at once when the pause     *)
(* does not fit, and does not pause at all when it is zero.                   *)
Classify ==
    /\ pc = "received" /\ status # 200
    /\ \/ status \in {401, 403} /\ Return("authentication") /\ UNCHANGED naps
       \/ status \in {400, 422} /\ Return("invalid_request") /\ UNCHANGED naps
       \/ status \notin {400, 401, 403, 422, 429, 529} /\ Return("unavailable") /\ UNCHANGED naps
       \/ status \in {429, 529} /\ attempts >= MaxAttempts /\ Return(RetryKind) /\ UNCHANGED naps
       \/ /\ status \in {429, 529} /\ attempts < MaxAttempts
          /\ Expired \/ (Backoff > 0 /\ clock + Backoff >= until) \/ (Backoff = 0 /\ token)
          /\ Return("timeout") /\ UNCHANGED naps
       \/ /\ status \in {429, 529} /\ attempts < MaxAttempts
          /\ ~Expired /\ (Backoff > 0 => clock + Backoff < until) /\ (Backoff = 0 => ~token)
          /\ pc' = (IF Backoff = 0 THEN "check" ELSE "sleep")
          /\ naps' = clock + Backoff /\ UNCHANGED result
    /\ UNCHANGED <<clock, call, attempts, status, answer, owner, slot, executed, posts, late>>

(* The sleeping loop, looked at after each slice: over, or given up.          *)
Sleep ==
    /\ pc = "sleep"
    /\ \/ clock >= naps /\ pc' = "check" /\ UNCHANGED result
       \/ clock < naps /\ (token \/ Expired) /\ Return("timeout")
    /\ UNCHANGED <<clock, call, attempts, status, answer, naps, owner, slot, executed, posts, late>>

(* A success is parsed if it came in time; NoAnswer is a body that does not   *)
(* parse.                                                                     *)
Parse ==
    /\ pc = "received" /\ status = 200
    /\ IF Expired
       THEN Return("timeout")
       ELSE IF answer = NoAnswer THEN Return("invalid_request")
       ELSE pc' = "parsed" /\ UNCHANGED result
    /\ UNCHANGED <<clock, call, attempts, status, answer, naps, owner, slot, executed, posts, late>>

(* Parsing may have taken the rest of the time; then the answers are read.    *)
Normalize ==
    /\ pc = "parsed"
    /\ Return(IF Expired THEN "timeout"
              ELSE IF Normalized(answer, Offered) THEN "ok" ELSE "invalid_request")
    /\ UNCHANGED <<clock, call, attempts, status, answer, naps, owner, slot, executed, posts, late>>

-----------------------------------------------------------------------------
(* The future: WorkerFuture                                                   *)

(* The thread stores the result and takes the waker under the lock, and wakes *)
(* after it: the waker it took is in pc.                                      *)
Publish ==
    /\ pc = "returned" /\ request.caller = "future"
    /\ slot' = result /\ waker' = FALSE
    /\ pc' = IF waker THEN "wake" ELSE "done"
    /\ UNCHANGED <<clock, call, attempts, status, answer, naps, token, result, future, scheduled,
                   executed, posts, late>>

Wake ==
    /\ pc = "wake"
    /\ pc' = "done" /\ scheduled' = TRUE
    /\ UNCHANGED <<clock, call, attempts, status, answer, naps, token, result, future, slot, waker,
                   executed, posts, late>>

\* Mutant: a poll that finds no result leaves no waker.
PollWithoutWaker ==
    /\ future = "pending" /\ scheduled
    /\ scheduled' = FALSE
    /\ IF slot.kind # "none" THEN future' = "ready" ELSE UNCHANGED future
    /\ UNCHANGED <<clock, call, pc, attempts, status, answer, naps, token, result, slot, waker,
                   executed, posts, late>>

(* poll: the result is taken, or the waker left, under the lock.              *)
Poll ==
    /\ future = "pending" /\ scheduled
    /\ scheduled' = FALSE
    /\ IF slot.kind # "none" THEN future' = "ready" /\ UNCHANGED waker
                             ELSE waker' = TRUE /\ UNCHANGED future
    /\ UNCHANGED <<clock, call, pc, attempts, status, answer, naps, token, result, slot,
                   executed, posts, late>>

(* Dropping the future cancels the token; the thread finds out by itself.     *)
Drop ==
    /\ future \in {"pending", "ready"}
    /\ future' = "dropped" /\ token' = TRUE /\ scheduled' = FALSE
    /\ UNCHANGED <<clock, call, pc, attempts, status, answer, naps, result, slot, waker,
                   executed, posts, late>>

-----------------------------------------------------------------------------
(* The policy: apply_policy and execute_policy                                *)

Policy(outcome) ==
    LET fallback(reason) == [action |-> "fallback", asset |-> "none", reason |-> reason]
        said == outcome.answer
    IN  IF outcome.kind # "ok" THEN fallback(outcome.kind)
        ELSE IF said.confidence < MinConfidence THEN fallback("low_confidence")
        ELSE IF said.route # "cached" THEN [action |-> said.route, asset |-> "none", reason |-> "none"]
        ELSE IF said.reuse >= ReuseThreshold /\ outcome.pick # "none"
        THEN [action |-> "cached", asset |-> outcome.pick, reason |-> "none"]
        ELSE fallback("policy_override")

(* run_with_budget, once the call has returned.                               *)
Execute ==
    /\ pc = "returned" /\ request.caller = "pipeline"
    /\ pc' = "done"
    /\ executed' = Policy(result)
    /\ UNCHANGED <<clock, call, attempts, status, answer, naps, owner, result, slot, posts, late>>

Worker ==
    \/ Start \/ Check \/ Post \/ TransportFails \/ Classify \/ Sleep \/ Parse \/ Normalize
    \/ \E code \in {401, 400, 429, 529, 500} : Respond(code, NoAnswer)
    \/ \E body \in Bodies : Respond(200, body)
    \/ Publish \/ Wake \/ Execute

(* Time passes between any two steps of a call.                               *)
Tick ==
    /\ pc \notin {"start", "wake", "done"} /\ clock < MaxClock
    /\ clock' = clock + 1
    /\ UNCHANGED <<call, pc, attempts, status, answer, naps, owner, result, slot, executed, posts, late>>

Next == Worker \/ Poll \/ Drop \/ Tick

(* The operating system runs the worker thread, the transport honours its     *)
(* timeout and so returns, an executor polls a task that was woken, and time  *)
(* passes.                                                                    *)
Spec == Init /\ [][Next]_vars
LiveSpec == Spec /\ WF_vars(Worker) /\ WF_vars(Poll) /\ WF_vars(Tick)

-----------------------------------------------------------------------------
TypeOK ==
    /\ clock \in 0 .. MaxClock
    /\ pc \in {"start", "check", "post", "posted", "received", "sleep", "parsed", "returned", "wake", "done"}
    /\ attempts \in 0 .. MaxAttempts /\ Len(posts) = attempts
    /\ token \in BOOLEAN /\ waker \in BOOLEAN /\ scheduled \in BOOLEAN
    /\ future \in {"none", "pending", "ready", "dropped"}
    /\ result.kind \in Engine \cup {"ok", "none"} /\ slot.kind \in Engine \cup {"ok", "none"}

(* A request is sent again only because the provider was rate limited or      *)
(* overloaded, at most MaxAttempts times in all, and every pause is at least  *)
(* as long as its attempt asks for (backoff_for).                             *)
RetriesJustified ==
    /\ Len(posts) <= MaxAttempts
    /\ \A i \in 1 .. Len(posts) - 1 :
          /\ posts[i].status \in {429, 529}
          /\ posts[i + 1].at >= posts[i].at + Pause(i)

(* After the future is dropped at most the post that was being started goes   *)
(* out, however many attempts and pauses were left.                           *)
DropStopsPosts == late <= 1

(* An action other than a fallback rests on an answer read before the         *)
(* deadline; a cached asset was retrieved, was offered, was picked by the     *)
(* model and passed both thresholds.                                          *)
ActionEarned ==
    executed.action \notin {"none", "fallback"} =>
        /\ result.kind = "ok" /\ result.at < until
        /\ result.answer.confidence >= MinConfidence
        /\ executed.asset # "none" <=> executed.action = "cached"
        /\ executed.action = "cached" =>
              /\ executed.asset = result.answer.pick
              /\ executed.asset \in Offered
              /\ result.answer.reuse >= ReuseThreshold

(* The questions asked and the answers required agree: a provider that        *)
(* answers what was asked, in range, is never told that it answered wrongly.  *)
AskedIsEnough ==
    LET inRange == /\ Questions(Offered) \subseteq answer.given /\ answer.route \in Routes
                   /\ answer.confidence \in 0 .. 2 /\ answer.reuse \in 0 .. 2
                   /\ (Offered = {} \/ answer.pick \in Offered \cup {"none"})
    IN  status = 200 /\ inRange => result.kind # "invalid_request"

(* Every call returns, and a future that is kept becomes ready.               *)
CallReturns == <>(pc = "done")
FutureResolves == [](future = "pending" => <>(future \in {"ready", "dropped"}))
=============================================================================
