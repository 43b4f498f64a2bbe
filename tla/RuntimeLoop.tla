----------------------------- MODULE RuntimeLoop -----------------------------
(***************************************************************************)
(* The runtime loop of crates/app/src/main.rs and the operator endpoint of *)
(* crates/app/src/operator_control.rs.                                     *)
(*                                                                         *)
(* Three parties run concurrently: the raw-ingress reader fills a bounded  *)
(* queue of records; one task per operator connection reads requests,      *)
(* passes the shared rate limiter and hands one request at a time to a     *)
(* bounded dispatch queue; the loop receives a record or times out, then   *)
(* drains the dispatch queue, authenticating and applying each request,    *)
(* and ticks the app.                                                      *)
(*                                                                         *)
(* A record is blank or content.  A request is its action and whether its  *)
(* secret is the right one.  Uptime is in seconds and takes the values of  *)
(* Uptimes; the rest of time is left to the order of steps.                *)
(***************************************************************************)
EXTENDS Integers, Sequences, FiniteSets, SequencesExt

CONSTANTS
    Connections,      \* operator connections
    Records,          \* the kinds of record the input holds
    Requests,         \* the requests clients send
    Uptimes,          \* seconds since start at which requests are handled
    RawCapacity,      \* raw_ingress_config.queue_capacity
    DispatchCapacity, \* mpsc::channel::<DispatchedOperatorRequest>(64)
    RateCapacity,     \* OperatorRateLimiter::capacity
    None

Actions == {"status", "diagnose", "stop", "mute", "unmute"}
Known   == {"status", "diagnose", "stop", "mute"}
Reads   == {"status", "diagnose"}

RequestType == [action : Actions, secret : BOOLEAN, wellFormed : BOOLEAN]

Replies == {"ok", "authentication failed", "unknown action", "rate limited",
            "invalid request", "record too large"}

RequestsAssumption ==
    /\ Requests \subseteq RequestType
    /\ Records \subseteq {"blank", "content"}
    /\ Uptimes \subseteq Nat /\ 0 \in Uptimes
    /\ None \notin RequestType \cup Replies

CapacityAssumption ==
    /\ RawCapacity \in Nat \ {0}
    /\ DispatchCapacity \in Nat \ {0}
    /\ RateCapacity \in Nat \ {0}

VARIABLES
    input,     \* is standard input still open?
    raw,       \* the bounded queue of records
    conn,      \* connection -> "reading", "sending", "waiting", "closed"
    request,   \* connection -> the request it handles, or None
    reply,     \* connection -> the last line it wrote, or None
    senders,   \* connections waiting for room in the dispatch queue, in order
    dispatch,  \* the dispatch queue
    tokens,    \* whole tokens of the rate limiter
    clock,     \* elapsed seconds
    pc,        \* "recv", "drain" or "ended"
    muted,     \* security.muted
    granted    \* actions that were sent with the right secret (history)

vars == <<input, raw, conn, request, reply, senders, dispatch, tokens, clock,
          pc, muted, granted>>
endpoint == <<conn, request, reply, senders, dispatch, tokens, granted>>

Init ==
    /\ input = TRUE /\ raw = <<>>
    /\ conn = [c \in Connections |-> "reading"]
    /\ request = [c \in Connections |-> None]
    /\ reply = [c \in Connections |-> None]
    /\ senders = <<>> /\ dispatch = <<>>
    /\ tokens = RateCapacity
    /\ clock = 0 /\ pc = "recv" /\ muted = FALSE /\ granted = {}

-----------------------------------------------------------------------------
(* The surroundings: standard input, time, operator clients.               *)

\* The reader offers a record; when the queue is full it drops it instead.
RecordArrives(r) ==
    /\ input /\ pc # "ended"
    /\ Len(raw) < RawCapacity
    /\ raw' = Append(raw, r)
    /\ UNCHANGED <<input, endpoint, clock, pc, muted>>

InputCloses ==
    /\ input
    /\ input' = FALSE
    /\ UNCHANGED <<raw, endpoint, clock, pc, muted>>

TimePasses ==
    /\ \E t \in Uptimes : t > clock /\ clock' = t
    /\ UNCHANGED <<input, raw, endpoint, pc, muted>>

\* The bucket gains a token as time passes, up to its capacity.
Refill ==
    /\ tokens < RateCapacity
    /\ tokens' = tokens + 1
    /\ UNCHANGED <<input, raw, conn, request, reply, senders, dispatch, clock,
                   pc, muted, granted>>

-----------------------------------------------------------------------------
(* handle_connection                                                       *)

Answer(c, text) == reply' = [reply EXCEPT ![c] = text]

\* A line arrives when the bucket is empty, whatever the line says.
LineRateLimited(c) ==
    /\ conn[c] = "reading" /\ tokens = 0
    /\ Answer(c, "rate limited")
    /\ UNCHANGED <<input, raw, conn, request, senders, dispatch, tokens, clock,
                   pc, muted, granted>>

LineInvalid(c, q) ==
    /\ conn[c] = "reading" /\ tokens > 0
    /\ ~q.wellFormed
    /\ tokens' = tokens - 1
    /\ Answer(c, "invalid request")
    /\ UNCHANGED <<input, raw, conn, request, senders, dispatch, clock, pc,
                   muted, granted>>

\* The request is parsed and handed to the dispatcher, which may be full.
LineRequest(c, q) ==
    /\ conn[c] = "reading" /\ tokens > 0
    /\ q.wellFormed
    /\ tokens' = tokens - 1
    /\ conn' = [conn EXCEPT ![c] = "sending"]
    /\ request' = [request EXCEPT ![c] = q]
    /\ reply' = [reply EXCEPT ![c] = None]
    /\ senders' = Append(senders, c)
    /\ granted' = IF q.secret THEN granted \cup {q.action} ELSE granted
    /\ UNCHANGED <<input, raw, dispatch, clock, pc, muted>>

\* A line over MAX_RECORD_BYTES is answered and ends the connection.
LineTooLong(c) ==
    /\ conn[c] = "reading"
    /\ Answer(c, "record too large")
    /\ conn' = [conn EXCEPT ![c] = "closed"]
    /\ UNCHANGED <<input, raw, request, senders, dispatch, tokens, clock, pc,
                   muted, granted>>

\* End of stream, a read error, or REQUEST_TIMEOUT without a line.
ConnectionEnds(c) ==
    /\ conn[c] = "reading"
    /\ conn' = [conn EXCEPT ![c] = "closed"]
    /\ UNCHANGED <<input, raw, request, reply, senders, dispatch, tokens, clock,
                   pc, muted, granted>>

\* Mutant: a request that finds the queue full is discarded.
DispatchOrDiscard ==
    /\ senders # <<>> /\ pc # "ended"
    /\ dispatch' = IF Len(dispatch) < DispatchCapacity
                   THEN Append(dispatch, Head(senders)) ELSE dispatch
    /\ conn' = [conn EXCEPT ![Head(senders)] = "waiting"]
    /\ senders' = Tail(senders)
    /\ UNCHANGED <<input, raw, request, reply, tokens, clock, pc, muted, granted>>

\* dispatcher.send().await: senders enter in the order they arrived.
Dispatch ==
    /\ senders # <<>> /\ pc # "ended"
    /\ Len(dispatch) < DispatchCapacity
    /\ dispatch' = Append(dispatch, Head(senders))
    /\ conn' = [conn EXCEPT ![Head(senders)] = "waiting"]
    /\ senders' = Tail(senders)
    /\ UNCHANGED <<input, raw, request, reply, tokens, clock, pc, muted, granted>>

\* A queue without the one entry of a connection.
Leave(s, c) ==
    LET at == {i \in DOMAIN s : s[i] = c}
    IN IF at = {} THEN s ELSE RemoveAt(s, CHOOSE i \in at : TRUE)

\* Once the loop has ended, the send or the pending answer fails and the
\* connection is closed without a reply.
ConnectionLost(c) ==
    /\ pc = "ended"
    /\ conn[c] \in {"sending", "waiting"}
    /\ conn' = [conn EXCEPT ![c] = "closed"]
    /\ senders' = Leave(senders, c)
    /\ dispatch' = Leave(dispatch, c)
    /\ UNCHANGED <<input, raw, request, reply, tokens, clock, pc, muted, granted>>

-----------------------------------------------------------------------------
(* Authentication: LocalControlIngress and the envelope it validates.      *)

\* rfc3339_from_ms: 1970-01-01T00:MM:SSZ, without carrying minutes into hours.
EventTime(seconds) == [hour |-> 0, minute |-> seconds \div 60, second |-> seconds % 60]

\* is_json_schema_date_time on such a string; three digits fail like 60.
TimestampValid(t) == t.hour <= 23 /\ t.minute <= 59 /\ t.second <= 59

\* authenticate: the secret, the capability of the action (granted for stop
\* and mute), and the validity of the control event.
Authenticates(q, seconds) == q.secret /\ TimestampValid(EventTime(seconds))

\* apply_dispatched_request
Outcome(q, seconds) ==
    IF q.action \notin Known THEN "unknown action"
    ELSE IF IF q.action \in Reads THEN q.secret ELSE Authenticates(q, seconds)
         THEN "ok" ELSE "authentication failed"

-----------------------------------------------------------------------------
(* The loop.                                                               *)

\* A record of white space is skipped together with the rest of the iteration.
RecvBlank ==
    /\ pc = "recv" /\ raw # <<>> /\ Head(raw) = "blank"
    /\ raw' = Tail(raw)
    /\ UNCHANGED <<input, endpoint, clock, pc, muted>>

\* process_content_bytes, whatever its result, is followed by the drain.
RecvContent ==
    /\ pc = "recv" /\ raw # <<>> /\ Head(raw) = "content"
    /\ raw' = Tail(raw)
    /\ pc' = "drain"
    /\ UNCHANGED <<input, endpoint, clock, muted>>

RecvTimeout ==
    /\ pc = "recv" /\ raw = <<>> /\ input
    /\ pc' = "drain"
    /\ UNCHANGED <<input, raw, endpoint, clock, muted>>

\* The input is closed and everything in it handled: shut down and leave the
\* loop without another drain.
RecvDisconnected ==
    /\ pc = "recv" /\ raw = <<>> /\ ~input
    /\ pc' = "ended"
    /\ UNCHANGED <<input, raw, endpoint, clock, muted>>

\* One iteration of the drain: apply, then answer through the oneshot.
DrainOne ==
    /\ pc = "drain" /\ dispatch # <<>>
    /\ LET c == Head(dispatch)
           out == Outcome(request[c], clock)
       IN /\ Answer(c, out)
          /\ conn' = [conn EXCEPT ![c] = "reading"]
          /\ muted' = (muted \/ (out = "ok" /\ request[c].action = "mute"))
    /\ dispatch' = Tail(dispatch)
    /\ UNCHANGED <<input, raw, request, senders, tokens, clock, pc, granted>>

\* The queue is empty: tick, and receive again.
Tick ==
    /\ pc = "drain" /\ dispatch = <<>>
    /\ pc' = "recv"
    /\ UNCHANGED <<input, raw, endpoint, clock, muted>>

\* The process is over once no task waits for it.
Ended ==
    /\ pc = "ended"
    /\ \A c \in Connections : conn[c] \in {"reading", "closed"}
    /\ UNCHANGED vars

LoopStep == RecvBlank \/ RecvContent \/ RecvTimeout \/ RecvDisconnected
               \/ DrainOne \/ Tick

Next ==
    \/ \E r \in Records : RecordArrives(r)
    \/ InputCloses \/ TimePasses \/ Refill
    \/ \E c \in Connections :
          \/ LineRateLimited(c) \/ LineTooLong(c) \/ ConnectionEnds(c)
          \/ ConnectionLost(c)
          \/ \E q \in Requests : LineInvalid(c, q) \/ LineRequest(c, q)
    \/ Dispatch
    \/ LoopStep
    \/ Ended

Spec == Init /\ [][Next]_vars

\* The loop's thread and the endpoint's tasks keep running.
Fairness ==
    /\ WF_vars(LoopStep)
    /\ WF_vars(Dispatch)
    /\ \A c \in Connections : WF_vars(ConnectionLost(c))

FairSpec == Spec /\ Fairness

-----------------------------------------------------------------------------
(* Properties                                                              *)

TypeOK ==
    /\ input \in BOOLEAN /\ muted \in BOOLEAN
    /\ raw \in Seq(Records) /\ Len(raw) <= RawCapacity
    /\ conn \in [Connections -> {"reading", "sending", "waiting", "closed"}]
    /\ request \in [Connections -> Requests \cup {None}]
    /\ reply \in [Connections -> Replies \cup {None}]
    /\ senders \in Seq(Connections)
    /\ dispatch \in Seq(Connections) /\ Len(dispatch) <= DispatchCapacity
    /\ tokens \in 0..RateCapacity
    /\ clock \in Uptimes
    /\ pc \in {"recv", "drain", "ended"}
    /\ granted \subseteq Actions

\* While the loop runs, a task that awaits an answer has exactly one request
\* in the dispatch queue, and a task that awaits room exactly one place in
\* line: no request of handle_connection is lost or applied twice.
OneOutstanding ==
    \A c \in Connections :
        /\ Cardinality({i \in DOMAIN dispatch : dispatch[i] = c})
              = IF conn[c] = "waiting" THEN 1 ELSE 0
        /\ Cardinality({i \in DOMAIN senders : senders[i] = c})
              = IF conn[c] = "sending" THEN 1 ELSE 0

\* An operator whose mute was answered "ok" has a muted performer until the
\* process ends, and a performer is muted only after someone sent mute with
\* the right secret; whoever answers, the reply is the asker's own.
MuteAnswersTruthful ==
    /\ \A c \in Connections :
          (reply[c] = "ok" /\ request[c].action = "mute") => muted
    /\ muted => "mute" \in granted

\* "operator stop/mute remains independently effective": a request that comes
\* with the right secret is never refused as unauthenticated.
SecretSuffices ==
    \A c \in Connections :
        reply[c] = "authentication failed" => ~request[c].secret

\* The loop's comment on the drain: an operator request in the queue is
\* answered, or the process ends and the connection is closed.
AlwaysAnswered ==
    \A c \in Connections :
        conn[c] \in {"sending", "waiting"} ~> conn[c] \in {"reading", "closed"}

\* It is, unless the loop stays in its receive for ever.  That is the one thing
\* the code does not see to: a blank record sends the loop back to its receive
\* before the drain, so blank records without end keep it there.
OperatorAnswered == []<>(pc # "recv") => AlwaysAnswered
=============================================================================
