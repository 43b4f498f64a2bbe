----------------------------- MODULE DeviceLink -----------------------------
(***************************************************************************)
(* The websocket clients of OBS and of VTube Studio (crates/adapters):     *)
(* one session behind a mutex, opened on demand with a handshake, reopened *)
(* under exponential backoff, shared by requests and pushed events.        *)
(*                                                                         *)
(* A call holds the mutex from its first to its last step; between them    *)
(* the peer answers, pushes events, stays silent or goes away, and time    *)
(* passes.  The peer handles a request at any moment after it was sent,    *)
(* even when the client has given up on it.                                *)
(***************************************************************************)
EXTENDS Integers, Sequences, FiniteSets, FiniteSetsExt

CONSTANTS
    Devices,       \* the devices of the model: "obs", "vts"
    HasPassword,   \* OBS: a password is configured
    Names,         \* VTS: event names; OBS: subscription masks
    MaxMessages,   \* MAX_RESPONSE_MESSAGES
    InitialDelay,  \* reconnect.initial_delay_ms
    MaxDelay,      \* reconnect.max_delay_ms
    MaxCalls, MaxEvents, MaxTime   \* bounds of the model

\* What a request that subscribes to nothing carries.
NoName == "no name"

DeviceAssumption ==
    /\ Devices \subseteq {"obs", "vts"} /\ HasPassword \in BOOLEAN
    /\ NoName \notin Names
    /\ {MaxMessages, InitialDelay, MaxDelay, MaxCalls, MaxEvents, MaxTime} \subseteq Nat

VARIABLES
    device,     \* which of the two clients this is; it does not change
    time,       \* AdapterClock::now_ms
    link,       \* transport, ReconnectState, and the number of attempts so far
    wanted,     \* event_subscriptions or subscriptions: what was asked for
    hasToken,   \* VTS: token is some
    inbox,      \* events: pushed events read while something else was awaited
    op,         \* the call that holds the mutex
    peer,       \* what the peer was sent, owes, was subscribed to, has pushed
    done,       \* call -> how often the device performed its action
    result,     \* call -> how it ended
    taken       \* events handed to callers

vars == <<device, time, link, wanted, hasToken, inbox, op, peer, done, result, taken>>

----------------------------------------------------------------------------
(* Reconnection.                                                           *)

\* ReconnectPolicy::delay_ms: doubled with every failure in a row, capped.
DelayMs(failures) ==
    LET exponent == Min({IF failures = 0 THEN 0 ELSE failures - 1, 20})
    IN  Min({InitialDelay * 2 ^ exponent, MaxDelay})

CanAttempt == time >= link.retryAt
Connected == [link EXCEPT !.open = TRUE, !.failures = 0, !.retryAt = 0]
\* ReconnectState::failed at the time the caller passes, and no transport.
FailedAt(t) == [link EXCEPT !.open = FALSE, !.failures = @ + 1,
                            !.retryAt = t + DelayMs(link.failures + 1)]

\* error_breaks_session.
BreaksSession(kind) == kind \in {"timeout", "unavailable", "authentication"}

----------------------------------------------------------------------------
(* Calls.                                                                  *)

Idle == [pc |-> "idle", call |-> 0, kind |-> "none", valid |-> TRUE, started |-> 0,
         budget |-> 0, todo |-> {}, request |-> 0]

Calls == 1..MaxCalls
Returns(outcome) ==
    /\ op' = [Idle EXCEPT !.call = op.call, !.request = op.request]
    /\ result' = [result EXCEPT ![op.call] = outcome]

\* A request goes out under the next id of the adapter; the send may fail.
Sends(what, name, pc) ==
    /\ op' = [op EXCEPT !.pc = pc, !.request = @ + 1, !.budget = MaxMessages,
                        !.todo = @ \ {name}]
    /\ peer' = [peer EXCEPT !.sent = @ \cup
                   {[id |-> op.request + 1, what |-> what, name |-> name, call |-> op.call,
                     attempt |-> link.attempts]}]

\* The start of a call.  OBS maps the action before it takes the lock, VTS
\* looks at it only when connected.
Begin(kind, valid) ==
    /\ op.pc = "idle" /\ op.call < MaxCalls
    /\ op' = [Idle EXCEPT !.pc = "begun", !.call = op.call + 1, !.request = op.request,
                          !.kind = kind, !.valid = valid]
    /\ UNCHANGED <<time, link, wanted, hasToken, inbox, peer, done, result, taken>>

Call ==
    \/ \E valid \in BOOLEAN : Begin("execute", valid)
    \/ Begin("poll", TRUE)
    \/ Begin("connect", TRUE)

\* poll_event with an event in the queue needs no connection.
PollQueued ==
    /\ op.pc = "begun" /\ op.kind = "poll" /\ inbox # <<>>
    /\ taken' = Append(taken, Head(inbox))
    /\ inbox' = Tail(inbox)
    /\ Returns("ok")
    /\ UNCHANGED <<time, link, wanted, hasToken, peer, done>>

\* map_stream_action: an unknown action, or one without its arguments.
Unmapped ==
    /\ device = "obs" /\ op.pc = "begun" /\ op.kind = "execute" /\ ~op.valid
    /\ Returns("refused")
    /\ UNCHANGED <<time, link, wanted, hasToken, inbox, peer, done, taken>>

GoesOn ==
    /\ op.pc = "begun"
    /\ ~(op.kind = "poll" /\ inbox # <<>>)
    /\ ~(device = "obs" /\ op.kind = "execute" /\ ~op.valid)

\* ensure_connected with a session, or within the backoff.
AlreadyOpen ==
    /\ GoesOn /\ link.open
    /\ op' = [op EXCEPT !.pc = "connected"]
    /\ UNCHANGED <<time, link, wanted, hasToken, inbox, peer, done, result, taken>>
BackingOff ==
    /\ GoesOn /\ ~link.open /\ ~CanAttempt
    /\ Returns("refused")
    /\ UNCHANGED <<time, link, wanted, hasToken, inbox, peer, done, taken>>

\* The connector finds no peer, or the handshake begins.
ConnectFails ==
    /\ GoesOn /\ ~link.open /\ CanAttempt
    /\ link' = [FailedAt(time) EXCEPT !.attempts = @ + 1, !.last = time]
    /\ Returns("refused")
    /\ UNCHANGED <<time, wanted, hasToken, inbox, peer, done, taken>>
ConnectOpens ==
    /\ GoesOn /\ ~link.open /\ CanAttempt
    /\ link' = [link EXCEPT !.attempts = @ + 1, !.last = time]
    /\ peer' = [peer EXCEPT !.owed = {}, !.heard = {}]
    /\ op' = [op EXCEPT !.pc = IF device = "obs" THEN "hello" ELSE "authenticate",
                        !.started = time, !.todo = wanted]
    /\ UNCHANGED <<time, wanted, hasToken, inbox, done, result, taken>>

\* Whatever is wrong before the session stands closes it, with the failure at
\* the time the attempt began.
HandshakeFails ==
    /\ link' = FailedAt(op.started)
    /\ peer' = [peer EXCEPT !.owed = {}, !.heard = {}]
    /\ Returns("refused")
    /\ UNCHANGED <<time, wanted, hasToken, inbox, done, taken>>

Stands ==
    /\ link' = Connected
    /\ op' = [op EXCEPT !.pc = "connected"]

\* identify, up to Identify: no Hello, another message, a challenge without a
\* password, or Identify with the subscriptions goes out.
Hello ==
    /\ op.pc = "hello"
    /\ \E challenged \in BOOLEAN :
         IF challenged /\ ~HasPassword THEN HandshakeFails
         ELSE /\ op' = [op EXCEPT !.pc = "identify", !.budget = MaxMessages]
              /\ peer' = [peer EXCEPT !.heard = wanted]
              /\ UNCHANGED <<time, link, wanted, hasToken, inbox, done, result, taken>>
NoHello == op.pc = "hello" /\ HandshakeFails

\* identify, the answer: Identified ends it.
Identified ==
    /\ op.pc = "identify" /\ op.budget > 0
    /\ Stands
    /\ UNCHANGED <<time, wanted, hasToken, inbox, peer, done, result, taken>>

\* authenticate: a token is asked for once, then the session with it, then
\* every subscription again.
Authenticate ==
    /\ op.pc = "authenticate"
    /\ Sends(IF hasToken THEN "auth" ELSE "token", NoName, "handshake")
    /\ UNCHANGED <<time, link, wanted, hasToken, inbox, done, result, taken>>
Resubscribe ==
    /\ op.pc = "resubscribe" /\ op.todo # {}
    /\ \E name \in op.todo : Sends("subscribe", name, "handshake")
    /\ UNCHANGED <<time, link, wanted, hasToken, inbox, done, result, taken>>
HandshakeSendFails ==
    /\ op.pc = "authenticate" \/ (op.pc = "resubscribe" /\ op.todo # {})
    /\ HandshakeFails
Resubscribed ==
    /\ op.pc = "resubscribe" /\ op.todo = {}
    /\ Stands
    /\ UNCHANGED <<time, wanted, hasToken, inbox, peer, done, result, taken>>

\* With a session: the action goes out or is refused, connect is over.
Execute ==
    /\ op.pc = "connected" /\ op.kind = "execute"
    /\ IF op.valid THEN Sends("action", NoName, "await") /\ UNCHANGED <<link, result>>
                   ELSE Returns("refused") /\ UNCHANGED <<link, peer>>
    /\ UNCHANGED <<time, wanted, hasToken, inbox, done, taken>>
SendFails ==
    /\ op.pc = "connected" /\ op.kind = "execute" /\ op.valid
    /\ link' = FailedAt(time)
    /\ peer' = [peer EXCEPT !.owed = {}, !.heard = {}]
    /\ Returns("refused")
    /\ UNCHANGED <<time, wanted, hasToken, inbox, done, taken>>
ConnectDone ==
    /\ op.pc = "connected" /\ op.kind = "connect"
    /\ Returns("ok")
    /\ UNCHANGED <<time, link, wanted, hasToken, inbox, peer, done, taken>>

\* set_event_subscriptions: kept, and sent without waiting when connected.
Reidentify(mask) ==
    /\ device = "obs" /\ op.pc = "idle" /\ op.call < MaxCalls
    /\ wanted' = {mask}
    /\ \/ /\ peer' = IF link.open THEN [peer EXCEPT !.heard = {mask}] ELSE peer
          /\ UNCHANGED link
          /\ result' = [result EXCEPT ![op.call + 1] = "ok"]
       \/ /\ link.open
          /\ link' = FailedAt(time)
          /\ peer' = [peer EXCEPT !.owed = {}, !.heard = {}]
          /\ result' = [result EXCEPT ![op.call + 1] = "failed"]
    /\ op' = [op EXCEPT !.call = @ + 1]
    /\ UNCHANGED <<time, hasToken, inbox, done, taken>>

\* subscribe_event: kept first, then asked for when connected.
Subscribe(name) ==
    /\ device = "vts" /\ op.pc = "idle" /\ op.call < MaxCalls
    /\ wanted' = wanted \cup {name}
    /\ IF link.open
       THEN /\ op' = [Idle EXCEPT !.pc = "await", !.call = op.call + 1, !.kind = "subscribe",
                                  !.request = op.request + 1, !.budget = MaxMessages]
            /\ peer' = [peer EXCEPT !.sent = @ \cup
                           {[id |-> op.request + 1, what |-> "subscribe", name |-> name,
                             call |-> op.call + 1, attempt |-> link.attempts]}]
            /\ UNCHANGED result
       ELSE /\ op' = [op EXCEPT !.call = @ + 1]
            /\ result' = [result EXCEPT ![op.call + 1] = "ok"]
            /\ UNCHANGED peer
    /\ UNCHANGED <<time, link, hasToken, inbox, done, taken>>

----------------------------------------------------------------------------
(* Reading.                                                                *)

\* OBS pushes events of its default mask when none was set.
Pushes == (device = "obs" \/ peer.heard # {}) /\ peer.pushed < MaxEvents

Reading == op.pc \in {"identify", "handshake", "await"} /\ op.budget > 0

\* How a request that failed leaves the session: a rejection keeps it.
RequestFails(kind) ==
    IF op.pc # "await" THEN HandshakeFails
    ELSE /\ link' = IF BreaksSession(kind) THEN FailedAt(time) ELSE link
         /\ peer' = IF BreaksSession(kind) THEN [peer EXCEPT !.owed = {}, !.heard = {}]
                    ELSE peer
         /\ Returns("failed")
         /\ UNCHANGED <<time, wanted, hasToken, inbox, done, taken>>

\* Nothing yet: another read, of the same budget, unless the deadline passed.
ReadNothing ==
    /\ Reading
    /\ \/ /\ op' = [op EXCEPT !.budget = @ - 1]
          /\ UNCHANGED <<time, link, wanted, hasToken, inbox, peer, done, result, taken>>
       \/ RequestFails("timeout")

ReadBroken == Reading /\ \E kind \in {"unavailable", "backend"} : RequestFails(kind)

\* The budget of messages is spent.
LimitExceeded ==
    /\ op.pc \in {"identify", "handshake", "await"} /\ op.budget = 0
    /\ RequestFails("backend")

\* A pushed event is kept for a poll.
ReadEvent ==
    /\ Reading /\ Pushes
    /\ inbox' = Append(inbox, peer.pushed + 1)
    /\ peer' = [peer EXCEPT !.pushed = @ + 1]
    /\ op' = [op EXCEPT !.budget = @ - 1]
    /\ UNCHANGED <<time, link, wanted, hasToken, done, result, taken>>

\* The answer to an older request is no answer to this one.
ReadOther ==
    /\ Reading
    /\ \E a \in {a \in peer.owed : a.id # op.request} :
         peer' = [peer EXCEPT !.owed = @ \ {a}]
    /\ op' = [op EXCEPT !.budget = @ - 1]
    /\ UNCHANGED <<time, link, wanted, hasToken, inbox, done, result, taken>>

\* Mutant: any answer will do.
AnyAnswer(a) == TRUE

\* request_with_transport: the answer is recognised by the id.
OwnAnswer(a) == a.id = op.request

\* The answer: the handshake goes on, or the call returns.
Answered(a) ==
    IF op.pc = "await"
    THEN /\ Returns(IF op.kind = "execute" THEN "performed" ELSE "ok")
         /\ peer' = [peer EXCEPT !.owed = @ \ {a}]
         /\ UNCHANGED <<time, link, wanted, hasToken, inbox, done, taken>>
    ELSE /\ op' = [op EXCEPT !.pc = IF a.what = "token" THEN "authenticate" ELSE "resubscribe"]
         /\ hasToken' = (hasToken \/ a.what = "token")
         /\ peer' = [peer EXCEPT !.owed = @ \ {a}]
         /\ UNCHANGED <<time, link, wanted, inbox, done, result, taken>>
ReadAnswer ==
    /\ Reading /\ op.pc # "identify"
    /\ \E a \in {a \in peer.owed : OwnAnswer(a)} :
         CASE a.verdict = "ok" -> Answered(a)
           [] a.verdict = "rejected" ->
                IF op.pc # "await" THEN HandshakeFails
                ELSE /\ Returns("failed")
                     /\ peer' = [peer EXCEPT !.owed = @ \ {a}]
                     /\ UNCHANGED <<time, link, wanted, hasToken, inbox, done, taken>>
           [] a.verdict = "denied" -> RequestFails("authentication")

\* poll_event with a session: what is read is an event, or nothing for the
\* caller, or breaks the session.
PollEvent ==
    /\ op.pc = "connected" /\ op.kind = "poll" /\ Pushes
    /\ taken' = Append(taken, peer.pushed + 1)
    /\ peer' = [peer EXCEPT !.pushed = @ + 1]
    /\ Returns("ok")
    /\ UNCHANGED <<time, link, wanted, hasToken, inbox, done>>
PollNothing ==
    /\ op.pc = "connected" /\ op.kind = "poll"
    /\ \/ UNCHANGED peer
       \/ \E a \in peer.owed : peer' = [peer EXCEPT !.owed = @ \ {a}]
    /\ \E outcome \in {"none", "failed"} : Returns(outcome)
    /\ UNCHANGED <<time, link, wanted, hasToken, inbox, done, taken>>
PollBroken ==
    /\ op.pc = "connected" /\ op.kind = "poll"
    /\ link' = FailedAt(time)
    /\ peer' = [peer EXCEPT !.owed = {}, !.heard = {}]
    /\ Returns("failed")
    /\ UNCHANGED <<time, wanted, hasToken, inbox, done, taken>>

----------------------------------------------------------------------------
(* The peer.                                                               *)

Verdicts == IF device = "obs" THEN {"ok", "rejected"} ELSE {"ok", "rejected", "denied"}

\* It handles a request it was sent, on whatever connection; the answer
\* reaches the client on that connection only.
Handles ==
    \E r \in peer.sent : \E v \in Verdicts :
        /\ peer' = [peer EXCEPT
              !.sent = @ \ {r},
              !.owed = IF r.attempt = link.attempts /\ (link.open \/ op.pc = "handshake")
                       THEN @ \cup {[id |-> r.id, what |-> r.what, verdict |-> v]} ELSE @,
              !.heard = IF r.what = "subscribe" /\ v = "ok" /\ r.attempt = link.attempts
                           /\ (link.open \/ op.pc = "handshake")
                        THEN @ \cup {r.name} ELSE @]
        /\ done' = IF r.what = "action" /\ v = "ok"
                   THEN [done EXCEPT ![r.call] = @ + 1] ELSE done
        /\ UNCHANGED <<time, link, wanted, hasToken, inbox, op, result, taken>>

Tick ==
    /\ time < MaxTime
    /\ time' = time + 1
    /\ UNCHANGED <<link, wanted, hasToken, inbox, op, peer, done, result, taken>>

Init ==
    /\ device \in Devices
    /\ time = 0
    /\ link = [open |-> FALSE, failures |-> 0, retryAt |-> 0, attempts |-> 0, last |-> 0]
    /\ wanted = {} /\ hasToken = FALSE /\ inbox = <<>> /\ op = Idle
    /\ peer = [sent |-> {}, owed |-> {}, heard |-> {}, pushed |-> 0]
    /\ done = [c \in Calls |-> 0] /\ result = [c \in Calls |-> "none"]
    /\ taken = <<>>

Next ==
    /\ UNCHANGED device
    /\ \/ Call \/ PollQueued \/ Unmapped \/ AlreadyOpen \/ BackingOff \/ ConnectFails
       \/ ConnectOpens \/ Hello \/ NoHello \/ Identified \/ Authenticate \/ Resubscribe
       \/ HandshakeSendFails \/ Resubscribed \/ Execute \/ SendFails \/ ConnectDone
       \/ \E n \in Names : Reidentify(n) \/ Subscribe(n)
       \/ ReadNothing \/ ReadBroken \/ LimitExceeded \/ ReadEvent \/ ReadOther \/ ReadAnswer
       \/ PollEvent \/ PollNothing \/ PollBroken
       \/ Handles \/ Tick

Spec == Init /\ [][Next]_vars

----------------------------------------------------------------------------
(* Properties.                                                             *)

TypeOK ==
    /\ device \in Devices
    /\ time \in 0..MaxTime
    /\ link \in [open : BOOLEAN, failures : Nat, retryAt : Nat, attempts : Nat, last : Nat]
    /\ wanted \subseteq Names /\ hasToken \in BOOLEAN
    /\ inbox \in Seq(1..MaxEvents) /\ taken \in Seq(1..MaxEvents)
    /\ result \in [Calls -> {"none", "ok", "performed", "refused", "failed"}]

\* "actions are never queued for replay after a disconnect" (adapters lib.rs:
\* 5-7): the device performs an action at most once, however sessions break,
\* and never one that was refused because there was no session.
NoReplay ==
    \A c \in Calls : done[c] <= 1 /\ (result[c] = "refused" => done[c] = 0)

\* What the caller is told was done was done: an answer that comes late, on
\* the session that a later request uses, is not taken for that request's.
OkMeansDone == \A c \in Calls : result[c] = "performed" => done[c] = 1

\* OBS hears the mask that was set last, whichever way it was told.
MaskInForce == device = "obs" /\ op.pc = "idle" /\ link.open => peer.heard = wanted

\* No event that was read is lost or handed out twice, although events arrive
\* in handshakes and between a request and its answer.
EventsKept ==
    /\ {taken[k] : k \in DOMAIN taken} \cup {inbox[k] : k \in DOMAIN inbox} = 1..peer.pushed
    /\ Len(taken) + Len(inbox) = peer.pushed

\* Attempts to connect keep the distance that the failures in a row call for,
\* measured from the attempt before, however long the failure took; and when a
\* session stands again, every subscription asked for so far is in force.
SpacedStep ==
    link'.attempts # link.attempts =>
        \/ link.failures = 0
        \/ time >= link.last
                     + Min({InitialDelay * 2 ^ Min({link.failures - 1, 20}), MaxDelay})
RestoredStep == link'.open /\ ~link.open => wanted \subseteq peer.heard
SessionsRestored == [][SpacedStep /\ RestoredStep]_vars
=============================================================================
