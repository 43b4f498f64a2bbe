------------------------------ MODULE LinkProofs -----------------------------
(***************************************************************************)
(* The websocket clients of MCHost: for every number of calls, events and  *)
(* names and every backoff, on either device, what a caller is told of an  *)
(* action is what the device did, pushed events are kept and given once,   *)
(* attempts keep their distance and a session stands only with its         *)
(* subscriptions (obs.rs, vts.rs).                                         *)
(***************************************************************************)
EXTENDS MCHost, Sequences, TLAPS

(* Where a call is.                                                        *)
Shaking == {"hello", "identify", "authenticate", "handshake", "resubscribe"}
LinkPcs == Shaking \cup {"idle", "begun", "connected", "await"}

Messages == [id : Nat, what : {"token", "auth", "subscribe", "action"},
             name : LinkNames \cup {Link!NoName}, call : Nat, attempt : Nat]
Answers == [id : Nat, what : {"token", "auth", "subscribe", "action"},
            verdict : {"ok", "rejected", "denied"}]

Kinds == {"none", "execute", "poll", "connect", "subscribe"}
Outcomes == {"none", "ok", "performed", "refused", "failed"}

\* What the call, the session and the peer may be.
LinkOps == [pc : LinkPcs, call : Nat, kind : Kinds, valid : BOOLEAN, started : Nat,
            budget : Int, todo : SUBSET LinkNames, request : Nat]
LinkStates == [open : BOOLEAN, failures : Nat, retryAt : Nat, attempts : Nat, last : Nat]
LinkPeers == [sent : SUBSET Messages, owed : SUBSET Answers, heard : SUBSET LinkNames,
              pushed : Nat]

\* The variables have their types.
LinkTypes ==
    /\ device \in {"obs", "vts"} /\ time \in Nat /\ hasToken \in BOOLEAN
    /\ link \in LinkStates /\ op \in LinkOps /\ peer \in LinkPeers
    /\ wanted \subseteq LinkNames
    /\ done \in [1..MaxCalls -> Nat] /\ result \in [1..MaxCalls -> Outcomes]
    /\ op.call <= MaxCalls
    /\ op.pc # "idle" => op.call >= 1
    /\ \A r \in peer.sent : r.what = "subscribe" => r.name \in LinkNames

\* The events that were pushed are handed out or kept.
LinkEventsKept ==
    /\ inbox \in Seq(Nat) /\ taken \in Seq(Nat)
    /\ Link!EventsKept

\* What the next attempt waits for, unless one is under way, which began at the
\* time the session will be judged by.
LinkSpaced ==
    /\ link.last <= time
    /\ op.pc \in Shaking => op.started = link.last
    /\ op.pc \notin Shaking /\ link.failures > 0 =>
          link.retryAt >= link.last + Link!DelayMs(link.failures)

\* A request and its answer carry an id that was given once.
LinkIds ==
    /\ \A r \in peer.sent : r.id <= op.request /\ r.call \in 1..op.call
    /\ \A a \in peer.owed : a.id <= op.request
    /\ \A r, s \in peer.sent : r.id = s.id => r = s
    /\ \A a, b \in peer.owed : a.id = b.id => a = b
    /\ \A r \in peer.sent, a \in peer.owed : r.id # a.id

\* The action of a call that is still to be handled was not performed, and no
\* call but the present one may still send its own.
LinkActions ==
    /\ \A r, s \in peer.sent :
          r.what = "action" /\ s.what = "action" /\ r.call = s.call => r = s
    /\ \A r \in peer.sent : r.what = "action" =>
          done[r.call] = 0 /\ result[r.call] # "refused"
    /\ Link!NoReplay /\ Link!OkMeansDone
    /\ \A c \in 1..MaxCalls :
          /\ c > op.call => done[c] = 0
          /\ c > op.call \/ (c = op.call /\ op.pc # "idle") => result[c] = "none"
    /\ op.pc \notin {"idle", "await"} =>
          /\ done[op.call] = 0
          /\ \A r \in peer.sent : r.what = "action" => r.call # op.call

\* While the answer to an action is awaited, the request of that id is that
\* action, and what answers it was performed.
LinkAwaits ==
    op.pc = "await" /\ op.kind = "execute" =>
        /\ \A r \in peer.sent : r.id = op.request => r.what = "action" /\ r.call = op.call
        /\ \A r \in peer.sent : r.what = "action" /\ r.call = op.call => r.id = op.request
        /\ \A a \in peer.owed : a.id = op.request /\ a.verdict = "ok" => done[op.call] = 1

\* OBS is told its mask when it identifies, and again when the mask changes.
LinkMask ==
    device = "obs" =>
        /\ op.pc \notin {"authenticate", "handshake", "resubscribe"}
        /\ \A r \in peer.sent : r.what = "action"
        /\ link.open \/ op.pc = "identify" => peer.heard = wanted

\* VTube Studio has heard every name that is not still to be asked for, or is
\* being asked for, or is about to be refused.
Asking(n) ==
    \/ \E r \in peer.sent : /\ r.id = op.request /\ r.what = "subscribe" /\ r.name = n
                            /\ r.attempt = link.attempts
    \/ \E a \in peer.owed : a.id = op.request /\ a.verdict # "ok"
LinkNamesHeard ==
    device = "vts" =>
        /\ op.pc \notin {"hello", "identify"}
        /\ op.pc \in {"authenticate", "resubscribe"} => wanted \ op.todo \subseteq peer.heard
        /\ op.pc = "handshake" =>
              \A n \in wanted \ op.todo : n \in peer.heard \/ Asking(n)

\* The inductive invariant of the clients.
LinkInv ==
    /\ LinkTypes /\ LinkEventsKept /\ LinkSpaced /\ LinkIds /\ LinkActions /\ LinkAwaits
    /\ LinkMask /\ LinkNamesHeard
LinkHolds == part = "link" => LinkInv

----------------------------------------------------------------------------
(* Lemmas about the session, the calls and the messages.                 *)

\* The numbers of the configuration.
LEMMA LinkBounds ==
    /\ InitialDelay \in Nat /\ MaxDelay \in Nat /\ MaxCalls \in Nat /\ MaxMessages \in Nat
    /\ Devices \subseteq {"obs", "vts"} /\ Link!NoName \notin LinkNames
BY LinkAssumption DEF Link!DeviceAssumption

\* The smaller of two numbers (Min).
LEMMA LinkSmaller ==
    ASSUME NEW a \in Int, NEW b \in Int
    PROVE  Link!Min({a, b}) = IF a <= b THEN a ELSE b
BY DEF Link!Min

\* Every number of failures in a row asks for a delay.
LEMMA LinkDelay ==
    ASSUME NEW f \in Nat
    PROVE  /\ Link!DelayMs(f) \in Nat
           /\ f > 0 => Link!DelayMs(f)
                         = Link!Min({InitialDelay * 2 ^ Link!Min({f - 1, 20}), MaxDelay})
<1> DEFINE e == Link!Min({IF f = 0 THEN 0 ELSE f - 1, 20})
           p == 2 ^ e
           q == InitialDelay * p
<1>1. e \in 0..20 BY LinkSmaller
<1>2. p \in Nat BY <1>1, PowersAssumption
<1>3. f > 0 => e = Link!Min({f - 1, 20}) OBVIOUS
<1>4. Link!DelayMs(f) = Link!Min({q, MaxDelay}) BY DEF Link!DelayMs
<1>5. q \in Nat
  <2> HIDE DEF p
  <2>1. \A m, k \in Nat : m * k \in Nat OBVIOUS
  <2> QED BY <1>2, <2>1, LinkBounds
<1>6. Link!DelayMs(f) \in Nat
  <2> HIDE DEF q, p, e
  <2>1. Link!Min({q, MaxDelay}) = IF q <= MaxDelay THEN q ELSE MaxDelay
    <3>1. \A a, b \in Int : Link!Min({a, b}) = IF a <= b THEN a ELSE b BY LinkSmaller
    <3>2. q \in Int /\ MaxDelay \in Int BY <1>5, LinkBounds
    <3> QED BY ONLY <3>1, <3>2
  <2> QED BY <2>1, <1>4, <1>5, LinkBounds
<1>7. ASSUME f > 0
      PROVE  Link!DelayMs(f) = Link!Min({InitialDelay * 2 ^ Link!Min({f - 1, 20}), MaxDelay})
  BY <1>3, <1>4, <1>7
<1> QED BY <1>6, <1>7

\* Nothing is asked for at the start.
LEMMA LinkInvInit == Link!Init => LinkInv
<1> SUFFICES ASSUME Link!Init PROVE LinkInv OBVIOUS
<1> USE DEF Link!Init, Link!Idle, Link!Calls
<1>1. LinkTypes
  <2>1. op \in LinkOps BY DEF LinkOps, LinkPcs, Kinds
  <2>4. link \in LinkStates /\ peer \in LinkPeers BY DEF LinkStates, LinkPeers
  <2>2. device \in {"obs", "vts"} BY LinkBounds
  <2>3. op.call <= MaxCalls
    <3>1. op.call = 0 OBVIOUS
    <3> QED BY ONLY <3>1, LinkBounds
  <2> QED BY <2>1, <2>2, <2>3, <2>4 DEF LinkTypes, Outcomes
<1>2. LinkEventsKept BY DEF LinkEventsKept, Link!EventsKept
<1>3. LinkSpaced BY DEF LinkSpaced, Shaking
<1>4. LinkIds BY DEF LinkIds
<1>5. LinkActions BY DEF LinkActions, Link!NoReplay, Link!OkMeansDone
<1>6. LinkAwaits BY DEF LinkAwaits
<1>7. LinkMask BY DEF LinkMask
<1>8. LinkNamesHeard BY DEF LinkNamesHeard
<1> QED BY <1>1, <1>2, <1>3, <1>4, <1>5, <1>6, <1>7, <1>8 DEF LinkInv

\* A call that is updated stays one.
LEMMA LinkOpsClosed ==
  ASSUME NEW o \in LinkOps
  PROVE  /\ \A p \in LinkPcs :
              [o EXCEPT !.pc = p] \in LinkOps
         /\ \A p \in LinkPcs, s \in Nat, t \in SUBSET LinkNames :
              [o EXCEPT !.pc = p, !.started = s, !.todo = t] \in LinkOps
         /\ \A p \in LinkPcs, b \in Int :
              [o EXCEPT !.pc = p, !.budget = b] \in LinkOps
         /\ \A p \in LinkPcs, r \in Nat, b \in Int, t \in SUBSET LinkNames :
              [o EXCEPT !.pc = p, !.request = r, !.budget = b, !.todo = t] \in LinkOps
         /\ \A c \in Nat :
              [o EXCEPT !.call = c] \in LinkOps
         /\ \A c \in Nat, r \in Nat :
              [o EXCEPT !.call = c, !.request = r] \in LinkOps
         /\ \A p \in LinkPcs, c \in Nat, r \in Nat, k \in Kinds, v \in BOOLEAN :
              [o EXCEPT !.pc = p, !.call = c, !.request = r, !.kind = k, !.valid = v] \in LinkOps
         /\ \A p \in LinkPcs, c \in Nat, k \in Kinds, r \in Nat, b \in Int :
              [o EXCEPT !.pc = p, !.call = c, !.kind = k, !.request = r, !.budget = b] \in LinkOps
         /\ \A b \in Int :
              [o EXCEPT !.budget = b] \in LinkOps
BY DEF LinkOps, Kinds

\* A session that is updated stays one.
LEMMA LinkStatesClosed ==
  ASSUME NEW o \in LinkStates
  PROVE  /\ \A v \in BOOLEAN, f \in Nat, w \in Nat :
              [o EXCEPT !.open = v, !.failures = f, !.retryAt = w] \in LinkStates
         /\ \A a \in Nat, d \in Nat :
              [o EXCEPT !.attempts = a, !.last = d] \in LinkStates
BY DEF LinkStates, Kinds

\* A peer that is updated stays one.
LEMMA LinkPeersClosed ==
  ASSUME NEW o \in LinkPeers
  PROVE  /\ \A m \in SUBSET Messages :
              [o EXCEPT !.sent = m] \in LinkPeers
         /\ \A w \in SUBSET Answers :
              [o EXCEPT !.owed = w] \in LinkPeers
         /\ \A h \in SUBSET LinkNames :
              [o EXCEPT !.heard = h] \in LinkPeers
         /\ \A n \in Nat :
              [o EXCEPT !.pushed = n] \in LinkPeers
         /\ \A w \in SUBSET Answers, h \in SUBSET LinkNames :
              [o EXCEPT !.owed = w, !.heard = h] \in LinkPeers
         /\ \A m \in SUBSET Messages, w \in SUBSET Answers, h \in SUBSET LinkNames :
              [o EXCEPT !.sent = m, !.owed = w, !.heard = h] \in LinkPeers
BY DEF LinkPeers, Kinds

\* What requests and answers carry.
LEMMA LinkMessages ==
  /\ \A i, c, a \in Nat, w \in {"token", "auth", "subscribe", "action"},
        n \in LinkNames \cup {Link!NoName} :
        [id |-> i, what |-> w, name |-> n, call |-> c, attempt |-> a] \in Messages
  /\ \A i \in Nat, w \in {"token", "auth", "subscribe", "action"},
        v \in {"ok", "rejected", "denied"} : [id |-> i, what |-> w, verdict |-> v] \in Answers
  /\ \A m \in Messages : /\ m.id \in Nat /\ m.call \in Nat /\ m.attempt \in Nat
                         /\ m.what \in {"token", "auth", "subscribe", "action"}
                         /\ m.name \in LinkNames \cup {Link!NoName}
BY DEF Messages, Answers

\* The fields of the records have their types.
LEMMA LinkFields ==
  ASSUME LinkTypes
  PROVE  /\ op.pc \in LinkPcs /\ op.call \in Nat /\ op.kind \in Kinds /\ op.valid \in BOOLEAN
         /\ op.started \in Nat /\ op.budget \in Int /\ op.todo \subseteq LinkNames
         /\ op.request \in Nat
         /\ link.open \in BOOLEAN /\ link.failures \in Nat /\ link.retryAt \in Nat
         /\ link.attempts \in Nat /\ link.last \in Nat
         /\ peer.sent \subseteq Messages /\ peer.owed \subseteq Answers
         /\ peer.heard \subseteq LinkNames /\ peer.pushed \in Nat
         /\ device \in {"obs", "vts"} /\ time \in Nat /\ hasToken \in BOOLEAN
         /\ link \in LinkStates /\ op \in LinkOps /\ peer \in LinkPeers
         /\ wanted \subseteq LinkNames
BY DEF LinkTypes, LinkOps, LinkStates, LinkPeers

\* A failure leaves a session of its type.
LEMMA LinkFailedAt == ASSUME LinkTypes, NEW t \in Nat PROVE Link!FailedAt(t) \in LinkStates
<1>1. link \in LinkStates /\ link.failures + 1 \in Nat BY LinkFields
<1>2. Link!DelayMs(link.failures + 1) \in Nat BY <1>1, LinkDelay
<1>3. t + Link!DelayMs(link.failures + 1) \in Nat BY <1>2
<1>4. FALSE \in BOOLEAN OBVIOUS
<1> QED BY <1>1, <1>3, <1>4, LinkStatesClosed DEF Link!FailedAt

\* So does a success.
LEMMA LinkConnected == ASSUME LinkTypes PROVE Link!Connected \in LinkStates
BY LinkFields, LinkStatesClosed DEF Link!Connected

\* No call is a call.
LEMMA LinkIdle == Link!Idle \in LinkOps
BY DEF Link!Idle, LinkOps, LinkPcs, Kinds

\* A call that returns leaves none.
LEMMA LinkReturns ==
  ASSUME LinkTypes, NEW o, Link!Returns(o)
  PROVE  op' \in LinkOps /\ op'.call = op.call /\ op'.pc = "idle"
<1>1. op' \in LinkOps BY LinkFields, LinkIdle, LinkOpsClosed DEF Link!Returns
<1>2. op'.call = op.call /\ op'.pc = "idle"
  BY LinkFields, LinkIdle DEF Link!Returns, LinkOps, Link!Idle
<1> QED BY <1>1, <1>2

\* How the answer to the present request is taken.
LEMMA LinkReadAnswer ==
  ASSUME LinkTypes, Link!ReadAnswer
  PROVE  \E a \in peer.owed :
            /\ a.id = op.request
            /\ \/ a.verdict = "ok" /\ Link!Answered(a)
               \/ a.verdict = "rejected" /\ op.pc # "await" /\ Link!HandshakeFails
               \/ a.verdict = "rejected" /\ op.pc = "await" /\ Link!Returns("failed")
                    /\ peer' = [peer EXCEPT !.owed = peer.owed \ {a}]
                    /\ UNCHANGED <<time, link, wanted, hasToken, inbox, done, taken>>
               \/ a.verdict = "denied" /\ Link!RequestFails("authentication")
<1>1. PICK a \in {a \in peer.owed : Link!OwnAnswer(a)} :
         CASE a.verdict = "ok" -> Link!Answered(a)
           [] a.verdict = "rejected" ->
                IF op.pc # "await" THEN Link!HandshakeFails
                ELSE /\ Link!Returns("failed")
                     /\ peer' = [peer EXCEPT !.owed = peer.owed \ {a}]
                     /\ UNCHANGED <<time, link, wanted, hasToken, inbox, done, taken>>
           [] a.verdict = "denied" -> Link!RequestFails("authentication")
  BY DEF Link!ReadAnswer
<1>2. a.verdict \in {"ok", "rejected", "denied"} BY LinkFields, LinkMessages DEF Answers
<1>3. a \in peer.owed /\ a.id = op.request BY DEF Link!OwnAnswer
<1>4. CASE a.verdict = "ok"
  BY <1>1, <1>4, <1>3
<1>5. CASE a.verdict = "rejected"
  BY <1>1, <1>5, <1>3
<1>6. CASE a.verdict = "denied"
  BY <1>1, <1>6, <1>3
<1> QED BY <1>2, <1>4, <1>5, <1>6

\* Every step leaves a session of its type.
LEMMA LinkStateType == LinkTypes /\ Link!Next => link' \in LinkStates
<1> SUFFICES ASSUME LinkTypes, Link!Next PROVE link' \in LinkStates OBVIOUS
<1>0. /\ Link!Next /\ device' = device
      /\ link \in LinkStates /\ time \in Nat /\ op.started \in Nat /\ link.attempts + 1 \in Nat
      /\ \A t \in Nat : Link!FailedAt(t) \in LinkStates
      /\ Link!Connected \in LinkStates
  BY LinkFields, LinkConnected, LinkFailedAt DEF Link!Next
<1>1. CASE Link!Call
  BY <1>1, <1>0 DEF Link!Call, Link!Begin
<1>2. CASE Link!PollQueued
  BY <1>2, <1>0 DEF Link!PollQueued
<1>3. CASE Link!Unmapped
  BY <1>3, <1>0 DEF Link!Unmapped
<1>4. CASE Link!AlreadyOpen
  BY <1>4, <1>0 DEF Link!AlreadyOpen, Link!GoesOn
<1>5. CASE Link!BackingOff
  BY <1>5, <1>0 DEF Link!BackingOff, Link!GoesOn, Link!CanAttempt
<1>6. CASE Link!ConnectFails
  <2>1. link' = [Link!FailedAt(time) EXCEPT !.attempts = link.attempts + 1, !.last = time]
    <3>1. link' = [Link!FailedAt(time) EXCEPT !.attempts = @ + 1, !.last = time]
      BY <1>6 DEF Link!ConnectFails
    <3>2. Link!FailedAt(time) = [link EXCEPT !.open = FALSE, !.failures = @ + 1,
                            !.retryAt = time + Link!DelayMs(link.failures + 1)]
                              BY DEF Link!FailedAt
    <3>3. Link!FailedAt(time).attempts = link.attempts BY <3>2, <1>0 DEF LinkStates
    <3>4. Link!FailedAt(time) \in LinkStates BY <1>0
    <3> QED BY <3>1, <3>3, <3>4 DEF LinkStates
  <2> QED BY <2>1, <1>0, LinkStatesClosed
<1>7. CASE Link!ConnectOpens
  <2>1. link' = [link EXCEPT !.attempts = link.attempts + 1, !.last = time]
    BY <1>7 DEF Link!ConnectOpens
  <2> QED BY <2>1, <1>0, LinkStatesClosed
<1>8. CASE Link!Hello
  BY <1>8, <1>0 DEF Link!Hello, Link!HandshakeFails
<1>9. CASE Link!NoHello
  BY <1>9, <1>0 DEF Link!NoHello, Link!HandshakeFails
<1>10. CASE Link!Identified
  BY <1>10, <1>0 DEF Link!Identified, Link!Stands
<1>11. CASE Link!Authenticate
  BY <1>11, <1>0 DEF Link!Authenticate, Link!Sends
<1>12. CASE Link!Resubscribe
  BY <1>12, <1>0 DEF Link!Resubscribe, Link!Sends
<1>13. CASE Link!HandshakeSendFails
  BY <1>13, <1>0 DEF Link!HandshakeSendFails, Link!HandshakeFails
<1>14. CASE Link!Resubscribed
  BY <1>14, <1>0 DEF Link!Resubscribed, Link!Stands
<1>15. CASE Link!Execute
  BY <1>15, <1>0 DEF Link!Execute, Link!Sends
<1>16. CASE Link!SendFails
  BY <1>16, <1>0 DEF Link!SendFails
<1>17. CASE Link!ConnectDone
  BY <1>17, <1>0 DEF Link!ConnectDone
<1>18. CASE Link!ReadNothing
  BY <1>18, <1>0 DEF Link!ReadNothing, Link!Reading, Link!RequestFails, Link!HandshakeFails
<1>19. CASE Link!ReadBroken
  BY <1>19, <1>0 DEF Link!ReadBroken, Link!Reading, Link!RequestFails, Link!HandshakeFails
<1>20. CASE Link!LimitExceeded
  BY <1>20, <1>0 DEF Link!LimitExceeded, Link!RequestFails, Link!HandshakeFails
<1>21. CASE Link!ReadEvent
  BY <1>21, <1>0 DEF Link!ReadEvent, Link!Reading, Link!Pushes
<1>22. CASE Link!ReadOther
  BY <1>22, <1>0 DEF Link!ReadOther, Link!Reading
<1>23. CASE Link!ReadAnswer
  BY <1>23, <1>0, LinkReadAnswer DEF Link!Answered, Link!HandshakeFails, Link!RequestFails
<1>24. CASE Link!PollEvent
  BY <1>24, <1>0 DEF Link!PollEvent, Link!Pushes
<1>25. CASE Link!PollNothing
  BY <1>25, <1>0 DEF Link!PollNothing
<1>26. CASE Link!PollBroken
  BY <1>26, <1>0 DEF Link!PollBroken
<1>27. CASE Link!Handles
  BY <1>27, <1>0 DEF Link!Handles, Link!Verdicts
<1>28. CASE Link!Tick
  BY <1>28, <1>0 DEF Link!Tick
<1>29. ASSUME NEW n \in LinkNames, Link!Reidentify(n) PROVE link' \in LinkStates
  BY <1>29, <1>0 DEF Link!Reidentify
<1>30. ASSUME NEW n \in LinkNames, Link!Subscribe(n) PROVE link' \in LinkStates
  BY <1>30, <1>0 DEF Link!Subscribe
<1> QED BY <1>1, <1>2, <1>3, <1>4, <1>5, <1>6, <1>7, <1>8, <1>9, <1>10, <1>11, <1>12, <1>13,
           <1>14, <1>15, <1>16, <1>17, <1>18, <1>19, <1>20, <1>21, <1>22, <1>23, <1>24, <1>25,
           <1>26, <1>27, <1>28, <1>29, <1>30, <1>0 DEF Link!Next

\* The updates of a call, one by one.
LEMMA LinkOpPc == \A o \in LinkOps, p \in LinkPcs :
  [o EXCEPT !.pc = p] \in LinkOps
BY LinkOpsClosed

\* The session is opened.
LEMMA LinkOpOpens == \A o \in LinkOps, p \in LinkPcs, s \in Nat, t \in SUBSET LinkNames :
  [o EXCEPT !.pc = p, !.started = s, !.todo = t] \in LinkOps
BY LinkOpsClosed

\* The peer said hello.
LEMMA LinkOpHello == \A o \in LinkOps, p \in LinkPcs, b \in Int :
  [o EXCEPT !.pc = p, !.budget = b] \in LinkOps
BY LinkOpsClosed

\* A request goes out.
LEMMA LinkOpSends ==
  \A o \in LinkOps, p \in LinkPcs, r \in Nat, b \in Int, t \in SUBSET LinkNames :
  [o EXCEPT !.pc = p, !.request = r, !.budget = b, !.todo = t] \in LinkOps
BY LinkOpsClosed

\* A call is counted.
LEMMA LinkOpCall == \A o \in LinkOps, c \in Nat :
  [o EXCEPT !.call = c] \in LinkOps
BY LinkOpsClosed

\* A call begins.
LEMMA LinkOpBegin ==
  \A o \in LinkOps, p \in LinkPcs, c \in Nat, r \in Nat, k \in Kinds, v \in BOOLEAN :
  [o EXCEPT !.pc = p, !.call = c, !.request = r, !.kind = k, !.valid = v] \in LinkOps
BY LinkOpsClosed

\* A name is asked for.
LEMMA LinkOpSubscribe ==
  \A o \in LinkOps, p \in LinkPcs, c \in Nat, k \in Kinds, r \in Nat, b \in Int :
  [o EXCEPT !.pc = p, !.call = c, !.kind = k, !.request = r, !.budget = b] \in LinkOps
BY LinkOpsClosed

\* A message was read.
LEMMA LinkOpBudget == \A o \in LinkOps, b \in Int :
  [o EXCEPT !.budget = b] \in LinkOps
BY LinkOpsClosed

\* Every step leaves a call of its type.
LEMMA LinkOpType == LinkTypes /\ Link!Next => op' \in LinkOps
<1> SUFFICES ASSUME LinkTypes, Link!Next PROVE op' \in LinkOps OBVIOUS
<1>0. /\ Link!Next /\ device' = device
      /\ MaxCalls \in Nat /\ MaxMessages \in Int
      /\ op \in LinkOps /\ op.call <= MaxCalls /\ (op.pc # "idle" => op.call >= 1)
      /\ op.call \in Nat
      /\ op.call + 1 \in Nat
      /\ op.budget \in Int
      /\ op.budget - 1 \in Int
      /\ op.request \in Nat
      /\ op.request + 1 \in Nat
      /\ wanted \in SUBSET LinkNames /\ time \in Nat /\ op.todo \in SUBSET LinkNames
      /\ \A o : Link!Returns(o) => op' \in LinkOps /\ op'.call = op.call /\ op'.pc = "idle"
      /\ Link!Idle \in LinkOps
      /\ LinkPcs = Shaking \cup {"idle", "begun", "connected", "await"}
      /\ Shaking = {"hello", "identify", "authenticate", "handshake", "resubscribe"}
  <2>1. /\ Link!Next /\ device' = device /\ op.call <= MaxCalls /\ (op.pc # "idle" => op.call >= 1)
    BY DEF Link!Next, LinkTypes
  <2>2. MaxCalls \in Nat /\ MaxMessages \in Int BY LinkBounds
  <2>3. /\ op \in LinkOps /\ op.call \in Nat /\ op.budget \in Int /\ op.request \in Nat
        /\ wanted \in SUBSET LinkNames /\ time \in Nat /\ op.todo \in SUBSET LinkNames
    BY LinkFields
  <2>4. op.call + 1 \in Nat /\ op.budget - 1 \in Int /\ op.request + 1 \in Nat BY <2>3
  <2>5. \A o : Link!Returns(o) => op' \in LinkOps /\ op'.call = op.call /\ op'.pc = "idle"
    BY LinkReturns
  <2>6. /\ LinkPcs = Shaking \cup {"idle", "begun", "connected", "await"}
        /\ Shaking = {"hello", "identify", "authenticate", "handshake", "resubscribe"}
    BY DEF LinkPcs, Shaking
  <2> QED BY <2>1, <2>2, <2>3, <2>4, <2>5, <2>6, LinkIdle

<1>s. ASSUME NEW w, NEW n, NEW p \in {"handshake", "await"}, Link!Sends(w, n, p)
      PROVE  op' \in LinkOps
  <2>1. p \in LinkPcs BY <1>0
  <2>2. op' = [op EXCEPT !.pc = p, !.request = op.request + 1, !.budget = MaxMessages,
                         !.todo = op.todo \ {n}]
    BY <1>s DEF Link!Sends
  <2>3. op.todo \ {n} \in SUBSET LinkNames BY <1>0
  <2> QED BY <2>1, <2>2, <2>3, <1>0, LinkOpSends
<1>b. [op EXCEPT !.budget = @ - 1] \in LinkOps
  BY <1>0, LinkOpBudget
<1>1. CASE Link!Call
  <2>1. ASSUME NEW k \in Kinds, NEW v \in BOOLEAN, Link!Begin(k, v) PROVE op' \in LinkOps
    <3>1. op' = [Link!Idle EXCEPT !.pc = "begun", !.call = op.call + 1, !.request = op.request,
                                  !.kind = k, !.valid = v]
      BY <2>1 DEF Link!Begin
    <3>2. "begun" \in LinkPcs BY <1>0
    <3> QED BY <3>1, <3>2, <1>0, LinkOpBegin
  <2> QED BY <1>1, <2>1 DEF Link!Call, Kinds
<1>2. CASE Link!PollQueued
  BY <1>2, <1>0, LinkOpsClosed DEF Link!PollQueued, LinkPcs, Shaking, Kinds
<1>3. CASE Link!Unmapped
  BY <1>3, <1>0, LinkOpsClosed DEF Link!Unmapped, LinkPcs, Shaking, Kinds
<1>4. CASE Link!AlreadyOpen
  BY <1>4, <1>0, LinkOpsClosed DEF Link!AlreadyOpen, Link!GoesOn, LinkPcs, Shaking, Kinds
<1>5. CASE Link!BackingOff
  BY <1>5, <1>0, LinkOpsClosed DEF Link!BackingOff, Link!GoesOn, Link!CanAttempt, LinkPcs,
     Shaking, Kinds
<1>6. CASE Link!ConnectFails
  BY <1>6, <1>0, LinkOpsClosed DEF Link!ConnectFails, Link!GoesOn, Link!CanAttempt, LinkPcs,
     Shaking, Kinds
<1>7. CASE Link!ConnectOpens
  BY <1>7, <1>0, LinkOpsClosed DEF Link!ConnectOpens, Link!GoesOn, Link!CanAttempt, LinkPcs,
     Shaking, Kinds
<1>8. CASE Link!Hello
  <2>1. "identify" \in LinkPcs BY <1>0
  <2>2. [op EXCEPT !.pc = "identify", !.budget = MaxMessages] \in LinkOps
    BY <2>1, <1>0, LinkOpHello
  <2> QED BY <1>8, <2>2, <1>0 DEF Link!Hello, Link!HandshakeFails
<1>9. CASE Link!NoHello
  BY <1>9, <1>0, LinkOpsClosed DEF Link!NoHello, Link!HandshakeFails, LinkPcs, Shaking, Kinds
<1>10. CASE Link!Identified
  BY <1>10, <1>0, LinkOpsClosed DEF Link!Identified, Link!Stands, LinkPcs, Shaking, Kinds
<1>11. CASE Link!Authenticate
  BY <1>11, <1>0, <1>s DEF Link!Authenticate
<1>12. CASE Link!Resubscribe
  BY <1>12, <1>0, <1>s DEF Link!Resubscribe
<1>13. CASE Link!HandshakeSendFails
  BY <1>13, <1>0, LinkOpsClosed DEF Link!HandshakeSendFails, Link!HandshakeFails, LinkPcs,
     Shaking, Kinds
<1>14. CASE Link!Resubscribed
  BY <1>14, <1>0, LinkOpsClosed DEF Link!Resubscribed, Link!Stands, LinkPcs, Shaking, Kinds
<1>15. CASE Link!Execute
  BY <1>15, <1>0, <1>s DEF Link!Execute
<1>16. CASE Link!SendFails
  BY <1>16, <1>0, LinkOpsClosed DEF Link!SendFails, LinkPcs, Shaking, Kinds
<1>17. CASE Link!ConnectDone
  BY <1>17, <1>0, LinkOpsClosed DEF Link!ConnectDone, LinkPcs, Shaking, Kinds
<1>18. CASE Link!ReadNothing
  BY <1>18, <1>0, <1>b DEF Link!ReadNothing, Link!RequestFails, Link!HandshakeFails
<1>19. CASE Link!ReadBroken
  BY <1>19, <1>0, LinkOpsClosed DEF Link!ReadBroken, Link!Reading, Link!RequestFails,
     Link!HandshakeFails, LinkPcs, Shaking, Kinds
<1>20. CASE Link!LimitExceeded
  BY <1>20, <1>0, LinkOpsClosed DEF Link!LimitExceeded, Link!RequestFails, Link!HandshakeFails,
     LinkPcs, Shaking, Kinds
<1>21. CASE Link!ReadEvent
  BY <1>21, <1>0, <1>b DEF Link!ReadEvent
<1>22. CASE Link!ReadOther
  BY <1>22, <1>0, <1>b DEF Link!ReadOther
<1>23. CASE Link!ReadAnswer
  <2>1. "authenticate" \in LinkPcs /\ "resubscribe" \in LinkPcs BY <1>0
  <2>2. \A p \in LinkPcs : [op EXCEPT !.pc = p] \in LinkOps BY <1>0, LinkOpPc
  <2> QED BY <1>23, <2>1, <2>2, <1>0, LinkReadAnswer
          DEF Link!Answered, Link!HandshakeFails, Link!RequestFails
<1>24. CASE Link!PollEvent
  BY <1>24, <1>0, LinkOpsClosed DEF Link!PollEvent, Link!Pushes, LinkPcs, Shaking, Kinds
<1>25. CASE Link!PollNothing
  BY <1>25, <1>0, LinkOpsClosed DEF Link!PollNothing, LinkPcs, Shaking, Kinds
<1>26. CASE Link!PollBroken
  BY <1>26, <1>0, LinkOpsClosed DEF Link!PollBroken, LinkPcs, Shaking, Kinds
<1>27. CASE Link!Handles
  BY <1>27, <1>0, LinkOpsClosed DEF Link!Handles, Link!Verdicts, LinkPcs, Shaking, Kinds
<1>28. CASE Link!Tick
  BY <1>28, <1>0, LinkOpsClosed DEF Link!Tick, LinkPcs, Shaking, Kinds
<1>29. ASSUME NEW n \in LinkNames, Link!Reidentify(n) PROVE op' \in LinkOps
  BY <1>29, <1>0, LinkOpCall DEF Link!Reidentify
<1>30. ASSUME NEW n \in LinkNames, Link!Subscribe(n) PROVE op' \in LinkOps
  <2>1. CASE link.open
    <3>1. op' = [Link!Idle EXCEPT !.pc = "await", !.call = op.call + 1, !.kind = "subscribe",
                                  !.request = op.request + 1, !.budget = MaxMessages]
      BY <1>30, <2>1 DEF Link!Subscribe
    <3>2. "await" \in LinkPcs /\ "subscribe" \in Kinds BY <1>0 DEF Kinds
    <3> QED BY <3>1, <3>2, <1>0, LinkOpSubscribe
  <2>2. CASE ~link.open
    BY <1>30, <2>2, <1>0, LinkOpCall DEF Link!Subscribe
  <2> QED BY <2>1, <2>2
<1> QED BY <1>1, <1>2, <1>3, <1>4, <1>5, <1>6, <1>7, <1>8, <1>9, <1>10, <1>11, <1>12, <1>13,
           <1>14, <1>15, <1>16, <1>17, <1>18, <1>19, <1>20, <1>21, <1>22, <1>23, <1>24, <1>25,
           <1>26, <1>27, <1>28, <1>29, <1>30, <1>0 DEF Link!Next

\* What the peer does when it handles a request.
LEMMA LinkHandles ==
  ASSUME LinkTypes, Link!Handles
  PROVE  \E r \in peer.sent, v \in {"ok", "rejected", "denied"}, here \in BOOLEAN :
            /\ here => r.attempt = link.attempts /\ (link.open \/ op.pc = "handshake")
            /\ op.pc = "handshake" /\ r.attempt = link.attempts => here
            /\ v = "denied" => device = "vts"
            /\ peer'.sent = peer.sent \ {r}
            /\ peer'.owed = IF here THEN peer.owed \cup {[id |-> r.id, what |-> r.what, verdict |-> v]}
                                    ELSE peer.owed
            /\ peer'.heard = IF r.what = "subscribe" /\ v = "ok" /\ here
                             THEN peer.heard \cup {r.name} ELSE peer.heard
            /\ peer'.pushed = peer.pushed
            /\ peer' = [peer EXCEPT !.sent = peer'.sent, !.owed = peer'.owed, !.heard = peer'.heard]
            /\ done' = IF r.what = "action" /\ v = "ok"
                       THEN [done EXCEPT ![r.call] = done[r.call] + 1] ELSE done
            /\ UNCHANGED <<time, link, wanted, hasToken, inbox, op, result, taken>>
<1>1. PICK r \in peer.sent :
   \E v \in Link!Verdicts :
        /\ peer' = [peer EXCEPT
              !.sent = @ \ {r},
              !.owed = IF r.attempt = link.attempts /\ (link.open \/ op.pc = "handshake")
                       THEN @ \cup {[id |-> r.id, what |-> r.what, verdict |-> v]} ELSE @,
              !.heard = IF r.what = "subscribe" /\ v = "ok" /\ r.attempt = link.attempts
                           /\ (link.open \/ op.pc = "handshake")
                        THEN @ \cup {r.name} ELSE @]
        /\ done' = IF r.what = "action" /\ v = "ok"
                   THEN [done EXCEPT ![r.call] = @ + 1] ELSE done
        /\ UNCHANGED <<time, link, wanted, hasToken, inbox, op, result, taken>>
  BY DEF Link!Handles
<1>2. PICK v \in Link!Verdicts :
        /\ peer' = [peer EXCEPT
              !.sent = @ \ {r},
              !.owed = IF r.attempt = link.attempts /\ (link.open \/ op.pc = "handshake")
                       THEN @ \cup {[id |-> r.id, what |-> r.what, verdict |-> v]} ELSE @,
              !.heard = IF r.what = "subscribe" /\ v = "ok" /\ r.attempt = link.attempts
                           /\ (link.open \/ op.pc = "handshake")
                        THEN @ \cup {r.name} ELSE @]
        /\ done' = IF r.what = "action" /\ v = "ok"
                   THEN [done EXCEPT ![r.call] = @ + 1] ELSE done
        /\ UNCHANGED <<time, link, wanted, hasToken, inbox, op, result, taken>>
  BY <1>1
<1> DEFINE here == r.attempt = link.attempts /\ (link.open \/ op.pc = "handshake")
           s == peer.sent \ {r}
           o == IF here THEN peer.owed \cup {[id |-> r.id, what |-> r.what, verdict |-> v]}
                                    ELSE peer.owed
           h == IF r.what = "subscribe" /\ v = "ok" /\ here
                             THEN peer.heard \cup {r.name} ELSE peer.heard
<1>3. peer' = [peer EXCEPT !.sent = s, !.owed = o, !.heard = h]
  BY <1>2
<1>4. here \in BOOLEAN OBVIOUS
<1>5. v \in {"ok", "rejected", "denied"} /\ (v = "denied" => device = "vts")
   BY LinkFields DEF Link!Verdicts
<1>6. peer'.sent = s /\ peer'.owed = o /\ peer'.heard = h /\ peer'.pushed = peer.pushed
  <2> HIDE DEF s, o, h
  <2> QED BY <1>3, LinkFields DEF LinkPeers
<1>7. peer' = [peer EXCEPT !.sent = peer'.sent, !.owed = peer'.owed, !.heard = peer'.heard]
  <2> HIDE DEF s, o, h
  <2> QED BY <1>3, <1>6
<1>8. /\ here => r.attempt = link.attempts /\ (link.open \/ op.pc = "handshake")
      /\ op.pc = "handshake" /\ r.attempt = link.attempts => here
  OBVIOUS
<1>9. /\ peer'.owed = IF here THEN peer.owed \cup {[id |-> r.id, what |-> r.what, verdict |-> v]}
                                    ELSE peer.owed
      /\ peer'.heard = IF r.what = "subscribe" /\ v = "ok" /\ here
                             THEN peer.heard \cup {r.name} ELSE peer.heard
  BY <1>6
<1> HIDE DEF here, o, h
<1> QED BY <1>2, <1>4, <1>5, <1>6, <1>7, <1>8, <1>9

\* Calls are counted within their bound.
LEMMA LinkCallType ==
  LinkTypes /\ Link!Next => op'.call <= MaxCalls /\ (op'.pc # "idle" =>
      op'.call >= 1)
<1> DEFINE Good == op'.call <= MaxCalls /\ (op'.pc # "idle" => op'.call >= 1)
<1> SUFFICES ASSUME LinkTypes, Link!Next PROVE Good OBVIOUS
<1>0. /\ Link!Next /\ device' = device
      /\ MaxCalls \in Nat /\ MaxMessages \in Nat
      /\ op \in LinkOps /\ op.call <= MaxCalls /\ (op.pc # "idle" => op.call >= 1)
      /\ op.call \in Nat /\ op.budget \in Int /\ op.request \in Nat
      /\ \A o : Link!Returns(o) => op'.call = op.call /\ op'.pc = "idle"
      /\ Link!Idle \in LinkOps
  BY LinkFields, LinkBounds, LinkReturns, LinkIdle DEF Link!Next, LinkTypes
<1>1. CASE Link!Call
  <2>1. ASSUME NEW k \in Kinds, NEW v \in BOOLEAN, Link!Begin(k, v) PROVE Good
    BY <2>1, <1>0 DEF Link!Begin, LinkOps
  <2> QED BY <1>1, <2>1 DEF Link!Call, Kinds
<1>2. CASE Link!PollQueued
  BY <1>2, <1>0 DEF Link!PollQueued, LinkOps
<1>3. CASE Link!Unmapped
  BY <1>3, <1>0 DEF Link!Unmapped, LinkOps
<1>4. CASE Link!AlreadyOpen
  BY <1>4, <1>0 DEF Link!AlreadyOpen, Link!GoesOn, LinkOps
<1>5. CASE Link!BackingOff
  BY <1>5, <1>0 DEF Link!BackingOff, Link!GoesOn, Link!CanAttempt, LinkOps
<1>6. CASE Link!ConnectFails
  BY <1>6, <1>0 DEF Link!ConnectFails, Link!GoesOn, Link!CanAttempt, LinkOps
<1>7. CASE Link!ConnectOpens
  BY <1>7, <1>0 DEF Link!ConnectOpens, Link!GoesOn, Link!CanAttempt, LinkOps
<1>8. CASE Link!Hello
  BY <1>8, <1>0 DEF Link!Hello, Link!HandshakeFails, LinkOps
<1>9. CASE Link!NoHello
  BY <1>9, <1>0 DEF Link!NoHello, Link!HandshakeFails, LinkOps
<1>10. CASE Link!Identified
  BY <1>10, <1>0 DEF Link!Identified, Link!Stands, LinkOps
<1>11. CASE Link!Authenticate
  BY <1>11, <1>0 DEF Link!Authenticate, Link!Sends, LinkOps
<1>12. CASE Link!Resubscribe
  BY <1>12, <1>0 DEF Link!Resubscribe, Link!Sends, LinkOps
<1>13. CASE Link!HandshakeSendFails
  BY <1>13, <1>0 DEF Link!HandshakeSendFails, Link!HandshakeFails, LinkOps
<1>14. CASE Link!Resubscribed
  BY <1>14, <1>0 DEF Link!Resubscribed, Link!Stands, LinkOps
<1>15. CASE Link!Execute
  BY <1>15, <1>0 DEF Link!Execute, Link!Sends, LinkOps
<1>16. CASE Link!SendFails
  BY <1>16, <1>0 DEF Link!SendFails, LinkOps
<1>17. CASE Link!ConnectDone
  BY <1>17, <1>0 DEF Link!ConnectDone, LinkOps
<1>18. CASE Link!ReadNothing
  BY <1>18, <1>0 DEF Link!ReadNothing, Link!Reading, Link!RequestFails, Link!HandshakeFails,
     LinkOps
<1>19. CASE Link!ReadBroken
  BY <1>19, <1>0 DEF Link!ReadBroken, Link!Reading, Link!RequestFails, Link!HandshakeFails,
     LinkOps
<1>20. CASE Link!LimitExceeded
  BY <1>20, <1>0 DEF Link!LimitExceeded, Link!RequestFails, Link!HandshakeFails, LinkOps
<1>21. CASE Link!ReadEvent
  BY <1>21, <1>0 DEF Link!ReadEvent, Link!Reading, Link!Pushes, LinkOps
<1>22. CASE Link!ReadOther
  BY <1>22, <1>0 DEF Link!ReadOther, Link!Reading, LinkOps
<1>23. CASE Link!ReadAnswer
  <2>0. op.pc # "idle" BY <1>23 DEF Link!ReadAnswer, Link!Reading
  <2>1. ASSUME NEW a, Link!Answered(a) PROVE Good
    BY <2>1, <2>0, <1>0 DEF Link!Answered, LinkOps
  <2>2. ASSUME Link!HandshakeFails PROVE Good
    BY <2>2, <1>0 DEF Link!HandshakeFails
  <2>3. ASSUME NEW k, Link!RequestFails(k) PROVE Good
    BY <2>2, <2>3, <1>0 DEF Link!RequestFails
  <2>4. ASSUME Link!Returns("failed") PROVE Good
    BY <2>4, <1>0
  <2> QED BY <1>23, <2>1, <2>2, <2>3, <2>4, LinkReadAnswer
<1>24. CASE Link!PollEvent
  BY <1>24, <1>0 DEF Link!PollEvent, Link!Pushes, LinkOps
<1>25. CASE Link!PollNothing
  BY <1>25, <1>0 DEF Link!PollNothing, LinkOps
<1>26. CASE Link!PollBroken
  BY <1>26, <1>0 DEF Link!PollBroken, LinkOps
<1>27. CASE Link!Handles
  BY <1>27, <1>0 DEF Link!Handles, Link!Verdicts, LinkOps
<1>28. CASE Link!Tick
  BY <1>28, <1>0 DEF Link!Tick, LinkOps
<1>29. ASSUME NEW n \in LinkNames, Link!Reidentify(n) PROVE Good
  <2>1. op' = [op EXCEPT !.call = op.call + 1] /\ op.call < MaxCalls BY <1>29 DEF Link!Reidentify
  <2>2. op'.call = op.call + 1 BY <2>1, <1>0 DEF LinkOps
  <2> QED BY <2>1, <2>2, <1>0
<1>30. ASSUME NEW n \in LinkNames, Link!Subscribe(n) PROVE Good
  <2>1. op'.call = op.call + 1
    BY <1>30, <1>0 DEF Link!Subscribe, LinkOps
  <2>2. op.call < MaxCalls BY <1>30 DEF Link!Subscribe
  <2> QED BY <2>1, <2>2, <1>0
<1> QED BY <1>1, <1>2, <1>3, <1>4, <1>5, <1>6, <1>7, <1>8, <1>9, <1>10, <1>11, <1>12, <1>13,
           <1>14, <1>15, <1>16, <1>17, <1>18, <1>19, <1>20, <1>21, <1>22, <1>23, <1>24, <1>25,
           <1>26, <1>27, <1>28, <1>29, <1>30, <1>0 DEF Link!Next

\* Every step leaves a peer of its type.
LEMMA LinkPeerType == LinkTypes /\ Link!Next => peer' \in LinkPeers
<1> SUFFICES ASSUME LinkTypes, Link!Next PROVE peer' \in LinkPeers OBVIOUS
<1>0. /\ Link!Next /\ device' = device /\ peer \in LinkPeers
      /\ op.call \in Nat /\ op.call + 1 \in Nat /\ op.request + 1 \in Nat
      /\ link.attempts \in Nat /\ peer.pushed + 1 \in Nat
      /\ wanted \in SUBSET LinkNames /\ op.todo \subseteq LinkNames
      /\ peer.sent \in SUBSET Messages
      /\ peer.owed \in SUBSET Answers
      /\ peer.heard \in SUBSET LinkNames
  BY LinkFields DEF Link!Next
<1>w. /\ \A w \in SUBSET Answers : [peer EXCEPT !.owed = w] \in LinkPeers
      /\ \A h \in SUBSET LinkNames : [peer EXCEPT !.heard = h] \in LinkPeers
  BY <1>0, LinkPeersClosed
<1>e. [peer EXCEPT !.owed = {}, !.heard = {}] \in LinkPeers
  BY <1>0, LinkPeersClosed
<1>p. [peer EXCEPT !.pushed = @ + 1] \in LinkPeers
  BY <1>0, LinkPeersClosed
<1>a. \A a : [peer EXCEPT !.owed = @ \ {a}] \in LinkPeers
  BY <1>0, <1>w
<1>m. ASSUME NEW w \in {"token", "auth", "subscribe", "action"}, NEW n \in LinkNames \cup {Link!NoName},
             NEW c \in Nat
      PROVE  [peer EXCEPT !.sent = @ \cup {[id |-> op.request + 1, what |-> w, name |-> n,
                                            call |-> c, attempt |-> link.attempts]}]
               \in LinkPeers
  <2> DEFINE m == [id |-> op.request + 1, what |-> w, name |-> n,
                                            call |-> c, attempt |-> link.attempts]
  <2>1. m \in Messages BY <1>0, LinkMessages
  <2> HIDE DEF m
  <2>2. peer.sent \cup {m} \in SUBSET Messages BY <2>1, <1>0
  <2>3. [peer EXCEPT !.sent = peer.sent \cup {m}] \in LinkPeers BY <2>2, <1>0, LinkPeersClosed
  <2> QED BY <2>3 DEF m
<1>s. ASSUME NEW w \in {"token", "auth", "subscribe", "action"}, NEW n \in LinkNames \cup {Link!NoName},
             NEW p, Link!Sends(w, n, p)
      PROVE  peer' \in LinkPeers
  BY <1>0, <1>m, <1>s DEF Link!Sends
<1>1. CASE Link!Call
  BY <1>1, <1>0, <1>w, <1>e, <1>p, <1>a DEF Link!Call, Link!Begin
<1>2. CASE Link!PollQueued
  BY <1>2, <1>0, <1>w, <1>e, <1>p, <1>a DEF Link!PollQueued
<1>3. CASE Link!Unmapped
  BY <1>3, <1>0, <1>w, <1>e, <1>p, <1>a DEF Link!Unmapped
<1>4. CASE Link!AlreadyOpen
  BY <1>4, <1>0, <1>w, <1>e, <1>p, <1>a DEF Link!AlreadyOpen, Link!GoesOn
<1>5. CASE Link!BackingOff
  BY <1>5, <1>0, <1>w, <1>e, <1>p, <1>a DEF Link!BackingOff, Link!GoesOn, Link!CanAttempt
<1>6. CASE Link!ConnectFails
  BY <1>6, <1>0, <1>w, <1>e, <1>p, <1>a DEF Link!ConnectFails, Link!GoesOn, Link!CanAttempt
<1>7. CASE Link!ConnectOpens
  BY <1>7, <1>0, <1>w, <1>e, <1>p, <1>a DEF Link!ConnectOpens, Link!GoesOn, Link!CanAttempt
<1>8. CASE Link!Hello
  BY <1>8, <1>0, <1>w, <1>e, <1>p, <1>a DEF Link!Hello, Link!HandshakeFails
<1>9. CASE Link!NoHello
  BY <1>9, <1>0, <1>w, <1>e, <1>p, <1>a DEF Link!NoHello, Link!HandshakeFails
<1>10. CASE Link!Identified
  BY <1>10, <1>0, <1>w, <1>e, <1>p, <1>a DEF Link!Identified, Link!Stands
<1>11. CASE Link!Authenticate
  BY <1>11, <1>0, <1>s DEF Link!Authenticate
<1>12. CASE Link!Resubscribe
  BY <1>12, <1>0, <1>s DEF Link!Resubscribe
<1>13. CASE Link!HandshakeSendFails
  BY <1>13, <1>0, <1>w, <1>e, <1>p, <1>a DEF Link!HandshakeSendFails, Link!HandshakeFails
<1>14. CASE Link!Resubscribed
  BY <1>14, <1>0, <1>w, <1>e, <1>p, <1>a DEF Link!Resubscribed, Link!Stands
<1>15. CASE Link!Execute
  BY <1>15, <1>0, <1>s DEF Link!Execute
<1>16. CASE Link!SendFails
  BY <1>16, <1>0, <1>w, <1>e, <1>p, <1>a DEF Link!SendFails
<1>17. CASE Link!ConnectDone
  BY <1>17, <1>0, <1>w, <1>e, <1>p, <1>a DEF Link!ConnectDone
<1>18. CASE Link!ReadNothing
  BY <1>18, <1>0, <1>w, <1>e, <1>p, <1>a DEF Link!ReadNothing, Link!Reading, Link!RequestFails,
     Link!HandshakeFails
<1>19. CASE Link!ReadBroken
  BY <1>19, <1>0, <1>w, <1>e, <1>p, <1>a DEF Link!ReadBroken, Link!Reading, Link!RequestFails,
     Link!HandshakeFails
<1>20. CASE Link!LimitExceeded
  BY <1>20, <1>0, <1>w, <1>e, <1>p, <1>a DEF Link!LimitExceeded, Link!RequestFails,
     Link!HandshakeFails
<1>21. CASE Link!ReadEvent
  BY <1>21, <1>0, <1>w, <1>e, <1>p, <1>a DEF Link!ReadEvent, Link!Reading, Link!Pushes
<1>22. CASE Link!ReadOther
  BY <1>22, <1>0, <1>w, <1>e, <1>p, <1>a DEF Link!ReadOther, Link!Reading
<1>23. CASE Link!ReadAnswer
  BY <1>23, <1>0, <1>e, <1>a, LinkReadAnswer DEF Link!Answered, Link!HandshakeFails,
     Link!RequestFails
<1>24. CASE Link!PollEvent
  BY <1>24, <1>0, <1>w, <1>e, <1>p, <1>a DEF Link!PollEvent, Link!Pushes
<1>25. CASE Link!PollNothing
  BY <1>25, <1>0, <1>w, <1>e, <1>p, <1>a DEF Link!PollNothing
<1>26. CASE Link!PollBroken
  BY <1>26, <1>0, <1>w, <1>e, <1>p, <1>a DEF Link!PollBroken
<1>27. CASE Link!Handles
  <2>1. PICK r \in peer.sent, v \in {"ok", "rejected", "denied"}, here \in BOOLEAN :
           /\ peer'.sent = peer.sent \ {r}
           /\ peer'.owed = IF here THEN peer.owed \cup {[id |-> r.id, what |-> r.what, verdict |-> v]}
                           ELSE peer.owed
           /\ peer'.heard = IF r.what = "subscribe" /\ v = "ok" /\ here
                            THEN peer.heard \cup {r.name} ELSE peer.heard
           /\ peer' = [peer EXCEPT !.sent = peer'.sent, !.owed = peer'.owed, !.heard = peer'.heard]
    BY <1>27, LinkHandles
  <2>2. r \in Messages BY <1>0
  <2>3. r.id \in Nat /\ r.what \in {"token", "auth", "subscribe", "action"}
    BY <2>2, LinkMessages
  <2>4. [id |-> r.id, what |-> r.what, verdict |-> v] \in Answers BY ONLY <2>3, LinkMessages
  <2>5. r.what = "subscribe" => r.name \in LinkNames BY DEF LinkTypes
  <2>6. peer'.sent \in SUBSET Messages BY <2>1, <1>0
  <2>7. peer'.owed \in SUBSET Answers BY <2>1, <2>4, <1>0
  <2>8. peer'.heard \in SUBSET LinkNames BY <2>1, <2>5, <1>0
  <2>9. \A m \in SUBSET Messages, w \in SUBSET Answers, h \in SUBSET LinkNames :
           [peer EXCEPT !.sent = m, !.owed = w, !.heard = h] \in LinkPeers
    BY <1>0, LinkPeersClosed
  <2>10. [peer EXCEPT !.sent = peer'.sent, !.owed = peer'.owed, !.heard = peer'.heard] \in LinkPeers
    BY ONLY <2>6, <2>7, <2>8, <2>9
  <2>11. peer' = [peer EXCEPT !.sent = peer'.sent, !.owed = peer'.owed, !.heard = peer'.heard] BY <2>1
  <2> QED BY ONLY <2>10, <2>11
<1>28. CASE Link!Tick
  BY <1>28, <1>0, <1>w, <1>e, <1>p, <1>a DEF Link!Tick
<1>29. ASSUME NEW n \in LinkNames, Link!Reidentify(n) PROVE peer' \in LinkPeers
  BY <1>29, <1>0, <1>e, <1>w DEF Link!Reidentify
<1>30. ASSUME NEW n \in LinkNames, Link!Subscribe(n) PROVE peer' \in LinkPeers
  BY <1>30, <1>0, <1>m DEF Link!Subscribe
<1> QED BY <1>1, <1>2, <1>3, <1>4, <1>5, <1>6, <1>7, <1>8, <1>9, <1>10, <1>11, <1>12, <1>13,
           <1>14, <1>15, <1>16, <1>17, <1>18, <1>19, <1>20, <1>21, <1>22, <1>23, <1>24, <1>25,
           <1>26, <1>27, <1>28, <1>29, <1>30, <1>0 DEF Link!Next

\* What is asked for, whether there is a token and how calls ended.
LinkRest ==
    /\ time \in Nat /\ hasToken \in BOOLEAN /\ wanted \subseteq LinkNames
    /\ done \in [1..MaxCalls -> Nat] /\ result \in [1..MaxCalls -> Outcomes]

\* A call that returns has an outcome.
LEMMA LinkResults ==
  ASSUME LinkTypes, NEW o \in Outcomes, Link!Returns(o)
  PROVE  result' \in [1..MaxCalls -> Outcomes]
BY DEF LinkTypes, Link!Returns

\* Every step keeps the other types.
LEMMA LinkRestStep == LinkTypes /\ Link!Next => LinkRest'
<1> SUFFICES ASSUME LinkTypes, Link!Next PROVE LinkRest' OBVIOUS
<1>0. /\ Link!Next /\ device' = device
      /\ LinkRest /\ op.call \in Nat /\ time + 1 \in Nat
      /\ {"none", "ok", "performed", "refused", "failed"} = Outcomes
  BY LinkFields DEF LinkTypes, LinkRest, Link!Next, Outcomes
<1>r. \A o \in Outcomes : Link!Returns(o) => result' \in [1..MaxCalls -> Outcomes]
  BY LinkResults
<1>s. \A c : \A o \in Outcomes : [result EXCEPT ![c] = o] \in [1..MaxCalls -> Outcomes]
  BY DEF LinkTypes
<1>1. CASE Link!Call
  BY <1>1, <1>0, <1>r, <1>s DEF Link!Call, Link!Begin, LinkRest
<1>2. CASE Link!PollQueued
  BY <1>2, <1>0, <1>r, <1>s DEF Link!PollQueued, LinkRest
<1>3. CASE Link!Unmapped
  BY <1>3, <1>0, <1>r, <1>s DEF Link!Unmapped, LinkRest
<1>4. CASE Link!AlreadyOpen
  BY <1>4, <1>0, <1>r, <1>s DEF Link!AlreadyOpen, Link!GoesOn, LinkRest
<1>5. CASE Link!BackingOff
  BY <1>5, <1>0, <1>r, <1>s DEF Link!BackingOff, Link!GoesOn, Link!CanAttempt, LinkRest
<1>6. CASE Link!ConnectFails
  BY <1>6, <1>0, <1>r, <1>s DEF Link!ConnectFails, Link!GoesOn, Link!CanAttempt, LinkRest
<1>7. CASE Link!ConnectOpens
  BY <1>7, <1>0, <1>r, <1>s DEF Link!ConnectOpens, Link!GoesOn, Link!CanAttempt, LinkRest
<1>8. CASE Link!Hello
  BY <1>8, <1>0, <1>r, <1>s DEF Link!Hello, Link!HandshakeFails, LinkRest
<1>9. CASE Link!NoHello
  BY <1>9, <1>0, <1>r, <1>s DEF Link!NoHello, Link!HandshakeFails, LinkRest
<1>10. CASE Link!Identified
  BY <1>10, <1>0, <1>r, <1>s DEF Link!Identified, Link!Stands, LinkRest
<1>11. CASE Link!Authenticate
  BY <1>11, <1>0, <1>r, <1>s DEF Link!Authenticate, Link!Sends, LinkRest
<1>12. CASE Link!Resubscribe
  BY <1>12, <1>0, <1>r, <1>s DEF Link!Resubscribe, Link!Sends, LinkRest
<1>13. CASE Link!HandshakeSendFails
  BY <1>13, <1>0, <1>r, <1>s DEF Link!HandshakeSendFails, Link!HandshakeFails, LinkRest
<1>14. CASE Link!Resubscribed
  BY <1>14, <1>0, <1>r, <1>s DEF Link!Resubscribed, Link!Stands, LinkRest
<1>15. CASE Link!Execute
  BY <1>15, <1>0, <1>r, <1>s DEF Link!Execute, Link!Sends, LinkRest
<1>16. CASE Link!SendFails
  BY <1>16, <1>0, <1>r, <1>s DEF Link!SendFails, LinkRest
<1>17. CASE Link!ConnectDone
  BY <1>17, <1>0, <1>r, <1>s DEF Link!ConnectDone, LinkRest
<1>18. CASE Link!ReadNothing
  BY <1>18, <1>0, <1>r, <1>s DEF Link!ReadNothing, Link!Reading, Link!RequestFails,
     Link!HandshakeFails, LinkRest
<1>19. CASE Link!ReadBroken
  BY <1>19, <1>0, <1>r, <1>s DEF Link!ReadBroken, Link!Reading, Link!RequestFails,
     Link!HandshakeFails, LinkRest
<1>20. CASE Link!LimitExceeded
  BY <1>20, <1>0, <1>r, <1>s DEF Link!LimitExceeded, Link!RequestFails, Link!HandshakeFails,
     LinkRest
<1>21. CASE Link!ReadEvent
  BY <1>21, <1>0, <1>r, <1>s DEF Link!ReadEvent, Link!Reading, Link!Pushes, LinkRest
<1>22. CASE Link!ReadOther
  BY <1>22, <1>0, <1>r, <1>s DEF Link!ReadOther, Link!Reading, LinkRest
<1>23. CASE Link!ReadAnswer
  BY <1>23, <1>0, <1>r, LinkReadAnswer DEF LinkRest, Link!Answered, Link!HandshakeFails,
     Link!RequestFails
<1>24. CASE Link!PollEvent
  BY <1>24, <1>0, <1>r, <1>s DEF Link!PollEvent, Link!Pushes, LinkRest
<1>25. CASE Link!PollNothing
  BY <1>25, <1>0, <1>r, <1>s DEF Link!PollNothing, LinkRest
<1>26. CASE Link!PollBroken
  BY <1>26, <1>0, <1>r, <1>s DEF Link!PollBroken, LinkRest
<1>27. CASE Link!Handles
  <2>1. PICK r \in peer.sent, v \in {"ok", "rejected", "denied"} :
           /\ done' = IF r.what = "action" /\ v = "ok"
                      THEN [done EXCEPT ![r.call] = done[r.call] + 1] ELSE done
           /\ UNCHANGED <<time, link, wanted, hasToken, inbox, op, result, taken>>
    BY <1>27, LinkHandles
  <2>2. done' \in [1..MaxCalls -> Nat]
    <3>1. done \in [1..MaxCalls -> Nat] BY <1>0 DEF LinkRest
    <3>2. [done EXCEPT ![r.call] = done[r.call] + 1] \in [1..MaxCalls -> Nat]
      <4>1. CASE r.call \in 1..MaxCalls BY <3>1, <4>1
      <4>2. CASE r.call \notin 1..MaxCalls BY <3>1, <4>2
      <4> QED BY <4>1, <4>2
    <3> QED BY <2>1, <3>1, <3>2
  <2> QED BY <2>1, <2>2, <1>0 DEF LinkRest
<1>28. CASE Link!Tick
  BY <1>28, <1>0, <1>r, <1>s DEF Link!Tick, LinkRest
<1>29. ASSUME NEW n \in LinkNames, Link!Reidentify(n) PROVE LinkRest'
  BY <1>29, <1>0, <1>r, <1>s DEF Link!Reidentify, LinkRest
<1>30. ASSUME NEW n \in LinkNames, Link!Subscribe(n) PROVE LinkRest'
  BY <1>30, <1>0, <1>r, <1>s DEF Link!Subscribe, LinkRest
<1> QED BY <1>1, <1>2, <1>3, <1>4, <1>5, <1>6, <1>7, <1>8, <1>9, <1>10, <1>11, <1>12, <1>13,
           <1>14, <1>15, <1>16, <1>17, <1>18, <1>19, <1>20, <1>21, <1>22, <1>23, <1>24, <1>25,
           <1>26, <1>27, <1>28, <1>29, <1>30, <1>0 DEF Link!Next

\* A subscription names what may be subscribed to.
LEMMA LinkSubscribesStep ==
  LinkTypes /\ Link!Next => \A r \in (peer.sent)' : r.what = "subscribe" => r.name \in LinkNames
<1> DEFINE Good == \A r \in (peer.sent)' : r.what = "subscribe" => r.name \in LinkNames
<1> SUFFICES ASSUME LinkTypes, Link!Next PROVE Good OBVIOUS
<1>0. /\ Link!Next /\ peer \in LinkPeers
      /\ \A r \in peer.sent : r.what = "subscribe" => r.name \in LinkNames
      /\ op.todo \subseteq LinkNames
  BY LinkFields DEF LinkTypes, Link!Next
<1>1. CASE Link!Call
  BY <1>1, <1>0 DEF Link!Call, Link!Begin, LinkPeers
<1>2. CASE Link!PollQueued
  BY <1>2, <1>0 DEF Link!PollQueued, LinkPeers
<1>3. CASE Link!Unmapped
  BY <1>3, <1>0 DEF Link!Unmapped, LinkPeers
<1>4. CASE Link!AlreadyOpen
  BY <1>4, <1>0 DEF Link!AlreadyOpen, Link!GoesOn, LinkPeers
<1>5. CASE Link!BackingOff
  BY <1>5, <1>0 DEF Link!BackingOff, Link!GoesOn, Link!CanAttempt, LinkPeers
<1>6. CASE Link!ConnectFails
  BY <1>6, <1>0 DEF Link!ConnectFails, Link!GoesOn, Link!CanAttempt, LinkPeers
<1>7. CASE Link!ConnectOpens
  BY <1>7, <1>0 DEF Link!ConnectOpens, Link!GoesOn, Link!CanAttempt, LinkPeers
<1>8. CASE Link!Hello
  BY <1>8, <1>0 DEF Link!Hello, Link!HandshakeFails, LinkPeers
<1>9. CASE Link!NoHello
  BY <1>9, <1>0 DEF Link!NoHello, Link!HandshakeFails, LinkPeers
<1>10. CASE Link!Identified
  BY <1>10, <1>0 DEF Link!Identified, Link!Stands, LinkPeers
<1>11. CASE Link!Authenticate
  BY <1>11, <1>0 DEF Link!Authenticate, Link!Sends, LinkPeers
<1>12. CASE Link!Resubscribe
  BY <1>12, <1>0 DEF Link!Resubscribe, Link!Sends, LinkPeers
<1>13. CASE Link!HandshakeSendFails
  BY <1>13, <1>0 DEF Link!HandshakeSendFails, Link!HandshakeFails, LinkPeers
<1>14. CASE Link!Resubscribed
  BY <1>14, <1>0 DEF Link!Resubscribed, Link!Stands, LinkPeers
<1>15. CASE Link!Execute
  BY <1>15, <1>0 DEF Link!Execute, Link!Sends, LinkPeers
<1>16. CASE Link!SendFails
  BY <1>16, <1>0 DEF Link!SendFails, LinkPeers
<1>17. CASE Link!ConnectDone
  BY <1>17, <1>0 DEF Link!ConnectDone, LinkPeers
<1>18. CASE Link!ReadNothing
  BY <1>18, <1>0 DEF Link!ReadNothing, Link!Reading, Link!RequestFails, Link!HandshakeFails,
     LinkPeers
<1>19. CASE Link!ReadBroken
  BY <1>19, <1>0 DEF Link!ReadBroken, Link!Reading, Link!RequestFails, Link!HandshakeFails,
     LinkPeers
<1>20. CASE Link!LimitExceeded
  BY <1>20, <1>0 DEF Link!LimitExceeded, Link!RequestFails, Link!HandshakeFails, LinkPeers
<1>21. CASE Link!ReadEvent
  BY <1>21, <1>0 DEF Link!ReadEvent, Link!Reading, Link!Pushes, LinkPeers
<1>22. CASE Link!ReadOther
  BY <1>22, <1>0 DEF Link!ReadOther, Link!Reading, LinkPeers
<1>23. CASE Link!ReadAnswer
  BY <1>23, <1>0, LinkReadAnswer DEF LinkPeers, Link!Answered, Link!HandshakeFails,
     Link!RequestFails
<1>24. CASE Link!PollEvent
  BY <1>24, <1>0 DEF Link!PollEvent, Link!Pushes, LinkPeers
<1>25. CASE Link!PollNothing
  BY <1>25, <1>0 DEF Link!PollNothing, LinkPeers
<1>26. CASE Link!PollBroken
  BY <1>26, <1>0 DEF Link!PollBroken, LinkPeers
<1>27. CASE Link!Handles
  BY <1>27, <1>0, LinkHandles
<1>28. CASE Link!Tick
  BY <1>28, <1>0 DEF Link!Tick, LinkPeers
<1>29. ASSUME NEW n \in LinkNames, Link!Reidentify(n) PROVE Good
  BY <1>29, <1>0 DEF Link!Reidentify, LinkPeers
<1>30. ASSUME NEW n \in LinkNames, Link!Subscribe(n) PROVE Good
  BY <1>30, <1>0 DEF Link!Subscribe, LinkPeers
<1> QED BY <1>1, <1>2, <1>3, <1>4, <1>5, <1>6, <1>7, <1>8, <1>9, <1>10, <1>11, <1>12, <1>13,
           <1>14, <1>15, <1>16, <1>17, <1>18, <1>19, <1>20, <1>21, <1>22, <1>23, <1>24, <1>25,
           <1>26, <1>27, <1>28, <1>29, <1>30, <1>0 DEF Link!Next

\* Every step keeps the types.
LEMMA LinkTypesStep == LinkTypes /\ Link!Next => LinkTypes'
<1> SUFFICES ASSUME LinkTypes, Link!Next PROVE LinkTypes' OBVIOUS
<1>1. device' \in {"obs", "vts"} BY DEF LinkTypes, Link!Next
<1>2. link' \in LinkStates /\ op' \in LinkOps /\ peer' \in LinkPeers
  BY LinkStateType, LinkOpType, LinkPeerType
<1> QED BY <1>1, <1>2, LinkRestStep, LinkSubscribesStep, LinkCallType DEF LinkTypes, LinkRest

\* The members of a sequence of events.
Members(s) == {s[k] : k \in DOMAIN s}

\* An event that is kept joins the others.
LEMMA LinkAppended ==
  ASSUME NEW s \in Seq(Nat), NEW x \in Nat
  PROVE  /\ Append(s, x) \in Seq(Nat) /\ Len(Append(s, x)) = Len(s) + 1
         /\ Members(Append(s, x)) = Members(s) \cup {x}
<1>1. /\ Append(s, x) \in Seq(Nat) /\ Len(Append(s, x)) = Len(s) + 1
      /\ DOMAIN Append(s, x) = 1..Len(s) + 1 /\ DOMAIN s = 1..Len(s) /\ Len(s) \in Nat
  OBVIOUS
<1>2. \A k \in 1..Len(s) + 1 : Append(s, x)[k] = IF k = Len(s) + 1 THEN x ELSE s[k]
  OBVIOUS
<1>3. ASSUME NEW v PROVE v \in {Append(s, x)[k] : k \in DOMAIN Append(s, x)}
                           <=> v \in {s[k] : k \in DOMAIN s} \cup {x}
  <2>1. CASE v = x BY <2>1, <1>1, <1>2
  <2>2. CASE v # x
    <3>1. v \in {s[k] : k \in DOMAIN s} <=> \E k \in 1..Len(s) : v = s[k] BY <1>1
    <3>2. v \in {Append(s, x)[k] : k \in DOMAIN Append(s, x)}
            <=> \E k \in 1..Len(s) + 1 : v = Append(s, x)[k] BY <1>1
    <3>3. \A k : k \in 1..Len(s) + 1 <=> k \in 1..Len(s) \/ k = Len(s) + 1 BY <1>1
    <3>4. \A k \in 1..Len(s) : k # Len(s) + 1 BY <1>1
    <3>5. (\E k \in 1..Len(s) : v = s[k]) <=> (\E k \in 1..Len(s) + 1 : v = Append(s, x)[k])
      BY ONLY <3>3, <3>4, <1>2, <2>2
    <3> QED BY <3>1, <3>2, <3>5, <2>2
  <2> QED BY <2>1, <2>2
<1> QED BY <1>1, <1>3 DEF Members

\* The first event leaves the rest.
LEMMA LinkTaken ==
  ASSUME NEW s \in Seq(Nat), s # <<>>
  PROVE  /\ Head(s) \in Nat /\ Tail(s) \in Seq(Nat) /\ Len(Tail(s)) = Len(s) - 1 /\ Len(s) > 0
         /\ Members(s) = {Head(s)} \cup Members(Tail(s))
<1>1. /\ Head(s) \in Nat /\ Tail(s) \in Seq(Nat) /\ Len(Tail(s)) = Len(s) - 1 /\ Len(s) > 0
      /\ DOMAIN Tail(s) = 1..Len(s) - 1
      /\ DOMAIN s = 1..Len(s)
      /\ Len(s) \in Nat
      /\ Head(s) = s[1]
  OBVIOUS
<1>2. \A k \in 1..Len(s) - 1 : Tail(s)[k] = s[k + 1]
  OBVIOUS
<1>3. ASSUME NEW v PROVE v \in {s[k] : k \in DOMAIN s}
                       <=> v \in {Head(s)} \cup {Tail(s)[k] : k \in DOMAIN Tail(s)}
  <2>1. v \in {s[k] : k \in DOMAIN s} <=> \E k \in 1..Len(s) : v = s[k] BY <1>1
  <2>2. v \in {Tail(s)[k] : k \in DOMAIN Tail(s)} <=> \E k \in 1..Len(s) - 1 : v = s[k + 1]
    BY <1>1, <1>2
  <2>3. \A k \in 1..Len(s) : k # 1 => k - 1 \in 1..Len(s) - 1 /\ (k - 1) + 1 = k BY <1>1
  <2>4. 1 \in 1..Len(s) /\ \A k \in 1..Len(s) - 1 : k + 1 \in 1..Len(s) BY <1>1
  <2>5. (\E k \in 1..Len(s) : v = s[k]) <=> v = s[1] \/ \E k \in 1..Len(s) - 1 : v = s[k + 1]
    BY ONLY <2>3, <2>4
  <2> QED BY <2>1, <2>2, <2>5, <1>1
<1> QED BY <1>1, <1>3 DEF Members

\* What the three steps that read an event do; no other touches one.
LEMMA LinkEventSteps ==
  ASSUME LinkTypes, Link!Next
  PROVE  \/ UNCHANGED <<inbox, taken>> /\ peer'.pushed = peer.pushed
         \/ /\ inbox # <<>> /\ taken' = Append(taken, Head(inbox)) /\ inbox' = Tail(inbox)
            /\ peer'.pushed = peer.pushed
         \/ inbox' = Append(inbox, peer.pushed + 1) /\ taken' = taken /\ peer'.pushed = peer.pushed + 1
         \/ taken' = Append(taken, peer.pushed + 1) /\ inbox' = inbox /\ peer'.pushed = peer.pushed + 1
<1> DEFINE Same == inbox' = inbox /\ taken' = taken /\ peer'.pushed = peer.pushed
           Polled == /\ inbox # <<>> /\ taken' = Append(taken, Head(inbox)) /\ inbox' = Tail(inbox)
                     /\ peer'.pushed = peer.pushed
           Kept == inbox' = Append(inbox, peer.pushed + 1) /\ taken' = taken /\ peer'.pushed = peer.pushed + 1
           Read == taken' = Append(taken, peer.pushed + 1) /\ inbox' = inbox /\ peer'.pushed = peer.pushed + 1
           Good == Same \/ Polled \/ Kept \/ Read
<1> SUFFICES Good OBVIOUS
<1>0. Link!Next /\ peer \in LinkPeers
  BY LinkFields
<1>1. CASE Link!Call
  BY <1>1, <1>0 DEF Link!Call, Link!Begin, LinkPeers
<1>2. CASE Link!PollQueued
  BY <1>2, <1>0 DEF Link!PollQueued, LinkPeers
<1>3. CASE Link!Unmapped
  BY <1>3, <1>0 DEF Link!Unmapped, LinkPeers
<1>4. CASE Link!AlreadyOpen
  BY <1>4, <1>0 DEF Link!AlreadyOpen, Link!GoesOn, LinkPeers
<1>5. CASE Link!BackingOff
  BY <1>5, <1>0 DEF Link!BackingOff, Link!GoesOn, Link!CanAttempt, LinkPeers
<1>6. CASE Link!ConnectFails
  BY <1>6, <1>0 DEF Link!ConnectFails, Link!GoesOn, Link!CanAttempt, LinkPeers
<1>7. CASE Link!ConnectOpens
  BY <1>7, <1>0 DEF Link!ConnectOpens, Link!GoesOn, Link!CanAttempt, LinkPeers
<1>8. CASE Link!Hello
  BY <1>8, <1>0 DEF Link!Hello, Link!HandshakeFails, LinkPeers
<1>9. CASE Link!NoHello
  BY <1>9, <1>0 DEF Link!NoHello, Link!HandshakeFails, LinkPeers
<1>10. CASE Link!Identified
  BY <1>10, <1>0 DEF Link!Identified, Link!Stands, LinkPeers
<1>11. CASE Link!Authenticate
  BY <1>11, <1>0 DEF Link!Authenticate, Link!Sends, LinkPeers
<1>12. CASE Link!Resubscribe
  BY <1>12, <1>0 DEF Link!Resubscribe, Link!Sends, LinkPeers
<1>13. CASE Link!HandshakeSendFails
  BY <1>13, <1>0 DEF Link!HandshakeSendFails, Link!HandshakeFails, LinkPeers
<1>14. CASE Link!Resubscribed
  BY <1>14, <1>0 DEF Link!Resubscribed, Link!Stands, LinkPeers
<1>15. CASE Link!Execute
  BY <1>15, <1>0 DEF Link!Execute, Link!Sends, LinkPeers
<1>16. CASE Link!SendFails
  BY <1>16, <1>0 DEF Link!SendFails, LinkPeers
<1>17. CASE Link!ConnectDone
  BY <1>17, <1>0 DEF Link!ConnectDone, LinkPeers
<1>18. CASE Link!ReadNothing
  BY <1>18, <1>0 DEF Link!ReadNothing, Link!Reading, Link!RequestFails, Link!HandshakeFails,
     LinkPeers
<1>19. CASE Link!ReadBroken
  BY <1>19, <1>0 DEF Link!ReadBroken, Link!Reading, Link!RequestFails, Link!HandshakeFails,
     LinkPeers
<1>20. CASE Link!LimitExceeded
  BY <1>20, <1>0 DEF Link!LimitExceeded, Link!RequestFails, Link!HandshakeFails, LinkPeers
<1>21. CASE Link!ReadEvent
  BY <1>21, <1>0 DEF Link!ReadEvent, Link!Reading, Link!Pushes, LinkPeers
<1>22. CASE Link!ReadOther
  BY <1>22, <1>0 DEF Link!ReadOther, Link!Reading, LinkPeers
<1>23. CASE Link!ReadAnswer
  BY <1>23, <1>0, LinkReadAnswer DEF LinkPeers, Link!Answered, Link!HandshakeFails,
     Link!RequestFails
<1>24. CASE Link!PollEvent
  BY <1>24, <1>0 DEF Link!PollEvent, Link!Pushes, LinkPeers
<1>25. CASE Link!PollNothing
  BY <1>25, <1>0 DEF Link!PollNothing, LinkPeers
<1>26. CASE Link!PollBroken
  BY <1>26, <1>0 DEF Link!PollBroken, LinkPeers
<1>27. CASE Link!Handles
  BY <1>27, <1>0, LinkHandles
<1>28. CASE Link!Tick
  BY <1>28, <1>0 DEF Link!Tick, LinkPeers
<1>29. ASSUME NEW n \in LinkNames, Link!Reidentify(n) PROVE Good
  BY <1>29, <1>0 DEF Link!Reidentify, LinkPeers
<1>30. ASSUME NEW n \in LinkNames, Link!Subscribe(n) PROVE Good
  BY <1>30, <1>0 DEF Link!Subscribe, LinkPeers
<1> QED BY <1>1, <1>2, <1>3, <1>4, <1>5, <1>6, <1>7, <1>8, <1>9, <1>10, <1>11, <1>12, <1>13,
           <1>14, <1>15, <1>16, <1>17, <1>18, <1>19, <1>20, <1>21, <1>22, <1>23, <1>24, <1>25,
           <1>26, <1>27, <1>28, <1>29, <1>30, <1>0 DEF Link!Next

\* Events are kept and given once.
LEMMA LinkEventsStep ==
  ASSUME LinkTypes, LinkEventsKept, Link!Next
  PROVE  LinkEventsKept'
<1>0. /\ inbox \in Seq(Nat) /\ taken \in Seq(Nat)
      /\ Members(taken) \cup Members(inbox) = 1..peer.pushed
      /\ Len(taken) + Len(inbox) = peer.pushed
  BY DEF LinkEventsKept, Link!EventsKept, Members
<1>6. Len(taken) \in Nat /\ Len(inbox) \in Nat /\ peer.pushed \in Nat /\ peer.pushed + 1 \in Nat
  BY <1>0, LinkFields
<1>1. 1..(peer.pushed + 1) = 1..peer.pushed \cup {peer.pushed + 1}
  BY <1>6
<1>2. CASE UNCHANGED <<inbox, taken>> /\ peer'.pushed = peer.pushed
  BY <1>2, <1>0 DEF LinkEventsKept, Link!EventsKept
<1>3. CASE /\ inbox # <<>> /\ taken' = Append(taken, Head(inbox)) /\ inbox' = Tail(inbox)
           /\ peer'.pushed = peer.pushed
  <2>1. /\ Head(inbox) \in Nat /\ inbox' \in Seq(Nat) /\ Len(inbox') = Len(inbox) - 1
        /\ Members(inbox) = {Head(inbox)} \cup Members(inbox')
    BY <1>3, <1>0, LinkTaken
  <2>2. /\ taken' \in Seq(Nat)
        /\ Len(taken') = Len(taken) + 1
        /\ Members(taken') = Members(taken) \cup {Head(inbox)}
    BY <1>3, <1>0, <2>1, LinkAppended
  <2>3. Members(taken') \cup Members(inbox') = 1..peer'.pushed BY <1>0, <1>3, <2>1, <2>2
  <2>4. Len(taken') + Len(inbox') = peer'.pushed BY <1>0, <1>6, <1>3, <2>1, <2>2
  <2> QED BY <2>1, <2>2, <2>3, <2>4 DEF LinkEventsKept, Link!EventsKept, Members
<1>4. CASE /\ inbox' = Append(inbox, peer.pushed + 1)
           /\ taken' = taken
           /\ peer'.pushed = peer.pushed + 1
  <2>1. /\ inbox' \in Seq(Nat)
        /\ Len(inbox') = Len(inbox) + 1
        /\ Members(inbox') = Members(inbox) \cup {peer.pushed + 1}
    BY <1>4, <1>0, <1>6, LinkAppended
  <2>2. /\ taken' \in Seq(Nat)
        /\ Len(taken') = Len(taken)
        /\ Members(taken') = Members(taken) BY <1>4, <1>0
  <2>3. Members(taken') \cup Members(inbox') = 1..peer'.pushed BY <1>0, <1>1, <1>4, <2>1, <2>2
  <2>4. Len(taken') + Len(inbox') = peer'.pushed BY <1>0, <1>6, <1>4, <2>1, <2>2
  <2> QED BY <2>1, <2>2, <2>3, <2>4 DEF LinkEventsKept, Link!EventsKept, Members
<1>5. CASE /\ taken' = Append(taken, peer.pushed + 1)
           /\ inbox' = inbox
           /\ peer'.pushed = peer.pushed + 1
  <2>1. /\ taken' \in Seq(Nat)
        /\ Len(taken') = Len(taken) + 1
        /\ Members(taken') = Members(taken) \cup {peer.pushed + 1}
    BY <1>5, <1>0, <1>6, LinkAppended
  <2>2. /\ inbox' \in Seq(Nat)
        /\ Len(inbox') = Len(inbox)
        /\ Members(inbox') = Members(inbox) BY <1>5, <1>0
  <2>3. Members(taken') \cup Members(inbox') = 1..peer'.pushed BY <1>0, <1>1, <1>5, <2>1, <2>2
  <2>4. Len(taken') + Len(inbox') = peer'.pushed BY <1>0, <1>6, <1>5, <2>1, <2>2
  <2> QED BY <2>1, <2>2, <2>3, <2>4 DEF LinkEventsKept, Link!EventsKept, Members
<1> QED BY <1>2, <1>3, <1>4, <1>5, LinkEventSteps

\* What a step may do to the session: nothing, an attempt that fails or begins
\* a handshake, a session that stands or one that is given up.
Stays == link' = link /\ (op'.pc \in Shaking <=> op.pc \in Shaking)
         /\ (op.pc \in Shaking => op'.started = op.started)
Begins == /\ op.pc = "begun" /\ ~link.open /\ time >= link.retryAt
          /\ link'.attempts = link.attempts + 1 /\ link'.last = time /\ ~link'.open
Misses == /\ Begins /\ op'.pc = "idle" /\ link'.failures = link.failures + 1
          /\ link'.retryAt = time + Link!DelayMs(link.failures + 1)
Shakes == Begins /\ op'.pc \in Shaking /\ op'.started = time /\ link'.failures = link.failures
GivesUp == /\ op'.pc = "idle" /\ ~link'.open /\ link'.failures = link.failures + 1
           /\ link'.attempts = link.attempts /\ link'.last = link.last
           /\ link'.retryAt = (IF op.pc \in Shaking THEN op.started ELSE time)
                                + Link!DelayMs(link.failures + 1)
ComesUp == /\ op'.pc = "connected" /\ link'.open /\ link'.failures = 0
           /\ link'.attempts = link.attempts /\ link'.last = link.last
           /\ op.pc = "identify" \/ (op.pc = "resubscribe" /\ op.todo = {})

\* Every step does one of these.
LEMMA LinkSteps ==
  ASSUME LinkTypes, Link!Next
  PROVE  Stays \/ Misses \/ Shakes \/ GivesUp \/ ComesUp
<1> DEFINE Good == Stays \/ Misses \/ Shakes \/ GivesUp \/ ComesUp
<1> SUFFICES Good OBVIOUS
<1>0. Link!Next /\ link \in LinkStates /\ op \in LinkOps /\ time \in Nat /\ op.started \in Nat
  BY LinkFields
<1>r. \A o : Link!Returns(o) => op'.pc = "idle"
  BY LinkReturns
<1>f. \A t \in Nat : /\ ~Link!FailedAt(t).open /\ Link!FailedAt(t).failures = link.failures + 1
                     /\ Link!FailedAt(t).attempts = link.attempts
                     /\ Link!FailedAt(t).last = link.last
                     /\ Link!FailedAt(t).retryAt = t + Link!DelayMs(link.failures + 1)
  BY <1>0 DEF Link!FailedAt, LinkStates
<1>c. /\ Link!Connected.open
      /\ Link!Connected.failures = 0
      /\ Link!Connected.attempts = link.attempts
      /\ Link!Connected.last = link.last
  BY <1>0 DEF Link!Connected, LinkStates
<1>h. ASSUME Link!HandshakeFails, op.pc \in Shaking PROVE GivesUp
  <2>1. link' = Link!FailedAt(op.started) /\ op'.pc = "idle"
    BY <1>h, <1>r DEF Link!HandshakeFails
  <2> QED BY <2>1, <1>h, <1>0, <1>f DEF GivesUp
<1>g. ASSUME link' = Link!FailedAt(time), op'.pc = "idle", op.pc \notin Shaking PROVE GivesUp
  BY <1>g, <1>0, <1>f DEF GivesUp
<1>k. ASSUME NEW k, Link!RequestFails(k), op.pc \in Shaking \cup {"await"} PROVE Good
  <2>1. CASE op.pc # "await"
    BY <2>1, <1>k, <1>h DEF Link!RequestFails
  <2>2. CASE op.pc = "await"
    BY <2>2, <1>k, <1>g, <1>r DEF Link!RequestFails, Stays, Shaking
  <2> QED BY <2>1, <2>2
<1>s. ASSUME NEW w, NEW n, NEW p, Link!Sends(w, n, p) PROVE op'.pc = p /\ op'.started = op.started
  BY <1>s, <1>0 DEF Link!Sends, LinkOps
<1>1. CASE Link!Call
  <2>1. ASSUME NEW k, NEW v, Link!Begin(k, v) PROVE Stays
    <3>1. op.pc = "idle" /\ link' = link BY <2>1 DEF Link!Begin
    <3>2. op'.pc = "begun" BY <2>1, LinkIdle DEF Link!Begin, LinkOps
    <3> QED BY <3>1, <3>2 DEF Stays, Shaking
  <2> QED BY <1>1, <2>1 DEF Link!Call
<1>2. CASE Link!PollQueued
  BY <1>2, <1>0, <1>r, <1>g DEF Link!PollQueued, LinkOps, LinkStates, Stays, Shaking
<1>3. CASE Link!Unmapped
  BY <1>3, <1>0, <1>r, <1>g DEF Link!Unmapped, LinkOps, LinkStates, Stays, Shaking
<1>4. CASE Link!AlreadyOpen
  BY <1>4, <1>0, <1>r, <1>g DEF Link!AlreadyOpen, Link!GoesOn, LinkOps, LinkStates, Stays, Shaking
<1>5. CASE Link!BackingOff
  BY <1>5, <1>0, <1>r, <1>g DEF Link!BackingOff, Link!GoesOn, Link!CanAttempt, LinkOps,
     LinkStates, Stays, Shaking
<1>6. CASE Link!ConnectFails
  <2>1. /\ op.pc = "begun" /\ ~link.open /\ time >= link.retryAt /\ op'.pc = "idle"
        /\ link' = [Link!FailedAt(time) EXCEPT !.attempts = Link!FailedAt(time).attempts + 1, !.last = time]
    BY <1>6, <1>r DEF Link!ConnectFails, Link!GoesOn, Link!CanAttempt
  <2>2. Link!FailedAt(time) \in LinkStates BY <1>0, LinkFailedAt
  <2>3. /\ link'.attempts = link.attempts + 1 /\ link'.last = time /\ ~link'.open
        /\ link'.failures = link.failures + 1
        /\ link'.retryAt = time + Link!DelayMs(link.failures + 1)
    BY <2>1, <2>2, <1>f, <1>0 DEF LinkStates
  <2> QED BY <2>1, <2>3 DEF Misses, Begins
<1>7. CASE Link!ConnectOpens
  <2>1. /\ op.pc = "begun" /\ ~link.open /\ time >= link.retryAt
        /\ link' = [link EXCEPT !.attempts = link.attempts + 1, !.last = time]
    BY <1>7 DEF Link!ConnectOpens, Link!GoesOn, Link!CanAttempt
  <2>2. op'.pc \in Shaking /\ op'.started = time
    BY <1>7, <1>0 DEF Link!ConnectOpens, LinkOps, Shaking
  <2>3. /\ link'.attempts = link.attempts + 1
        /\ link'.last = time
        /\ ~link'.open
        /\ link'.failures = link.failures
    BY <2>1, <1>0 DEF LinkStates
  <2> QED BY <2>1, <2>2, <2>3 DEF Shakes, Begins
<1>8. CASE Link!Hello
  BY <1>8, <1>0, <1>h DEF Link!Hello, LinkOps, Stays, Shaking
<1>9. CASE Link!NoHello
  BY <1>9, <1>h DEF Link!NoHello, Shaking
<1>10. CASE Link!Identified
  <2>1. op'.pc = "connected" /\ link' = Link!Connected
    BY <1>10, <1>0 DEF Link!Identified, Link!Stands, LinkOps
  <2> QED BY <1>10, <2>1, <1>c DEF Link!Identified, ComesUp
<1>11. CASE Link!Authenticate
  BY <1>11, <1>s DEF Link!Authenticate, Stays, Shaking
<1>12. CASE Link!Resubscribe
  BY <1>12, <1>s DEF Link!Resubscribe, Stays, Shaking
<1>13. CASE Link!HandshakeSendFails
  BY <1>13, <1>h DEF Link!HandshakeSendFails, Shaking
<1>14. CASE Link!Resubscribed
  <2>1. op'.pc = "connected" /\ link' = Link!Connected
    BY <1>14, <1>0 DEF Link!Resubscribed, Link!Stands, LinkOps
  <2> QED BY <1>14, <2>1, <1>c DEF Link!Resubscribed, ComesUp
<1>15. CASE Link!Execute
  BY <1>15, <1>s, <1>r DEF Link!Execute, Stays, Shaking
<1>16. CASE Link!SendFails
  BY <1>16, <1>0, <1>r, <1>g DEF Link!SendFails, LinkOps, LinkStates, Stays, Shaking
<1>17. CASE Link!ConnectDone
  BY <1>17, <1>0, <1>r, <1>g DEF Link!ConnectDone, LinkOps, LinkStates, Stays, Shaking
<1>18. CASE Link!ReadNothing
  BY <1>18, <1>k, <1>0 DEF Link!ReadNothing, Link!Reading, Stays, Shaking, LinkOps
<1>19. CASE Link!ReadBroken
  BY <1>19, <1>k DEF Link!ReadBroken, Link!Reading, Shaking
<1>20. CASE Link!LimitExceeded
  BY <1>20, <1>k DEF Link!LimitExceeded, Shaking
<1>21. CASE Link!ReadEvent
  BY <1>21, <1>0, <1>r, <1>g DEF Link!ReadEvent, Link!Reading, Link!Pushes, LinkOps, LinkStates,
     Stays, Shaking
<1>22. CASE Link!ReadOther
  BY <1>22, <1>0, <1>r, <1>g DEF Link!ReadOther, Link!Reading, LinkOps, LinkStates, Stays, Shaking
<1>23. CASE Link!ReadAnswer
  <2>0. op.pc \in {"handshake", "await"} BY <1>23 DEF Link!ReadAnswer, Link!Reading
  <2>1. ASSUME NEW a, Link!Answered(a) PROVE Stays
    BY <2>1, <2>0, <1>0, <1>r DEF Link!Answered, LinkOps, Stays, Shaking
  <2>2. ASSUME Link!HandshakeFails, op.pc # "await" PROVE GivesUp
    BY <2>2, <2>0, <1>h DEF Shaking
  <2>3. ASSUME NEW k, Link!RequestFails(k) PROVE Good
    BY <2>3, <2>0, <1>k DEF Shaking
  <2>4. ASSUME Link!Returns("failed"), link' = link, op.pc = "await" PROVE Stays
    BY <2>4, <1>r DEF Stays, Shaking
  <2> QED BY <1>23, <2>1, <2>2, <2>3, <2>4, LinkReadAnswer
<1>24. CASE Link!PollEvent
  BY <1>24, <1>0, <1>r, <1>g DEF Link!PollEvent, Link!Pushes, LinkOps, LinkStates, Stays, Shaking
<1>25. CASE Link!PollNothing
  BY <1>25, <1>0, <1>r, <1>g DEF Link!PollNothing, LinkOps, LinkStates, Stays, Shaking
<1>26. CASE Link!PollBroken
  BY <1>26, <1>0, <1>r, <1>g DEF Link!PollBroken, LinkOps, LinkStates, Stays, Shaking
<1>27. CASE Link!Handles
  BY <1>27, LinkHandles DEF Stays
<1>28. CASE Link!Tick
  BY <1>28, <1>0, <1>r, <1>g DEF Link!Tick, LinkOps, LinkStates, Stays, Shaking
<1>29. ASSUME NEW n \in LinkNames, Link!Reidentify(n) PROVE Good
  <2>1. op'.pc = op.pc /\ op.pc = "idle" BY <1>29, <1>0 DEF Link!Reidentify, LinkOps
  <2> QED BY <1>29, <2>1, <1>g DEF Link!Reidentify, Stays, Shaking
<1>30. ASSUME NEW n \in LinkNames, Link!Subscribe(n) PROVE Good
  <2>0. op.pc = "idle" BY <1>30 DEF Link!Subscribe
  <2>1. op'.pc \in {"idle", "await"}
    <3>1. CASE link.open
      <4>1. op' = [Link!Idle EXCEPT !.pc = "await", !.call = op.call + 1, !.kind = "subscribe",
                                    !.request = op.request + 1, !.budget = MaxMessages]
        BY <1>30, <3>1 DEF Link!Subscribe
      <4> QED BY <4>1, LinkIdle DEF LinkOps
    <3>2. CASE ~link.open
      <4>1. op' = [op EXCEPT !.call = op.call + 1] BY <1>30, <3>2 DEF Link!Subscribe
      <4> QED BY <4>1, <2>0, <1>0 DEF LinkOps
    <3> QED BY <3>1, <3>2
  <2> QED BY <1>30, <2>0, <2>1 DEF Link!Subscribe, Stays, Shaking
<1> QED BY <1>1, <1>2, <1>3, <1>4, <1>5, <1>6, <1>7, <1>8, <1>9, <1>10, <1>11, <1>12, <1>13,
           <1>14, <1>15, <1>16, <1>17, <1>18, <1>19, <1>20, <1>21, <1>22, <1>23, <1>24, <1>25,
           <1>26, <1>27, <1>28, <1>29, <1>30, <1>0 DEF Link!Next

\* Time does not go back.
LEMMA LinkClock == ASSUME LinkTypes, Link!Next PROVE time' \in Nat /\ time <= time'
<1> DEFINE Good == time' = time \/ time' = time + 1
<1>g. Good
  <2>0. Link!Next OBVIOUS
<2>1. CASE Link!Call
  BY <2>1, <2>0 DEF Link!Call, Link!Begin
<2>2. CASE Link!PollQueued
  BY <2>2, <2>0 DEF Link!PollQueued
<2>3. CASE Link!Unmapped
  BY <2>3, <2>0 DEF Link!Unmapped
<2>4. CASE Link!AlreadyOpen
  BY <2>4, <2>0 DEF Link!AlreadyOpen, Link!GoesOn
<2>5. CASE Link!BackingOff
  BY <2>5, <2>0 DEF Link!BackingOff, Link!GoesOn, Link!CanAttempt
<2>6. CASE Link!ConnectFails
  BY <2>6, <2>0 DEF Link!ConnectFails, Link!GoesOn, Link!CanAttempt
<2>7. CASE Link!ConnectOpens
  BY <2>7, <2>0 DEF Link!ConnectOpens, Link!GoesOn, Link!CanAttempt
<2>8. CASE Link!Hello
  BY <2>8, <2>0 DEF Link!Hello, Link!HandshakeFails
<2>9. CASE Link!NoHello
  BY <2>9, <2>0 DEF Link!NoHello, Link!HandshakeFails
<2>10. CASE Link!Identified
  BY <2>10, <2>0 DEF Link!Identified, Link!Stands
<2>11. CASE Link!Authenticate
  BY <2>11, <2>0 DEF Link!Authenticate, Link!Sends
<2>12. CASE Link!Resubscribe
  BY <2>12, <2>0 DEF Link!Resubscribe, Link!Sends
<2>13. CASE Link!HandshakeSendFails
  BY <2>13, <2>0 DEF Link!HandshakeSendFails, Link!HandshakeFails
<2>14. CASE Link!Resubscribed
  BY <2>14, <2>0 DEF Link!Resubscribed, Link!Stands
<2>15. CASE Link!Execute
  BY <2>15, <2>0 DEF Link!Execute, Link!Sends
<2>16. CASE Link!SendFails
  BY <2>16, <2>0 DEF Link!SendFails
<2>17. CASE Link!ConnectDone
  BY <2>17, <2>0 DEF Link!ConnectDone
<2>18. CASE Link!ReadNothing
  BY <2>18, <2>0 DEF Link!ReadNothing, Link!Reading, Link!RequestFails, Link!HandshakeFails
<2>19. CASE Link!ReadBroken
  BY <2>19, <2>0 DEF Link!ReadBroken, Link!Reading, Link!RequestFails, Link!HandshakeFails
<2>20. CASE Link!LimitExceeded
  BY <2>20, <2>0 DEF Link!LimitExceeded, Link!RequestFails, Link!HandshakeFails
<2>21. CASE Link!ReadEvent
  BY <2>21, <2>0 DEF Link!ReadEvent, Link!Reading, Link!Pushes
<2>22. CASE Link!ReadOther
  BY <2>22, <2>0 DEF Link!ReadOther, Link!Reading
<2>23. CASE Link!ReadAnswer
  BY <2>23, LinkReadAnswer DEF Link!Answered, Link!HandshakeFails, Link!RequestFails
<2>24. CASE Link!PollEvent
  BY <2>24, <2>0 DEF Link!PollEvent, Link!Pushes
<2>25. CASE Link!PollNothing
  BY <2>25, <2>0 DEF Link!PollNothing
<2>26. CASE Link!PollBroken
  BY <2>26, <2>0 DEF Link!PollBroken
<2>27. CASE Link!Handles
  BY <2>27, LinkHandles
<2>28. CASE Link!Tick
  BY <2>28, <2>0 DEF Link!Tick
<2>29. ASSUME NEW n \in LinkNames, Link!Reidentify(n) PROVE Good
  BY <2>29, <2>0 DEF Link!Reidentify
<2>30. ASSUME NEW n \in LinkNames, Link!Subscribe(n) PROVE Good
  BY <2>30, <2>0 DEF Link!Subscribe
<2> QED BY <2>1, <2>2, <2>3, <2>4, <2>5, <2>6, <2>7, <2>8, <2>9, <2>10, <2>11, <2>12, <2>13,
           <2>14, <2>15, <2>16, <2>17, <2>18, <2>19, <2>20, <2>21, <2>22, <2>23, <2>24, <2>25,
           <2>26, <2>27, <2>28, <2>29, <2>30, <2>0 DEF Link!Next
<1> QED BY <1>g, LinkFields

\* Attempts keep their distance.
LEMMA LinkSpacedStep ==
  ASSUME LinkTypes, LinkSpaced, Link!Next
  PROVE  LinkSpaced' /\ Link!SpacedStep
<1>0. /\ time \in Nat
      /\ op.started \in Nat
      /\ link.failures \in Nat
      /\ link.retryAt \in Nat
      /\ link.last \in Nat
      /\ link.attempts \in Nat
  BY LinkFields
<1>1. time' \in Nat /\ time <= time' BY LinkClock
<1>2. /\ Link!DelayMs(link.failures) \in Nat /\ Link!DelayMs(link.failures + 1) \in Nat
      /\ link.failures > 0 => Link!DelayMs(link.failures)
                  = Link!Min({InitialDelay * 2 ^ Link!Min({link.failures - 1, 20}), MaxDelay})
  <2>1. link.failures + 1 \in Nat BY <1>0
  <2> QED BY <1>0, <2>1, LinkDelay
<1>3. /\ link.last <= time
      /\ op.pc \in Shaking => op.started = link.last
      /\ op.pc \notin Shaking /\ link.failures > 0 =>
            link.retryAt >= link.last + Link!DelayMs(link.failures)
  BY DEF LinkSpaced
<1>4. "idle" \notin Shaking /\ "begun" \notin Shaking /\ "connected" \notin Shaking BY DEF Shaking
<1> DEFINE d == Link!DelayMs(link.failures)
           w == Link!Min({InitialDelay * 2 ^ Link!Min({link.failures - 1, 20}), MaxDelay})
<1>5. CASE Stays
  BY <1>5, <1>0, <1>1, <1>3 DEF Stays, LinkSpaced, Link!SpacedStep
<1>6. ASSUME Begins PROVE Link!SpacedStep
  <2>1. CASE link.failures = 0 BY <2>1 DEF Link!SpacedStep
  <2>2. CASE link.failures > 0
    <3>1. time >= link.last + d BY <1>6, <1>3, <1>4, <1>0, <1>2, <2>2 DEF Begins
    <3>2. d = w BY <1>2, <2>2
    <3>3. time >= link.last + w BY ONLY <3>1, <3>2
    <3> HIDE DEF d
    <3> QED BY <3>3 DEF Link!SpacedStep
  <2> QED BY <2>1, <2>2, <1>0
<1>7. CASE Misses
  <2>1. link'.last <= time' BY <1>7, <1>0, <1>1 DEF Misses, Begins
  <2>2. op'.pc \notin Shaking BY <1>7, <1>4 DEF Misses
  <2>3. link'.retryAt >= link'.last + Link!DelayMs(link'.failures)
    <3>1. link'.retryAt = time + Link!DelayMs(link.failures + 1) /\ link'.last = time
          /\ link'.failures = link.failures + 1
      BY <1>7 DEF Misses, Begins
    <3>2. link'.retryAt = link'.last + Link!DelayMs(link'.failures)
      BY <3>1
    <3>3. link'.retryAt \in Nat BY <3>1, <1>0, <1>2
    <3> QED BY <3>2, <3>3
  <2>4. Link!SpacedStep BY <1>6, <1>7 DEF Misses
  <2> QED BY <2>1, <2>2, <2>3, <2>4 DEF LinkSpaced
<1>8. CASE Shakes
  <2>1. link'.last <= time' BY <1>8, <1>0, <1>1 DEF Shakes, Begins
  <2>2. op'.pc \in Shaking /\ op'.started = link'.last BY <1>8 DEF Shakes, Begins
  <2>3. Link!SpacedStep BY <1>6, <1>8 DEF Shakes
  <2> QED BY <2>1, <2>2, <2>3 DEF LinkSpaced
<1>9. CASE GivesUp
  <2>1. link'.last <= time' BY <1>9, <1>0, <1>1, <1>3 DEF GivesUp
  <2>2. op'.pc \notin Shaking BY <1>9, <1>4 DEF GivesUp
  <2> DEFINE t == IF op.pc \in Shaking THEN op.started ELSE time
  <2>3. t >= link.last /\ t \in Nat BY <1>0, <1>3
  <2>4. link'.retryAt = t + Link!DelayMs(link'.failures) /\ link'.last = link.last
        /\ link'.failures = link.failures + 1
    BY <1>9 DEF GivesUp
  <2>7. Link!DelayMs(link'.failures) \in Nat BY <2>4, <1>2
  <2> HIDE DEF t
  <2>5. link'.retryAt >= link'.last + Link!DelayMs(link'.failures)
    BY <2>3, <2>4, <2>7, <1>0
  <2>6. Link!SpacedStep BY <2>4, <1>9 DEF Link!SpacedStep, GivesUp
  <2> QED BY <2>1, <2>2, <2>5, <2>6 DEF LinkSpaced
<1>10. CASE ComesUp
  <2>1. link'.last <= time' BY <1>10, <1>0, <1>1, <1>3 DEF ComesUp
  <2>2. op'.pc \notin Shaking /\ link'.failures = 0 BY <1>10, <1>4 DEF ComesUp
  <2>3. Link!SpacedStep BY <1>10 DEF Link!SpacedStep, ComesUp
  <2> QED BY <2>1, <2>2, <2>3 DEF LinkSpaced
<1> QED BY <1>5, <1>7, <1>8, <1>9, <1>10, LinkSteps

\* What a step does to requests and answers, to the call and to what is known
\* of it.
Between == {"idle", "await"}
Quiet == peer'.sent = peer.sent /\ peer'.owed \subseteq peer.owed /\ done' = done
           /\ op'.request = op.request
GoesAlong == /\ Quiet /\ result' = result /\ op'.call = op.call /\ op'.kind = op.kind
             /\ op'.pc = op.pc \/ (op.pc \notin Between /\ op'.pc \notin Between)
Starts == /\ Quiet /\ result' = result /\ op'.call = op.call + 1 /\ op.pc = "idle"
          /\ op'.pc \notin Between
EndsWith(o) == /\ Quiet /\ op'.call = op.call /\ op'.pc = "idle" /\ op.pc # "idle"
               /\ result' = [result EXCEPT ![op.call] = o]
               /\ o = "refused" => op.pc # "await"
               /\ o = "performed" => /\ op.pc = "await" /\ op.kind = "execute"
                                     /\ \E a \in peer.owed : a.id = op.request /\ a.verdict = "ok"
AtOnce(o) == /\ Quiet /\ op'.call = op.call + 1 /\ op.pc = "idle" /\ op'.pc = "idle"
             /\ result' = [result EXCEPT ![op.call + 1] = o]
Posts(m) == /\ peer'.sent = peer.sent \cup {m} /\ peer'.owed = peer.owed /\ done' = done
            /\ result' = result /\ m.id = op.request + 1 /\ op'.request = op.request + 1
            /\ m.call = op'.call
Asks(m) == /\ Posts(m) /\ op'.call = op.call /\ op'.kind = op.kind /\ op.pc \notin Between
              /\ \/ m.what # "action" /\ op'.pc \notin Between
                 \/ m.what = "action" /\ op'.pc = "await"
Subscribes(m) == /\ Posts(m) /\ op'.call = op.call + 1 /\ op'.kind = "subscribe"
                 /\ op.pc = "idle" /\ op'.pc = "await" /\ m.what = "subscribe"
Handled(r, v) ==
    /\ op' = op /\ result' = result /\ peer'.sent = peer.sent \ {r}
    /\ \A a \in peer'.owed \ peer.owed : a = [id |-> r.id, what |-> r.what, verdict |-> v]
    /\ done' = IF r.what = "action" /\ v = "ok"
               THEN [done EXCEPT ![r.call] = done[r.call] + 1] ELSE done
MailStep ==
    \/ GoesAlong \/ Starts \/ (\E o \in Outcomes : EndsWith(o))
    \/ (\E o \in {"ok", "failed"} : AtOnce(o))
    \/ (\E m \in Messages : Asks(m) \/ Subscribes(m))
    \/ (\E r \in peer.sent, v \in {"ok", "rejected", "denied"} : Handled(r, v))

\* Every step is one of these.
LEMMA LinkMail ==
  ASSUME LinkTypes, Link!Next
  PROVE  MailStep
<1>0. /\ Link!Next
      /\ peer \in LinkPeers
      /\ op \in LinkOps
      /\ op.request \in Nat
      /\ op.call \in Nat
      /\ link.attempts \in Nat
  BY LinkFields
<1>r. \A o : Link!Returns(o) =>
               /\ op'.pc = "idle" /\ op'.call = op.call /\ op'.request = op.request
               /\ result' = [result EXCEPT ![op.call] = o]
  BY <1>0, LinkIdle DEF Link!Returns, Link!Idle
<1>o. ASSUME NEW o \in {"none", "ok", "refused", "failed"}, Link!Returns(o), op.pc # "idle", peer'.sent = peer.sent,
             peer'.owed \subseteq peer.owed, done' = done, o = "refused" => op.pc # "await"
      PROVE  MailStep
  <2>1. EndsWith(o) BY <1>o, <1>r DEF EndsWith, Quiet
  <2> QED BY <2>1 DEF MailStep, Outcomes
<1>e. [peer EXCEPT !.owed = {}, !.heard = {}].sent = peer.sent
      /\ [peer EXCEPT !.owed = {}, !.heard = {}].owed \subseteq peer.owed
      /\ [peer EXCEPT !.heard = wanted].sent = peer.sent
      /\ [peer EXCEPT !.heard = wanted].owed \subseteq peer.owed
      /\ \A a : [peer EXCEPT !.owed = peer.owed \ {a}].sent = peer.sent
             /\ [peer EXCEPT !.owed = peer.owed \ {a}].owed \subseteq peer.owed
      /\ [peer EXCEPT !.pushed = @ + 1].sent = peer.sent
      /\ [peer EXCEPT !.pushed = @ + 1].owed \subseteq peer.owed
  BY <1>0 DEF LinkPeers
<1>h. ASSUME Link!HandshakeFails, op.pc \in Shaking PROVE MailStep
  BY <1>h, <1>e, <1>o DEF Link!HandshakeFails, Shaking
<1>k. ASSUME NEW k, Link!RequestFails(k), op.pc \in Shaking \cup {"await"} PROVE MailStep
  BY <1>k, <1>e, <1>h, <1>o DEF Link!RequestFails, Shaking
<1>s. ASSUME NEW w \in {"token", "auth", "subscribe", "action"}, NEW n \in LinkNames \cup {Link!NoName}, NEW p,
             Link!Sends(w, n, p), op.pc \notin Between, done' = done, result' = result,
             \/ w # "action" /\ p \notin Between
             \/ w = "action" /\ p = "await"
      PROVE  MailStep
  <2> DEFINE m == [id |-> op.request + 1, what |-> w, name |-> n, call |-> op.call,
                   attempt |-> link.attempts]
  <2>1. m \in Messages
    <3>1. op.request + 1 \in Nat /\ op.call + 1 \in Nat BY <1>0
    <3> QED BY <1>0, <3>1, LinkMessages
  <2>2. m.id = op.request + 1 /\ m.what = w /\ m.call = op.call OBVIOUS
  <2>3. peer' = [peer EXCEPT !.sent = peer.sent \cup {m}] BY <1>s DEF Link!Sends
  <2>4. op'.pc = p /\ op'.call = op.call /\ op'.kind = op.kind /\ op'.request = op.request + 1
    BY <1>s, <1>0 DEF Link!Sends, LinkOps
  <2> HIDE DEF m
  <2>5. peer'.sent = peer.sent \cup {m} /\ peer'.owed = peer.owed BY <2>3, <1>0 DEF LinkPeers
  <2>6. Asks(m) BY <1>s, <2>2, <2>4, <2>5 DEF Asks, Posts
  <2> QED BY <2>1, <2>6 DEF MailStep
<1>g. ASSUME peer'.sent = peer.sent, peer'.owed \subseteq peer.owed, done' = done, result' = result,
             op'.request = op.request, op'.call = op.call, op'.kind = op.kind,
             op'.pc = op.pc \/ (op.pc \notin Between /\ op'.pc \notin Between)
      PROVE  MailStep
  BY <1>g DEF MailStep, GoesAlong, Quiet
<1>1. CASE Link!Call
  <2>1. ASSUME NEW k, NEW v, Link!Begin(k, v) PROVE Starts
    <3>1. op.pc = "idle" /\ peer' = peer /\ done' = done /\ result' = result
      BY <2>1 DEF Link!Begin
    <3>2. op'.pc = "begun" /\ op'.call = op.call + 1 /\ op'.request = op.request
      BY <2>1, LinkIdle DEF Link!Begin, LinkOps
    <3> QED BY <3>1, <3>2 DEF Starts, Quiet, Between
  <2> QED BY <1>1, <2>1 DEF Link!Call, MailStep
<1>2. CASE Link!PollQueued
  BY <1>2, <1>0, <1>r, <1>e, <1>o, <1>g DEF Link!PollQueued, LinkOps, Between
<1>3. CASE Link!Unmapped
  BY <1>3, <1>0, <1>r, <1>e, <1>o, <1>g DEF Link!Unmapped, LinkOps, Between
<1>4. CASE Link!AlreadyOpen
  BY <1>4, <1>0, <1>r, <1>e, <1>o, <1>g DEF Link!AlreadyOpen, Link!GoesOn, LinkOps, Between
<1>5. CASE Link!BackingOff
  BY <1>5, <1>0, <1>r, <1>e, <1>o, <1>g DEF Link!BackingOff, Link!GoesOn, Link!CanAttempt,
     LinkOps, Between
<1>6. CASE Link!ConnectFails
  BY <1>6, <1>0, <1>r, <1>e, <1>o, <1>g DEF Link!ConnectFails, Link!GoesOn, Link!CanAttempt,
     LinkOps, Between
<1>7. CASE Link!ConnectOpens
  BY <1>7, <1>0, <1>r, <1>e, <1>o, <1>g DEF Link!ConnectOpens, Link!GoesOn, Link!CanAttempt,
     LinkOps, Between
<1>8. CASE Link!Hello
  BY <1>8, <1>0, <1>h, <1>e, <1>g DEF Link!Hello, LinkOps, Between, Shaking
<1>9. CASE Link!NoHello
  BY <1>9, <1>h DEF Link!NoHello, Shaking
<1>10. CASE Link!Identified
  BY <1>10, <1>0, <1>g DEF Link!Identified, Link!Stands, LinkOps, Between
<1>11. CASE Link!Authenticate
  BY <1>11, <1>s DEF Link!Authenticate, Between
<1>12. CASE Link!Resubscribe
  BY <1>12, <1>s, LinkFields DEF Link!Resubscribe, Between
<1>13. CASE Link!HandshakeSendFails
  BY <1>13, <1>h DEF Link!HandshakeSendFails, Shaking
<1>14. CASE Link!Resubscribed
  BY <1>14, <1>0, <1>g DEF Link!Resubscribed, Link!Stands, LinkOps, Between
<1>15. CASE Link!Execute
  BY <1>15, <1>s, <1>o DEF Link!Execute, Between
<1>16. CASE Link!SendFails
  BY <1>16, <1>0, <1>r, <1>e, <1>o, <1>g DEF Link!SendFails, LinkOps, Between
<1>17. CASE Link!ConnectDone
  BY <1>17, <1>0, <1>r, <1>e, <1>o, <1>g DEF Link!ConnectDone, LinkOps, Between
<1>18. CASE Link!ReadNothing
  BY <1>18, <1>k, <1>g, <1>0 DEF Link!ReadNothing, Link!Reading, Shaking, LinkOps
<1>19. CASE Link!ReadBroken
  BY <1>19, <1>k DEF Link!ReadBroken, Link!Reading, Shaking
<1>20. CASE Link!LimitExceeded
  BY <1>20, <1>k DEF Link!LimitExceeded, Shaking
<1>21. CASE Link!ReadEvent
  BY <1>21, <1>0, <1>r, <1>e, <1>o, <1>g DEF Link!ReadEvent, Link!Reading, Link!Pushes, LinkOps,
     Between
<1>22. CASE Link!ReadOther
  BY <1>22, <1>0, <1>r, <1>e, <1>o, <1>g DEF Link!ReadOther, Link!Reading, LinkOps, Between
<1>23. CASE Link!ReadAnswer
  <2>0. op.pc \in {"handshake", "await"} BY <1>23 DEF Link!ReadAnswer, Link!Reading
  <2>1. ASSUME NEW a \in peer.owed, a.id = op.request, a.verdict = "ok", Link!Answered(a) PROVE MailStep
    <3>1. peer' = [peer EXCEPT !.owed = peer.owed \ {a}] /\ done' = done BY <2>1 DEF Link!Answered
    <3>2. peer'.sent = peer.sent /\ peer'.owed \subseteq peer.owed BY <3>1, <1>e
    <3>3. CASE op.pc = "await" /\ op.kind = "execute"
      <4>1. EndsWith("performed") BY <2>1, <3>1, <3>2, <3>3, <1>r DEF Link!Answered, EndsWith,
                                     Quiet
      <4> QED BY <4>1 DEF MailStep, Outcomes
    <3>4. CASE op.pc = "await" /\ op.kind # "execute"
      BY <2>1, <3>1, <3>2, <3>4, <1>o DEF Link!Answered
    <3>5. CASE op.pc # "await"
      BY <2>1, <3>1, <3>2, <3>5, <2>0, <1>g, <1>0 DEF Link!Answered, LinkOps, Between
    <3> QED BY <3>3, <3>4, <3>5
  <2>2. ASSUME Link!HandshakeFails, op.pc # "await" PROVE MailStep
    BY <2>2, <2>0, <1>h DEF Shaking
  <2>3. ASSUME NEW k, Link!RequestFails(k) PROVE MailStep
    BY <2>3, <2>0, <1>k DEF Shaking
  <2>4. ASSUME NEW a, Link!Returns("failed"), op.pc = "await", done' = done,
               peer' = [peer EXCEPT !.owed = peer.owed \ {a}] PROVE MailStep
    BY <2>4, <1>e, <1>o
  <2> QED BY <1>23, <2>1, <2>2, <2>3, <2>4, LinkReadAnswer
<1>24. CASE Link!PollEvent
  BY <1>24, <1>0, <1>r, <1>e, <1>o, <1>g DEF Link!PollEvent, Link!Pushes, LinkOps, Between
<1>25. CASE Link!PollNothing
  <2>1. op.pc = "connected" /\ done' = done BY <1>25 DEF Link!PollNothing
  <2>2. PICK o \in {"none", "failed"} : Link!Returns(o) BY <1>25 DEF Link!PollNothing
  <2>3. peer'.sent = peer.sent /\ peer'.owed \subseteq peer.owed
    BY <1>25, <1>e DEF Link!PollNothing
  <2> QED BY <2>1, <2>2, <2>3, <1>o
<1>26. CASE Link!PollBroken
  BY <1>26, <1>0, <1>r, <1>e, <1>o, <1>g DEF Link!PollBroken, LinkOps, Between
<1>27. CASE Link!Handles
  <2>1. PICK r \in peer.sent, v \in {"ok", "rejected", "denied"}, here \in BOOLEAN :
           /\ peer'.sent = peer.sent \ {r}
           /\ peer'.owed = IF here THEN peer.owed \cup {[id |-> r.id, what |-> r.what, verdict |-> v]}
                           ELSE peer.owed
           /\ done' = IF r.what = "action" /\ v = "ok"
                      THEN [done EXCEPT ![r.call] = done[r.call] + 1] ELSE done
           /\ UNCHANGED <<op, result>>
    BY <1>27, LinkHandles
  <2>2. Handled(r, v) BY <2>1 DEF Handled
  <2> QED BY <2>2 DEF MailStep
<1>28. CASE Link!Tick
  BY <1>28, <1>0, <1>r, <1>e, <1>o, <1>g DEF Link!Tick, LinkOps, Between
<1>29. ASSUME NEW n \in LinkNames, Link!Reidentify(n) PROVE MailStep
  <2>1. /\ op'.pc = "idle"
        /\ op.pc = "idle"
        /\ op'.call = op.call + 1
        /\ op'.request = op.request
        /\ done' = done
    BY <1>29, <1>0 DEF Link!Reidentify, LinkOps
  <2>2. /\ [peer EXCEPT !.heard = {n}].sent = peer.sent
        /\ [peer EXCEPT !.heard = {n}].owed = peer.owed
    BY <1>0 DEF LinkPeers
  <2>3. peer'.sent = peer.sent /\ peer'.owed \subseteq peer.owed
    BY <1>29, <2>2, <1>e DEF Link!Reidentify
  <2>4. PICK o \in {"ok", "failed"} : result' = [result EXCEPT ![op.call + 1] = o]
    BY <1>29 DEF Link!Reidentify
  <2>5. AtOnce(o) BY <2>1, <2>3, <2>4 DEF AtOnce, Quiet
  <2> QED BY <2>5 DEF MailStep
<1>30. ASSUME NEW n \in LinkNames, Link!Subscribe(n) PROVE MailStep
  <2>0. op.pc = "idle" /\ done' = done BY <1>30 DEF Link!Subscribe
  <2>1. CASE link.open
    <3> DEFINE m == [id |-> op.request + 1, what |-> "subscribe", name |-> n, call |-> op.call + 1,
                     attempt |-> link.attempts]
    <3>1. op' = [Link!Idle EXCEPT !.pc = "await", !.call = op.call + 1, !.kind = "subscribe",
                                  !.request = op.request + 1, !.budget = MaxMessages]
          /\ peer' = [peer EXCEPT !.sent = peer.sent \cup {m}] /\ result' = result
      BY <1>30, <2>1 DEF Link!Subscribe
    <3>2. /\ op'.pc = "await"
          /\ op'.call = op.call + 1
          /\ op'.kind = "subscribe"
          /\ op'.request = op.request + 1
      BY <3>1, LinkIdle DEF LinkOps
    <3>3. m \in Messages
      <4>1. op.request + 1 \in Nat /\ op.call + 1 \in Nat BY <1>0
      <4> QED BY <1>0, <4>1, LinkMessages
    <3>4. m.id = op.request + 1 /\ m.what = "subscribe" /\ m.call = op.call + 1 OBVIOUS
    <3> HIDE DEF m
    <3>5. peer'.sent = peer.sent \cup {m} /\ peer'.owed = peer.owed BY <3>1, <1>0 DEF LinkPeers
    <3>6. Subscribes(m) BY <2>0, <3>1, <3>2, <3>4, <3>5 DEF Subscribes, Posts
    <3> QED BY <3>3, <3>6 DEF MailStep
  <2>2. CASE ~link.open
    <3>1. /\ op' = [op EXCEPT !.call = op.call + 1]
          /\ result' = [result EXCEPT ![op.call + 1] = "ok"]
          /\ peer' = peer
      BY <1>30, <2>2 DEF Link!Subscribe
    <3>2. op'.pc = "idle" /\ op'.call = op.call + 1 /\ op'.request = op.request
      BY <3>1, <2>0, <1>0 DEF LinkOps
    <3>3. AtOnce("ok") BY <2>0, <3>1, <3>2 DEF AtOnce, Quiet
    <3> QED BY <3>3 DEF MailStep
  <2> QED BY <2>1, <2>2
<1> QED BY <1>1, <1>2, <1>3, <1>4, <1>5, <1>6, <1>7, <1>8, <1>9, <1>10, <1>11, <1>12, <1>13,
           <1>14, <1>15, <1>16, <1>17, <1>18, <1>19, <1>20, <1>21, <1>22, <1>23, <1>24, <1>25,
           <1>26, <1>27, <1>28, <1>29, <1>30, <1>0 DEF Link!Next

\* Ids are given once.
LEMMA LinkIdsStep ==
  ASSUME LinkTypes, LinkTypes', LinkIds, MailStep
  PROVE  LinkIds'
<1>0. /\ \A r \in peer.sent : r.id \in Nat /\ r.call \in Nat
      /\ \A a \in peer.owed : a.id \in Nat
      /\ op.request \in Nat /\ op.call \in Nat
      /\ \A r \in peer.sent : r.id <= op.request /\ r.call \in 1..op.call
      /\ \A a \in peer.owed : a.id <= op.request
      /\ \A r, s \in peer.sent : r.id = s.id => r = s
      /\ \A a, b \in peer.owed : a.id = b.id => a = b
      /\ \A r \in peer.sent, a \in peer.owed : r.id # a.id
  BY LinkFields DEF LinkIds, Messages, Answers
<1>1. ASSUME Quiet, op'.call = op.call \/ op'.call = op.call + 1 PROVE LinkIds'
  BY <1>0, <1>1 DEF LinkIds, Quiet
<1>2. ASSUME NEW m \in Messages, Posts(m), op'.call = op.call \/ op'.call = op.call + 1, op'.call >= 1
      PROVE  LinkIds'
  BY <1>0, <1>2 DEF LinkIds, Posts
<1>3. ASSUME NEW r \in peer.sent, NEW v \in {"ok", "rejected", "denied"}, Handled(r, v) PROVE LinkIds'
  BY <1>0, <1>3 DEF LinkIds, Handled
<1>4. op'.pc # "idle" => op'.call >= 1 BY DEF LinkTypes
<1> QED BY <1>1, <1>2, <1>3, <1>4
        DEF MailStep, GoesAlong, Starts, EndsWith, AtOnce, Asks, Subscribes, Between

\* What a caller is told of an action is what was done.
LEMMA LinkActionsStep ==
  ASSUME LinkTypes, LinkTypes', LinkIds, LinkActions, LinkAwaits, MailStep
  PROVE  LinkActions'
<1> USE DEF Between
<1>0. /\ \A r, s \in peer.sent :
            r.what = "action" /\ s.what = "action" /\ r.call = s.call => r = s
      /\ \A r \in peer.sent : r.what = "action" =>
            done[r.call] = 0 /\ result[r.call] # "refused"
      /\ \A c \in 1..MaxCalls : done[c] <= 1 /\ (result[c] = "refused" => done[c] = 0)
      /\ \A c \in 1..MaxCalls : result[c] = "performed" => done[c] = 1
      /\ \A c \in 1..MaxCalls :
            /\ c > op.call => done[c] = 0
            /\ c > op.call \/ (c = op.call /\ op.pc # "idle") => result[c] = "none"
      /\ op.pc \notin {"idle", "await"} =>
            /\ done[op.call] = 0
            /\ \A r \in peer.sent : r.what = "action" => r.call # op.call
  BY DEF LinkActions, Link!NoReplay, Link!OkMeansDone, Link!Calls
<1>t. /\ op.call \in Nat
      /\ op.call <= MaxCalls
      /\ op'.call \in Nat
      /\ op'.call <= MaxCalls
      /\ MaxCalls \in Nat
      /\ op.pc # "idle" => op.call >= 1
      /\ done \in [1..MaxCalls -> Nat] /\ result \in [1..MaxCalls -> Outcomes]
      /\ \A r \in peer.sent : r.call \in 1..op.call
      /\ \A r \in peer.sent : r.call \in 1..MaxCalls
  <2>1. /\ op.call \in Nat
        /\ op.call <= MaxCalls
        /\ op'.call \in Nat
        /\ op'.call <= MaxCalls
        /\ MaxCalls \in Nat
    BY LinkFields, LinkBounds DEF LinkTypes, LinkOps
  <2>2. \A r \in peer.sent : r.call \in 1..op.call BY DEF LinkIds
  <2>3. 1..op.call \subseteq 1..MaxCalls BY <2>1
  <2> QED BY <2>1, <2>2, <2>3 DEF LinkTypes
<1> DEFINE Good ==
      /\ \A r, s \in peer'.sent :
            r.what = "action" /\ s.what = "action" /\ r.call = s.call => r = s
      /\ \A r \in peer'.sent : r.what = "action" =>
            done'[r.call] = 0 /\ result'[r.call] # "refused"
      /\ \A c \in 1..MaxCalls : done'[c] <= 1 /\ (result'[c] = "refused" => done'[c] = 0)
      /\ \A c \in 1..MaxCalls : result'[c] = "performed" => done'[c] = 1
      /\ \A c \in 1..MaxCalls :
            /\ c > op'.call => done'[c] = 0
            /\ c > op'.call \/ (c = op'.call /\ op'.pc # "idle") => result'[c] = "none"
      /\ op'.pc \notin {"idle", "await"} =>
            /\ done'[op'.call] = 0
            /\ \A r \in peer'.sent : r.what = "action" => r.call # op'.call
<1>1. CASE GoesAlong
  <2> Good BY <1>1, <1>0, <1>t DEF GoesAlong, Quiet
  <2> QED BY DEF LinkActions, Link!NoReplay, Link!OkMeansDone, Link!Calls
<1>2. CASE Starts
  <2> Good BY <1>2, <1>0, <1>t DEF Starts, Quiet
  <2> QED BY DEF LinkActions, Link!NoReplay, Link!OkMeansDone, Link!Calls
<1>3. ASSUME NEW o \in Outcomes, EndsWith(o) PROVE LinkActions'
  <2>1. o = "performed" => done[op.call] = 1
    BY <1>3 DEF EndsWith, LinkAwaits
  <2> Good BY <1>3, <1>0, <1>t, <2>1 DEF EndsWith, Quiet
  <2> QED BY DEF LinkActions, Link!NoReplay, Link!OkMeansDone, Link!Calls
<1>4. ASSUME NEW o \in {"ok", "failed"}, AtOnce(o) PROVE LinkActions'
  <2> Good BY <1>4, <1>0, <1>t DEF AtOnce, Quiet
  <2> QED BY DEF LinkActions, Link!NoReplay, Link!OkMeansDone, Link!Calls
<1>5. ASSUME NEW m \in Messages, Asks(m) PROVE LinkActions'
  <2> Good BY <1>5, <1>0, <1>t DEF Asks, Posts
  <2> QED BY DEF LinkActions, Link!NoReplay, Link!OkMeansDone, Link!Calls
<1>6. ASSUME NEW m \in Messages, Subscribes(m) PROVE LinkActions'
  <2> Good BY <1>6, <1>0, <1>t DEF Subscribes, Posts
  <2> QED BY DEF LinkActions, Link!NoReplay, Link!OkMeansDone, Link!Calls
<1>7. ASSUME NEW r \in peer.sent, NEW v \in {"ok", "rejected", "denied"}, Handled(r, v) PROVE LinkActions'
  <2> Good BY <1>7, <1>0, <1>t DEF Handled
  <2> QED BY DEF LinkActions, Link!NoReplay, Link!OkMeansDone, Link!Calls
<1> QED BY <1>1, <1>2, <1>3, <1>4, <1>5, <1>6, <1>7 DEF MailStep

\* The answer that is awaited is its own.
LEMMA LinkAwaitsStep ==
  ASSUME LinkTypes, LinkTypes', LinkIds, LinkActions, LinkAwaits, MailStep
  PROVE  LinkAwaits'
<1> SUFFICES ASSUME op'.pc = "await", op'.kind = "execute" PROVE LinkAwaits' BY DEF LinkAwaits
<1>0. /\ op.request \in Nat
      /\ \A r \in peer.sent : r.id \in Nat /\ r.id <= op.request
      /\ \A a \in peer.owed : a.id \in Nat /\ a.id <= op.request
      /\ \A r, s \in peer.sent : r.id = s.id => r = s
      /\ \A r \in peer.sent, a \in peer.owed : r.id # a.id
  BY LinkFields DEF LinkIds, Messages, Answers
<1>1. CASE GoesAlong
  BY <1>1 DEF GoesAlong, Quiet, LinkAwaits, Between
<1>2. ASSUME NEW m \in Messages, Asks(m) PROVE LinkAwaits'
  <2>1. m.what = "action" /\ m.call = op'.call /\ m.id = op'.request /\ op'.call = op.call
    BY <1>2 DEF Asks, Posts, Between
  <2>2. \A r \in peer.sent : r.what = "action" => r.call # op.call
    BY <1>2 DEF Asks, LinkActions, Between
  <2>3. peer'.sent = peer.sent \cup {m} /\ peer'.owed = peer.owed /\ op'.request = op.request + 1
    BY <1>2 DEF Asks, Posts
  <2> QED BY <2>1, <2>2, <2>3, <1>0 DEF LinkAwaits
<1>3. ASSUME NEW r \in peer.sent, NEW v \in {"ok", "rejected", "denied"}, Handled(r, v) PROVE LinkAwaits'
  <2>1. /\ op' = op /\ peer'.sent = peer.sent \ {r}
        /\ \A a \in peer'.owed : a \in peer.owed \/ (a.id = r.id /\ a.verdict = v)
    BY <1>3 DEF Handled
  <2>2. /\ \A s \in peer.sent : s.id = op.request => s.what = "action" /\ s.call = op.call
        /\ \A s \in peer.sent : s.what = "action" /\ s.call = op.call => s.id = op.request
        /\ \A a \in peer.owed : a.id = op.request /\ a.verdict = "ok" => done[op.call] = 1
    BY <2>1 DEF LinkAwaits
  <2>3. ASSUME NEW a \in peer'.owed, a.id = op.request, a.verdict = "ok" PROVE done'[op.call] = 1
    <3>1. CASE a \in peer.owed
      <4>1. done[op.call] = 1 BY <3>1, <2>3, <2>2
      <4>2. ~(r.what = "action" /\ r.call = op.call) BY <3>1, <2>3, <2>2, <1>0
      <4> QED BY <4>1, <4>2, <1>3 DEF Handled, LinkTypes
    <3>2. CASE a \notin peer.owed
      <4>1. r.id = op.request /\ v = "ok" BY <3>2, <2>3, <2>1
      <4>2. r.what = "action" /\ r.call = op.call BY <4>1, <2>2
      <4>3. done[op.call] = 0 BY <4>2 DEF LinkActions
      <4>4. op.call \in 1..MaxCalls BY LinkFields, LinkBounds, <2>1 DEF LinkTypes
      <4> QED BY <4>1, <4>2, <4>3, <4>4, <1>3 DEF Handled, LinkTypes
    <3> QED BY <3>1, <3>2
  <2> QED BY <2>1, <2>2, <2>3 DEF LinkAwaits
<1> QED BY <1>1, <1>2, <1>3 DEF MailStep, Starts, EndsWith, AtOnce, Subscribes, Between

\* OBS is told its mask.
LEMMA LinkMaskStep ==
  ASSUME LinkTypes, LinkMask, Link!Next
  PROVE  LinkMask'
<1> SUFFICES ASSUME device = "obs" PROVE LinkMask' BY DEF LinkMask, Link!Next
<1> DEFINE Good == /\ op'.pc \notin {"authenticate", "handshake", "resubscribe"}
                   /\ \A r \in peer'.sent : r.what = "action"
                   /\ link'.open \/ op'.pc = "identify" => peer'.heard = wanted'
<1>0. /\ Link!Next /\ device = "obs" /\ device' = device
      /\ op.pc \notin {"authenticate", "handshake", "resubscribe"}
      /\ \A r \in peer.sent : r.what = "action"
      /\ link.open \/ op.pc = "identify" => peer.heard = wanted
      /\ op \in LinkOps
      /\ peer \in LinkPeers
      /\ link \in LinkStates
      /\ time \in Nat
      /\ op.started \in Nat
  BY LinkFields DEF LinkMask, Link!Next
<1>r. \A o : Link!Returns(o) => op'.pc = "idle"
  BY LinkReturns
<1>f. \A t \in Nat : Link!FailedAt(t).open = FALSE
  BY <1>0 DEF Link!FailedAt, LinkStates
<1>e. /\ [peer EXCEPT !.owed = {}, !.heard = {}].sent = peer.sent
      /\ \A h : /\ [peer EXCEPT !.heard = h].sent = peer.sent
                /\ [peer EXCEPT !.heard = h].heard = h
      /\ \A w : /\ [peer EXCEPT !.owed = w].sent = peer.sent
                /\ [peer EXCEPT !.owed = w].heard = peer.heard
      /\ [peer EXCEPT !.pushed = @ + 1].sent = peer.sent
      /\ [peer EXCEPT !.pushed = @ + 1].heard = peer.heard
  BY <1>0 DEF LinkPeers
<1>h. ASSUME Link!HandshakeFails PROVE Good
  BY <1>h, <1>0, <1>r, <1>f, <1>e DEF Link!HandshakeFails
<1>k. ASSUME NEW k, Link!RequestFails(k) PROVE Good
  BY <1>k, <1>h, <1>0, <1>r, <1>f, <1>e DEF Link!RequestFails
<1>g. Good
  <2>0. Link!Next OBVIOUS
<2>1. CASE Link!Call
  <3>1. ASSUME NEW k, NEW v, Link!Begin(k, v) PROVE Good
    <4>1. op'.pc = "begun" /\ UNCHANGED <<peer, link, wanted>>
      BY <3>1, LinkIdle DEF Link!Begin, LinkOps
    <4>2. op.pc = "idle" BY <3>1 DEF Link!Begin
    <4> QED BY <4>1, <4>2, <1>0
  <3> QED BY <2>1, <3>1 DEF Link!Call
<2>2. CASE Link!PollQueued
  BY <2>2, <1>0, <1>r, <1>f, <1>e DEF Link!PollQueued, LinkOps
<2>3. CASE Link!Unmapped
  BY <2>3, <1>0, <1>r, <1>f, <1>e DEF Link!Unmapped, LinkOps
<2>4. CASE Link!AlreadyOpen
  BY <2>4, <1>0, <1>r, <1>f, <1>e DEF Link!AlreadyOpen, Link!GoesOn, LinkOps
<2>5. CASE Link!BackingOff
  BY <2>5, <1>0, <1>r, <1>f, <1>e DEF Link!BackingOff, Link!GoesOn, Link!CanAttempt, LinkOps
<2>6. CASE Link!ConnectFails
  <3>1. /\ op'.pc = "idle"
        /\ peer' = peer
        /\ link' = [Link!FailedAt(time) EXCEPT !.attempts = Link!FailedAt(time).attempts + 1, !.last = time]
    BY <2>6, <1>r DEF Link!ConnectFails
  <3>2. ~link'.open BY <3>1, <1>f, <1>0, LinkFailedAt DEF LinkStates
  <3> QED BY <3>1, <3>2, <1>0
<2>7. CASE Link!ConnectOpens
  <3>1. op'.pc = "hello" /\ UNCHANGED <<wanted>> /\ ~link.open /\ peer'.sent = peer.sent
    BY <2>7, <1>0, <1>e DEF Link!ConnectOpens, LinkOps
  <3>2. link'.open = link.open BY <2>7, <1>0 DEF Link!ConnectOpens, LinkStates
  <3> QED BY <3>1, <3>2, <1>0
<2>8. CASE Link!Hello
  <3>1. ASSUME op' = [op EXCEPT !.pc = "identify", !.budget = MaxMessages],
               peer' = [peer EXCEPT !.heard = wanted], wanted' = wanted PROVE Good
    <4>1. op'.pc = "identify" BY <3>1, <1>0 DEF LinkOps
    <4>2. peer'.heard = wanted /\ peer'.sent = peer.sent BY <3>1, <1>e
    <4> QED BY <4>1, <4>2, <3>1, <1>0
  <3> QED BY <2>8, <3>1, <1>h DEF Link!Hello
<2>9. CASE Link!NoHello
  BY <2>9, <1>h DEF Link!NoHello
<2>10. CASE Link!Identified
  BY <2>10, <1>0 DEF Link!Identified, Link!Stands, LinkOps
<2>11. CASE Link!Authenticate
  BY <2>11, <1>0 DEF Link!Authenticate
<2>12. CASE Link!Resubscribe
  BY <2>12, <1>0 DEF Link!Resubscribe
<2>13. CASE Link!HandshakeSendFails
  BY <2>13, <1>h DEF Link!HandshakeSendFails
<2>14. CASE Link!Resubscribed
  BY <2>14, <1>0 DEF Link!Resubscribed
<2>15. CASE Link!Execute
  <3>1. CASE op.valid
    <4> DEFINE m == [id |-> op.request + 1, what |-> "action", name |-> Link!NoName, call |-> op.call,
                     attempt |-> link.attempts]
    <4>1. /\ peer' = [peer EXCEPT !.sent = peer.sent \cup {m}]
          /\ op'.pc = "await"
          /\ link' = link
          /\ wanted' = wanted
      BY <2>15, <3>1, <1>0 DEF Link!Execute, Link!Sends, LinkOps
    <4>2. m.what = "action" OBVIOUS
    <4> HIDE DEF m
    <4>3. peer'.sent = peer.sent \cup {m} /\ peer'.heard = peer.heard BY <4>1, <1>0 DEF LinkPeers
    <4> QED BY <4>1, <4>2, <4>3, <1>0
  <3>2. CASE ~op.valid
    BY <2>15, <3>2, <1>0, <1>r DEF Link!Execute
  <3> QED BY <3>1, <3>2
<2>16. CASE Link!SendFails
  BY <2>16, <1>0, <1>r, <1>f, <1>e DEF Link!SendFails, LinkOps
<2>17. CASE Link!ConnectDone
  BY <2>17, <1>0, <1>r, <1>f, <1>e DEF Link!ConnectDone, LinkOps
<2>18. CASE Link!ReadNothing
  BY <2>18, <1>k, <1>0 DEF Link!ReadNothing, LinkOps
<2>19. CASE Link!ReadBroken
  BY <2>19, <1>k DEF Link!ReadBroken
<2>20. CASE Link!LimitExceeded
  BY <2>20, <1>k DEF Link!LimitExceeded
<2>21. CASE Link!ReadEvent
  BY <2>21, <1>0, <1>r, <1>f, <1>e DEF Link!ReadEvent, Link!Reading, Link!Pushes, LinkOps
<2>22. CASE Link!ReadOther
  BY <2>22, <1>0, <1>r, <1>f, <1>e DEF Link!ReadOther, Link!Reading, LinkOps
<2>23. CASE Link!ReadAnswer
  <3>0. op.pc = "await" BY <2>23, <1>0 DEF Link!ReadAnswer, Link!Reading
  <3>1. ASSUME NEW a, Link!Answered(a) PROVE Good
    <4>1. /\ op'.pc = "idle"
          /\ link' = link
          /\ wanted' = wanted
          /\ peer' = [peer EXCEPT !.owed = peer.owed \ {a}]
      BY <3>1, <3>0, <1>r DEF Link!Answered
    <4> QED BY <4>1, <1>0, <1>e
  <3>2. ASSUME NEW k, Link!RequestFails(k) PROVE Good
    BY <3>2, <1>k
  <3>3. ASSUME NEW w, Link!Returns("failed"), link' = link, wanted' = wanted,
               peer' = [peer EXCEPT !.owed = w] PROVE Good
    BY <3>3, <1>0, <1>r, <1>e
  <3> QED BY <2>23, <3>0, <3>1, <3>2, <3>3, LinkReadAnswer
<2>24. CASE Link!PollEvent
  BY <2>24, <1>0, <1>r, <1>f, <1>e DEF Link!PollEvent, Link!Pushes, LinkOps
<2>25. CASE Link!PollNothing
  <3>1. op'.pc = "idle" /\ link' = link /\ wanted' = wanted
    BY <2>25, <1>r DEF Link!PollNothing
  <3>2. peer'.sent = peer.sent /\ peer'.heard = peer.heard
    <4>1. CASE peer' = peer BY <4>1
    <4>2. CASE \E a \in peer.owed : peer' = [peer EXCEPT !.owed = peer.owed \ {a}] BY <4>2, <1>e
    <4> QED BY <2>25, <4>1, <4>2 DEF Link!PollNothing
  <3> QED BY <3>1, <3>2, <1>0
<2>26. CASE Link!PollBroken
  BY <2>26, <1>0, <1>r, <1>f, <1>e DEF Link!PollBroken, LinkOps
<2>27. CASE Link!Handles
  <3>1. PICK r \in peer.sent, v \in {"ok", "rejected", "denied"}, here \in BOOLEAN :
           /\ peer'.sent = peer.sent \ {r}
           /\ peer'.heard = IF r.what = "subscribe" /\ v = "ok" /\ here
                            THEN peer.heard \cup {r.name} ELSE peer.heard
           /\ UNCHANGED <<link, wanted, op>>
    BY <2>27, LinkHandles
  <3>2. r.what = "action" BY <1>0
  <3> QED BY <3>1, <3>2, <1>0
<2>28. CASE Link!Tick
  BY <2>28, <1>0, <1>r, <1>f, <1>e DEF Link!Tick, LinkOps
<2>29. ASSUME NEW n \in LinkNames, Link!Reidentify(n) PROVE Good
  <3>1. op'.pc = op.pc /\ op.pc = "idle" /\ wanted' = {n}
    BY <2>29, <1>0 DEF Link!Reidentify, LinkOps
  <3>2. CASE link' = link /\ peer' = IF link.open THEN [peer EXCEPT !.heard = {n}] ELSE peer
    BY <3>1, <3>2, <1>0, <1>e
  <3>3. CASE link' = Link!FailedAt(time) /\ peer' = [peer EXCEPT !.owed = {}, !.heard = {}]
    BY <3>1, <3>3, <1>0, <1>f, <1>e
  <3> QED BY <2>29, <3>2, <3>3 DEF Link!Reidentify
<2>30. ASSUME NEW n \in LinkNames, Link!Subscribe(n) PROVE Good
  BY <2>30, <1>0 DEF Link!Subscribe
<2> QED BY <2>1, <2>2, <2>3, <2>4, <2>5, <2>6, <2>7, <2>8, <2>9, <2>10, <2>11, <2>12, <2>13,
           <2>14, <2>15, <2>16, <2>17, <2>18, <2>19, <2>20, <2>21, <2>22, <2>23, <2>24, <2>25,
           <2>26, <2>27, <2>28, <2>29, <2>30, <2>0 DEF Link!Next
<1> QED BY <1>g DEF LinkMask

\* VTube Studio is asked for every name again.
LEMMA LinkNamesStep ==
  ASSUME LinkTypes, LinkIds, LinkNamesHeard, Link!Next
  PROVE  LinkNamesHeard'
<1> SUFFICES ASSUME device = "vts" PROVE LinkNamesHeard' BY DEF LinkNamesHeard, Link!Next
<1> DEFINE Good == /\ op'.pc \notin {"hello", "identify"}
                   /\ op'.pc \in {"authenticate", "resubscribe"} =>
                        wanted' \ op'.todo \subseteq peer'.heard
                   /\ op'.pc = "handshake" =>
                        \A x \in wanted' \ op'.todo : x \in peer'.heard \/ Asking(x)'
<1>0. /\ Link!Next /\ device = "vts" /\ device' = device
      /\ op.pc \notin {"hello", "identify"}
      /\ op.pc \in {"authenticate", "resubscribe"} => wanted \ op.todo \subseteq peer.heard
      /\ op.pc = "handshake" => \A x \in wanted \ op.todo : x \in peer.heard \/ Asking(x)
      /\ op \in LinkOps
      /\ peer \in LinkPeers
      /\ op.todo \subseteq LinkNames
      /\ Link!NoName \notin LinkNames
  BY LinkFields, LinkBounds DEF LinkNamesHeard, Link!Next
<1>r. \A o : Link!Returns(o) => op'.pc = "idle"
  BY LinkReturns
<1>n. ASSUME op'.pc \notin Shaking PROVE Good
  BY <1>n DEF Shaking
<1>h. ASSUME Link!HandshakeFails PROVE Good
  BY <1>h, <1>r DEF Link!HandshakeFails
<1>k. ASSUME NEW k, Link!RequestFails(k) PROVE Good
  BY <1>k, <1>h, <1>r DEF Link!RequestFails
\* What was asked for is still asked for, or was heard.
<1>q. ASSUME op'.pc = op.pc, op'.todo = op.todo, op'.request = op.request, link'.attempts = link.attempts,
             wanted' = wanted, peer'.heard = peer.heard, peer'.sent = peer.sent,
             \A a \in peer.owed : a.id = op.request => a \in peer'.owed
      PROVE  Good
  BY <1>q, <1>0 DEF Asking
<1>b. ASSUME op' = [op EXCEPT !.budget = op.budget - 1]
      PROVE  op'.pc = op.pc /\ op'.todo = op.todo /\ op'.request = op.request
  BY <1>b, <1>0 DEF LinkOps
<1>s. ASSUME NEW w, NEW x, Link!Sends(w, x, "handshake"), wanted' = wanted, link' = link,
             wanted \ op.todo \subseteq peer.heard,
             x = Link!NoName \/ (x \in op.todo /\ w = "subscribe")
      PROVE  Good
  <2> DEFINE m == [id |-> op.request + 1, what |-> w, name |-> x, call |-> op.call,
                   attempt |-> link.attempts]
  <2>1. m.id = op.request + 1 /\ m.what = w /\ m.name = x /\ m.attempt = link.attempts OBVIOUS
  <2>2. peer' = [peer EXCEPT !.sent = peer.sent \cup {m}] BY <1>s DEF Link!Sends
  <2>3. op'.pc = "handshake" /\ op'.request = op.request + 1 /\ op'.todo = op.todo \ {x}
    BY <1>s, <1>0 DEF Link!Sends, LinkOps
  <2> HIDE DEF m
  <2>4. peer'.sent = peer.sent \cup {m} /\ peer'.heard = peer.heard BY <2>2, <1>0 DEF LinkPeers
  <2>5. ASSUME NEW y \in wanted' \ op'.todo PROVE y \in peer'.heard \/ Asking(y)'
    <3>1. CASE y \in op.todo
      <4>1. y = x /\ x # Link!NoName BY <3>1, <2>5, <2>3, <1>0
      <4>2. w = "subscribe" BY <4>1, <1>s
      <4> QED BY <4>1, <4>2, <2>1, <2>3, <2>4, <1>s DEF Asking
    <3>2. CASE y \notin op.todo
      BY <3>2, <2>5, <2>4, <1>s
    <3> QED BY <3>1, <3>2
  <2> QED BY <2>3, <2>5
<1>g. Good
  <2>0. Link!Next OBVIOUS
<2>1. CASE Link!Call
  <3>1. ASSUME NEW k, NEW v, Link!Begin(k, v) PROVE Good
    <4>1. op'.pc = "begun" BY <3>1, LinkIdle DEF Link!Begin, LinkOps
    <4> QED BY <4>1, <1>n DEF Shaking
  <3> QED BY <2>1, <3>1 DEF Link!Call
<2>2. CASE Link!PollQueued
  BY <2>2, <1>0, <1>r, <1>n DEF Link!PollQueued, LinkOps, Shaking
<2>3. CASE Link!Unmapped
  BY <2>3, <1>0, <1>r, <1>n DEF Link!Unmapped, LinkOps, Shaking
<2>4. CASE Link!AlreadyOpen
  <3>1. op'.pc = "connected" BY <2>4, <1>0 DEF Link!AlreadyOpen, LinkOps
  <3> QED BY <3>1
<2>5. CASE Link!BackingOff
  BY <2>5, <1>0, <1>r, <1>n DEF Link!BackingOff, Link!GoesOn, Link!CanAttempt, LinkOps, Shaking
<2>6. CASE Link!ConnectFails
  BY <2>6, <1>0, <1>r, <1>n DEF Link!ConnectFails, Link!GoesOn, Link!CanAttempt, LinkOps, Shaking
<2>7. CASE Link!ConnectOpens
  <3>1. op'.pc = "authenticate" /\ op'.todo = wanted /\ wanted' = wanted
    BY <2>7, <1>0 DEF Link!ConnectOpens, LinkOps
  <3> QED BY <3>1
<2>8. CASE Link!Hello
  BY <2>8, <1>0 DEF Link!Hello
<2>9. CASE Link!NoHello
  BY <2>9, <1>h DEF Link!NoHello
<2>10. CASE Link!Identified
  BY <2>10, <1>0, <1>r, <1>n DEF Link!Identified, Link!Stands, LinkOps, Shaking
<2>11. CASE Link!Authenticate
  BY <2>11, <1>s, <1>0 DEF Link!Authenticate
<2>12. CASE Link!Resubscribe
  BY <2>12, <1>s, <1>0 DEF Link!Resubscribe
<2>13. CASE Link!HandshakeSendFails
  BY <2>13, <1>h DEF Link!HandshakeSendFails
<2>14. CASE Link!Resubscribed
  BY <2>14, <1>0, <1>r, <1>n DEF Link!Resubscribed, Link!Stands, LinkOps, Shaking
<2>15. CASE Link!Execute
  <3>1. CASE op.valid
    <4>1. op'.pc = "await" BY <2>15, <3>1, <1>0 DEF Link!Execute, Link!Sends, LinkOps
    <4> QED BY <4>1, <1>n DEF Shaking
  <3>2. CASE ~op.valid
    BY <2>15, <3>2, <1>r, <1>n DEF Link!Execute, Shaking
  <3> QED BY <3>1, <3>2
<2>16. CASE Link!SendFails
  BY <2>16, <1>0, <1>r, <1>n DEF Link!SendFails, LinkOps, Shaking
<2>17. CASE Link!ConnectDone
  BY <2>17, <1>0, <1>r, <1>n DEF Link!ConnectDone, LinkOps, Shaking
<2>18. CASE Link!ReadNothing
  BY <2>18, <1>k, <1>b, <1>q DEF Link!ReadNothing
<2>19. CASE Link!ReadBroken
  BY <2>19, <1>k DEF Link!ReadBroken
<2>20. CASE Link!LimitExceeded
  BY <2>20, <1>k DEF Link!LimitExceeded
<2>21. CASE Link!ReadEvent
  <3>1. peer' = [peer EXCEPT !.pushed = peer.pushed + 1] /\ link' = link /\ wanted' = wanted
        /\ op' = [op EXCEPT !.budget = op.budget - 1]
    BY <2>21 DEF Link!ReadEvent
  <3>2. peer'.heard = peer.heard /\ peer'.sent = peer.sent /\ peer'.owed = peer.owed
    BY <3>1, <1>0 DEF LinkPeers
  <3> QED BY <3>1, <3>2, <1>b, <1>q
<2>22. CASE Link!ReadOther
  <3>1. PICK a \in {a \in peer.owed : a.id # op.request} : peer' = [peer EXCEPT !.owed = peer.owed \ {a}]
    BY <2>22 DEF Link!ReadOther
  <3>2. link' = link /\ wanted' = wanted /\ op' = [op EXCEPT !.budget = op.budget - 1]
    BY <2>22 DEF Link!ReadOther
  <3>3. peer'.heard = peer.heard /\ peer'.sent = peer.sent /\ peer'.owed = peer.owed \ {a}
    BY <3>1, <1>0 DEF LinkPeers
  <3> QED BY <3>2, <3>3, <1>b, <1>q
<2>23. CASE Link!ReadAnswer
  <3>0. op.pc \in {"handshake", "await"} BY <2>23 DEF Link!ReadAnswer, Link!Reading
  <3>1. ASSUME NEW a \in peer.owed, a.id = op.request, a.verdict = "ok", Link!Answered(a) PROVE Good
    <4>1. CASE op.pc = "await" BY <3>1, <4>1, <1>r, <1>n DEF Link!Answered, Shaking
    <4>2. CASE op.pc # "await"
      <5>1. op.pc = "handshake" BY <4>2, <3>0
      <5>2. /\ op' = [op EXCEPT !.pc = IF a.what = "token" THEN "authenticate" ELSE "resubscribe"]
            /\ wanted' = wanted /\ peer' = [peer EXCEPT !.owed = peer.owed \ {a}]
        BY <3>1, <4>2 DEF Link!Answered
      <5>3. op'.pc \in {"authenticate", "resubscribe"} /\ op'.todo = op.todo
        BY <5>2, <1>0 DEF LinkOps
      <5>4. peer'.heard = peer.heard BY <5>2, <1>0 DEF LinkPeers
      <5>5. \A x : ~Asking(x) BY <3>1 DEF Asking, LinkIds
      <5> QED BY <5>1, <5>2, <5>3, <5>4, <5>5, <1>0
    <4> QED BY <4>1, <4>2
  <3>2. ASSUME Link!HandshakeFails PROVE Good
    BY <3>2, <1>h
  <3>3. ASSUME NEW k, Link!RequestFails(k) PROVE Good
    BY <3>3, <1>k
  <3>4. ASSUME Link!Returns("failed") PROVE Good
    BY <3>4, <1>r
  <3> QED BY <2>23, <3>1, <3>2, <3>3, <3>4, LinkReadAnswer
<2>24. CASE Link!PollEvent
  BY <2>24, <1>0, <1>r, <1>n DEF Link!PollEvent, Link!Pushes, LinkOps, Shaking
<2>25. CASE Link!PollNothing
  BY <2>25, <1>0, <1>r, <1>n DEF Link!PollNothing, LinkOps, Shaking
<2>26. CASE Link!PollBroken
  BY <2>26, <1>0, <1>r, <1>n DEF Link!PollBroken, LinkOps, Shaking
<2>27. CASE Link!Handles
  <3>1. PICK r \in peer.sent, v \in {"ok", "rejected", "denied"}, here \in BOOLEAN :
           /\ op.pc = "handshake" /\ r.attempt = link.attempts => here
           /\ peer'.sent = peer.sent \ {r}
           /\ peer'.owed = IF here THEN peer.owed \cup {[id |-> r.id, what |-> r.what, verdict |-> v]}
                           ELSE peer.owed
           /\ peer'.heard = IF r.what = "subscribe" /\ v = "ok" /\ here
                            THEN peer.heard \cup {r.name} ELSE peer.heard
           /\ UNCHANGED <<link, wanted, op>>
    BY <2>27, LinkHandles
  <3>2. peer.heard \subseteq peer'.heard BY <3>1
  <3>3. ASSUME NEW x \in wanted \ op.todo, op.pc = "handshake" PROVE x \in peer'.heard \/ Asking(x)'
    <4>1. CASE x \in peer.heard BY <4>1, <3>2
    <4>2. CASE \E a \in peer.owed : a.id = op.request /\ a.verdict # "ok"
      BY <4>2, <3>1 DEF Asking
    <4>3. CASE \E t \in peer.sent : t.id = op.request /\ t.what = "subscribe" /\ t.name = x
                                    /\ t.attempt = link.attempts
      <5>1. PICK t \in peer.sent : t.id = op.request /\ t.what = "subscribe" /\ t.name = x
                                    /\ t.attempt = link.attempts
        BY <4>3
      <5>2. CASE t # r BY <5>1, <5>2, <3>1 DEF Asking
      <5>3. CASE t = r
        <6>1. here BY <5>1, <5>3, <3>1, <3>3
        <6>2. CASE v = "ok" BY <6>1, <6>2, <5>1, <5>3, <3>1
        <6>3. CASE v # "ok"
          <7> DEFINE a == [id |-> r.id, what |-> r.what, verdict |-> v]
          <7>1. a \in peer'.owed BY <6>1, <3>1
          <7>2. a.id = op'.request /\ a.verdict # "ok" BY <5>1, <5>3, <6>3, <3>1
          <7> QED BY <7>1, <7>2 DEF Asking
        <6> QED BY <6>2, <6>3
      <5> QED BY <5>2, <5>3
    <4> QED BY <4>1, <4>2, <4>3, <3>3, <1>0 DEF Asking
  <3> QED BY <3>1, <3>2, <3>3, <1>0
<2>28. CASE Link!Tick
  BY <2>28, <1>q DEF Link!Tick
<2>29. ASSUME NEW n \in LinkNames, Link!Reidentify(n) PROVE Good
  BY <2>29, <1>0 DEF Link!Reidentify
<2>30. ASSUME NEW n \in LinkNames, Link!Subscribe(n) PROVE Good
  <3>0. op.pc = "idle" BY <2>30 DEF Link!Subscribe
  <3>1. CASE link.open
    <4>1. op' = [Link!Idle EXCEPT !.pc = "await", !.call = op.call + 1, !.kind = "subscribe",
                                  !.request = op.request + 1, !.budget = MaxMessages]
      BY <2>30, <3>1 DEF Link!Subscribe
    <4>2. op'.pc = "await" BY <4>1, LinkIdle DEF LinkOps
    <4> QED BY <4>2
  <3>2. CASE ~link.open
    <4>1. op' = [op EXCEPT !.call = op.call + 1] BY <2>30, <3>2 DEF Link!Subscribe
    <4>2. op'.pc = "idle" BY <4>1, <3>0, <1>0 DEF LinkOps
    <4> QED BY <4>2
  <3> QED BY <3>1, <3>2
<2> QED BY <2>1, <2>2, <2>3, <2>4, <2>5, <2>6, <2>7, <2>8, <2>9, <2>10, <2>11, <2>12, <2>13,
           <2>14, <2>15, <2>16, <2>17, <2>18, <2>19, <2>20, <2>21, <2>22, <2>23, <2>24, <2>25,
           <2>26, <2>27, <2>28, <2>29, <2>30, <2>0 DEF Link!Next
<1> QED BY <1>g DEF LinkNamesHeard

\* A session stands only when its subscriptions do.
LEMMA LinkRestored ==
  ASSUME LinkTypes, LinkMask, LinkNamesHeard, Link!Next
  PROVE  Link!RestoredStep
<1> SUFFICES ASSUME link'.open, ~link.open PROVE wanted \subseteq peer.heard
  BY DEF Link!RestoredStep
<1>1. ComesUp BY LinkSteps DEF Stays, Misses, Shakes, Begins, GivesUp
<1>2. device \in {"obs", "vts"} BY LinkFields
<1>3. CASE op.pc = "identify"
  BY <1>2, <1>3 DEF LinkMask, LinkNamesHeard
<1>4. CASE op.pc = "resubscribe" /\ op.todo = {}
  BY <1>2, <1>4 DEF LinkMask, LinkNamesHeard
<1> QED BY <1>1, <1>3, <1>4 DEF ComesUp

\* Every step of the clients keeps the invariant.
LEMMA LinkInvStep == LinkInv /\ Link!Next => LinkInv'
<1> SUFFICES ASSUME LinkInv, Link!Next PROVE LinkInv' OBVIOUS
<1>0. /\ LinkTypes /\ LinkEventsKept /\ LinkSpaced /\ LinkIds /\ LinkActions /\ LinkAwaits
      /\ LinkMask /\ LinkNamesHeard
  BY DEF LinkInv
<1>1. LinkTypes' BY <1>0, LinkTypesStep
<1>2. LinkEventsKept' BY <1>0, LinkEventsStep
<1>3. LinkSpaced' BY <1>0, LinkSpacedStep
<1>4. MailStep BY <1>0, LinkMail
<1>5. LinkIds' BY <1>0, <1>1, <1>4, LinkIdsStep
<1>6. LinkActions' BY <1>0, <1>1, <1>4, LinkActionsStep
<1>7. LinkAwaits' BY <1>0, <1>1, <1>4, LinkAwaitsStep
<1>8. LinkMask' BY <1>0, LinkMaskStep
<1>9. LinkNamesHeard' BY <1>0, LinkNamesStep
<1> QED BY <1>1, <1>2, <1>3, <1>5, <1>6, <1>7, <1>8, <1>9 DEF LinkInv

\* It holds at the start.
LEMMA LinkHoldsInit == Init => LinkHolds
BY LinkInvInit DEF Init, LinkHolds

\* It is kept by every step, whoever moves.
LEMMA LinkHoldsStep ==
    LinkHolds
    /\ [Next]_<<part, ingressVars, loopVars, securityVars, pathVars, linkVars>>
    => LinkHolds'
<1> SUFFICES ASSUME LinkHolds, part' = "link",
                    [Next]_<<part, ingressVars, loopVars, securityVars, pathVars, linkVars>>
             PROVE  LinkInv'
  BY DEF LinkHolds
<1>1. CASE Next
  <2>1. part = "link" /\ Link!Next BY <1>1 DEF Next
  <2> QED BY <2>1, LinkInvStep DEF LinkHolds
<1>2. CASE UNCHANGED <<part, ingressVars, loopVars, securityVars, pathVars, linkVars>>
  <2>1. LinkInv /\ UNCHANGED <<device, time, link, wanted, hasToken, inbox, op, peer, done,
                               result, taken>>
    BY <1>2 DEF LinkHolds, linkVars
  <2>2. LinkTypes' BY ONLY <2>1 DEF LinkInv, LinkTypes
  <2>3. LinkEventsKept' BY ONLY <2>1 DEF LinkInv, LinkEventsKept, Link!EventsKept
  <2>4. LinkSpaced' BY ONLY <2>1 DEF LinkInv, LinkSpaced
  <2>5. LinkIds' BY ONLY <2>1 DEF LinkInv, LinkIds
  <2>6. LinkActions' BY ONLY <2>1 DEF LinkInv, LinkActions, Link!NoReplay, Link!OkMeansDone
  <2>7. LinkAwaits' BY ONLY <2>1 DEF LinkInv, LinkAwaits
  <2>8. LinkMask' BY ONLY <2>1 DEF LinkInv, LinkMask
  <2>9. LinkNamesHeard' BY ONLY <2>1 DEF LinkInv, LinkNamesHeard, Asking
  <2> QED BY <2>2, <2>3, <2>4, <2>5, <2>6, <2>7, <2>8, <2>9 DEF LinkInv
<1> QED BY <1>1, <1>2

\* What the run's property says of a step.
LEMMA LinkSays ==
    ASSUME LinkHolds, [Next]_<<part, ingressVars, loopVars, securityVars, pathVars, linkVars>>
    PROVE  [part = "link" => /\ Link!NoReplay' /\ Link!OkMeansDone' /\ Link!MaskInForce'
                             /\ Link!EventsKept' /\ Link!SpacedStep /\ Link!RestoredStep]_linkVars
<1> SUFFICES ASSUME part = "link", ~ UNCHANGED linkVars
             PROVE  /\ Link!NoReplay' /\ Link!OkMeansDone' /\ Link!MaskInForce'
                    /\ Link!EventsKept' /\ Link!SpacedStep /\ Link!RestoredStep
  OBVIOUS
<1>1. Next
  <2>1. UNCHANGED <<part, ingressVars, loopVars, securityVars, pathVars, linkVars>>
        => UNCHANGED linkVars
    OBVIOUS
  <2> QED BY <2>1
<1>2. Link!Next BY <1>1 DEF Next
<1>3. LinkInv BY DEF LinkHolds
<1>4. LinkInv' BY <1>2, <1>3, LinkInvStep
<1>5. Link!NoReplay' /\ Link!OkMeansDone' BY <1>4 DEF LinkInv, LinkActions
<1>6. Link!MaskInForce' BY <1>4 DEF LinkInv, LinkMask, Link!MaskInForce
<1>7. Link!EventsKept' BY <1>4 DEF LinkInv, LinkEventsKept
<1>8. Link!SpacedStep BY <1>2, <1>3, LinkSpacedStep DEF LinkInv
<1>9. Link!RestoredStep BY <1>2, <1>3, LinkRestored DEF LinkInv
<1> QED BY <1>5, <1>6, <1>7, <1>8, <1>9

\* However sessions break, answers come late and requests are handled after
\* they were given up on: an action is performed at most once, never when it
\* was refused, and reported done only when it was; the mask set last is in
\* force; every event is kept and given once; attempts keep the distance the
\* failures call for; and a session stands only when its subscriptions do, for
\* every number of calls, names and events and every backoff (obs.rs, vts.rs).
THEOREM LinksAreSound == Spec => LinksSound
BY LinkHoldsInit, LinkHoldsStep, LinkSays, PTL DEF Spec, LinksSound
=============================================================================
