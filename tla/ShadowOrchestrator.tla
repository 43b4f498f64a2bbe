------------------------- MODULE ShadowOrchestrator -------------------------
(***************************************************************************)
(* The bounded shadow pool of crates/app/src/shadow_orchestrator.rs, as    *)
(* driven by ShadowingRoutePlanner (shadow.rs) and ProductionApp (lib.rs): *)
(* the composition thread stages a job while it routes an event,           *)
(* supersedes the event's source chain, commits the job once the budget    *)
(* governor agrees and drains finished comparisons at the next tick;       *)
(* worker threads pop, evaluate and publish through a fence.               *)
(*                                                                         *)
(* A job is named by the ordinal of its event (its revision).  What a      *)
(* policy or provider decides is data: a record is evidence, and a         *)
(* discarded completion carries none.  The per-reason diagnostic counters  *)
(* are left out; the gauges that quiescence reads are modelled step by     *)
(* step.  `lock` is the queue mutex; a critical section that neither waits *)
(* nor meets an unlocked access in between is one step.                    *)
(***************************************************************************)
EXTENDS Integers, Sequences, FiniteSets, SequencesExt

CONSTANTS
    Keys,           \* correlation ids: the supersession chains
    Workers,        \* the pool; max_concurrent = Cardinality(Workers)
    QueueCapacity,  \* queue_capacity
    MaxEvents       \* bound on events

ConfigAssumption ==
    /\ QueueCapacity \in Nat \ {0}
    /\ IsFiniteSet(Workers) /\ Workers # {}

BoundAssumption == MaxEvents \in Nat

None == 0

\* completion_capacity: queued plus executing jobs.
MailboxCapacity == QueueCapacity + Cardinality(Workers)

\* Where a worker is: entering pop; about to wait with the lock still held;
\* waiting on the condition variable; holding a job not yet claimed; between
\* the two halves of note_claimed; before and inside the evaluation; with an
\* outcome; between the two halves of note_published; at the fence; exited.
WorkerPcs == {"pop", "prewait", "waiting", "popped", "claiming", "started",
              "evaluating", "decided", "releasing", "fence", "exited"}

\* Where the composition thread is.  "gone": the orchestrator was dropped.
CompPcs == {"ready", "routed", "superseded", "draining",
            "closing", "notifying", "cancelling", "joining", "gone"}

VARIABLES
    keyOf,        \* events so far: the chain of each
    newest,       \* chain -> last event whose active route succeeded (history)
    staged,       \* the staged job or None
    comp,         \* composition thread
    queue,        \* work.state
    closed,       \* work.closed
    lock,         \* holder of the queue mutex across a step, or "free"
    live,         \* live_tokens: chain -> job or None
    cancelled,    \* jobs whose token is cancelled
    wpc, wjob,    \* worker -> place, job
    wrecord,      \* worker -> does its outcome carry a record?
    mailbox,      \* completions
    shuttingDown,
    pending, inFlight, awaiting, \* gauges
    submitted, completed, lost   \* counters; lost: dropped, mailbox full

compVars == <<keyOf, newest, staged, comp>>
workerVars == <<wpc, wjob, wrecord>>
gauges == <<pending, inFlight, awaiting>>
counters == <<submitted, completed, lost>>
vars == <<keyOf, newest, staged, comp, queue, closed, lock, live, cancelled,
          wpc, wjob, wrecord, mailbox, shuttingDown, pending, inFlight,
          awaiting, submitted, completed, lost>>

Init ==
    /\ keyOf = <<>>
    /\ newest = [k \in Keys |-> None]
    /\ staged = None /\ comp = "ready"
    /\ queue = <<>> /\ closed = FALSE /\ lock = "free"
    /\ live = [k \in Keys |-> None] /\ cancelled = {}
    /\ wpc = [w \in Workers |-> "pop"]
    /\ wjob = [w \in Workers |-> None]
    /\ wrecord = [w \in Workers |-> FALSE]
    /\ mailbox = <<>> /\ shuttingDown = FALSE
    /\ pending = 0 /\ inFlight = 0 /\ awaiting = 0
    /\ submitted = 0 /\ completed = 0 /\ lost = 0

-----------------------------------------------------------------------------
(* Composition thread: one event                                           *)

\* stage: the deterministic gates; `eligible` is what skip_reason finds.
Stage(key, eligible) ==
    /\ comp = "ready" /\ lock = "free"
    /\ Len(keyOf) < MaxEvents
    /\ keyOf' = Append(keyOf, key)
    /\ staged' = IF eligible /\ ~shuttingDown /\ Len(queue) < QueueCapacity
                 THEN Len(keyOf') ELSE None
    /\ comp' = "routed"
    /\ UNCHANGED <<newest, queue, closed, lock, live, cancelled, workerVars,
                   mailbox, shuttingDown, gauges, counters>>

\* The active route fails: nothing was staged for this event, and
\* discard_shadow_submission drops what an earlier call may have left.
RouteFails ==
    /\ comp = "ready"
    /\ staged' = None
    /\ UNCHANGED <<keyOf, newest, comp, queue, closed, lock, live, cancelled,
                   workerVars, mailbox, shuttingDown, gauges, counters>>

\* supersede_source: the previous revision's token is removed and cancelled,
\* whether or not this revision produces shadow work.
Supersede ==
    LET key == keyOf[Len(keyOf)]
        old == live[key]
    IN /\ comp = "routed" /\ lock = "free"
       /\ newest' = [newest EXCEPT ![key] = Len(keyOf)]
       /\ live' = [live EXCEPT ![key] = None]
       /\ cancelled' = cancelled \cup ({old} \ {None})
       /\ comp' = "superseded"
       /\ UNCHANGED <<keyOf, staged, queue, closed, lock, workerVars, mailbox,
                      shuttingDown, gauges, counters>>

\* notify_one wakes some waiting worker.
NotifyOne(pcs) ==
    LET waiting == {w \in Workers : pcs[w] = "waiting"}
    IN IF waiting = {} THEN {pcs}
       ELSE {[pcs EXCEPT ![w] = "pop"] : w \in waiting}

\* commit with the governor's consent: note_queued and
\* try_push_superseding.  A refusal takes note_queued back.
CommitPush ==
    LET key == keyOf[staged]
        previous == live[key]
    IN /\ comp = "superseded" /\ staged # None /\ lock = "free"
       /\ ~closed /\ Len(queue) < QueueCapacity
       /\ live' = [live EXCEPT ![key] = staged]
       /\ cancelled' = cancelled \cup ({previous} \ {None})
       /\ queue' = Append(queue, staged)
       /\ wpc' \in NotifyOne(wpc)
       /\ pending' = pending + 1
       /\ submitted' = submitted + 1
       /\ staged' = None /\ comp' = "draining"
       /\ UNCHANGED <<keyOf, newest, closed, lock, wjob, wrecord, mailbox,
                      shuttingDown, inFlight, awaiting, completed, lost>>

\* Nothing staged, or the governor denies (commit_denied).
CommitNothing ==
    /\ comp = "superseded"
    /\ staged' = None /\ comp' = "draining"
    /\ UNCHANGED <<keyOf, newest, queue, closed, lock, live, cancelled,
                   workerVars, mailbox, shuttingDown, gauges, counters>>

-----------------------------------------------------------------------------
(* Composition thread: the tick                                            *)

StartTick ==
    /\ comp = "ready" /\ comp' = "draining"
    /\ UNCHANGED <<keyOf, newest, staged, queue, closed, lock, live, cancelled,
                   workerVars, mailbox, shuttingDown, gauges, counters>>

\* drain_comparisons: one turn of the try_recv loop.
DrainOne ==
    /\ comp = "draining" /\ mailbox # <<>>
    /\ mailbox' = Tail(mailbox)
    /\ awaiting' = awaiting - 1 /\ completed' = completed + 1
    /\ UNCHANGED <<compVars, queue, closed, lock, live, cancelled, workerVars,
                   shuttingDown, pending, inFlight, submitted, lost>>

DrainEnd ==
    /\ comp = "draining" /\ mailbox = <<>>
    /\ comp' = "ready"
    /\ UNCHANGED <<keyOf, newest, staged, queue, closed, lock, live, cancelled,
                   workerVars, mailbox, shuttingDown, gauges, counters>>

-----------------------------------------------------------------------------
(* Shutdown and drop                                                       *)

\* shutdown, up to close(): the closed flag is stored without the lock.
ShutdownFlag ==
    /\ comp = "ready" /\ ~shuttingDown
    /\ shuttingDown' = TRUE /\ comp' = "closing"
    /\ UNCHANGED <<keyOf, newest, staged, queue, closed, lock, live, cancelled,
                   workerVars, mailbox, gauges, counters>>

Close ==
    /\ comp = "closing"
    /\ closed' = TRUE /\ comp' = "notifying"
    /\ UNCHANGED <<keyOf, newest, staged, queue, lock, live, cancelled,
                   workerVars, mailbox, shuttingDown, gauges, counters>>

\* notify_all reaches the workers that wait now.
NotifyAll ==
    /\ comp = "notifying"
    /\ wpc' = [w \in Workers |-> IF wpc[w] = "waiting" THEN "pop" ELSE wpc[w]]
    /\ comp' = "cancelling"
    /\ UNCHANGED <<keyOf, newest, staged, queue, closed, lock, live, cancelled,
                   wjob, wrecord, mailbox, shuttingDown, gauges, counters>>

\* Every chain is cancelled under the registry lock, then the workers are joined.
CancelAll ==
    /\ comp = "cancelling"
    /\ staged' = None
    /\ cancelled' = cancelled \cup ({live[k] : k \in Keys} \ {None})
    /\ live' = [k \in Keys |-> None]
    /\ comp' = "joining"
    /\ UNCHANGED <<keyOf, newest, queue, closed, lock, workerVars, mailbox,
                   shuttingDown, gauges, counters>>

Join ==
    /\ comp = "joining" /\ \A w \in Workers : wpc[w] = "exited"
    /\ comp' = "ready"
    /\ UNCHANGED <<keyOf, newest, staged, queue, closed, lock, live, cancelled,
                   workerVars, mailbox, shuttingDown, gauges, counters>>

\* Drop: as shutdown, but a running worker is not joined; the receiver goes.
Drop ==
    /\ comp = "ready"
    /\ shuttingDown' = TRUE /\ closed' = TRUE
    /\ wpc' = [w \in Workers |-> IF wpc[w] = "waiting" THEN "pop" ELSE wpc[w]]
    /\ staged' = None
    /\ cancelled' = cancelled \cup ({live[k] : k \in Keys} \ {None})
    /\ live' = [k \in Keys |-> None]
    /\ mailbox' = <<>>
    /\ comp' = "gone"
    /\ UNCHANGED <<keyOf, newest, queue, lock, wjob, wrecord, gauges, counters>>

-----------------------------------------------------------------------------
(* Workers                                                                 *)

Move(w, to) == wpc' = [wpc EXCEPT ![w] = to]

\* pop: a job, the end of a closed queue, or the way into wait, which
\* releases the lock only as it starts to wait.
PopJob(w) ==
    /\ wpc[w] = "pop" /\ lock = "free" /\ queue # <<>>
    /\ queue' = Tail(queue)
    /\ wjob' = [wjob EXCEPT ![w] = Head(queue)]
    /\ Move(w, "popped")
    /\ UNCHANGED <<compVars, closed, lock, live, cancelled, wrecord, mailbox,
                   shuttingDown, gauges, counters>>

PopClosed(w) ==
    /\ wpc[w] = "pop" /\ lock = "free" /\ queue = <<>> /\ closed
    /\ Move(w, "exited")
    /\ UNCHANGED <<compVars, queue, closed, lock, live, cancelled, wjob,
                   wrecord, mailbox, shuttingDown, gauges, counters>>

PopEmpty(w) ==
    /\ wpc[w] = "pop" /\ lock = "free" /\ queue = <<>> /\ ~closed
    /\ Move(w, "prewait") /\ lock' = w
    /\ UNCHANGED <<compVars, queue, closed, live, cancelled, wjob, wrecord,
                   mailbox, shuttingDown, gauges, counters>>

Wait(w) ==
    /\ wpc[w] = "prewait"
    /\ Move(w, "waiting") /\ lock' = "free"
    /\ UNCHANGED <<compVars, queue, closed, live, cancelled, wjob, wrecord,
                   mailbox, shuttingDown, gauges, counters>>

\* note_claimed: pending goes down first, then in_flight goes up.
ClaimPending(w) ==
    /\ wpc[w] = "popped"
    /\ pending' = pending - 1
    /\ Move(w, "claiming")
    /\ UNCHANGED <<compVars, queue, closed, lock, live, cancelled, wjob,
                   wrecord, mailbox, shuttingDown, inFlight, awaiting, counters>>

ClaimInFlight(w) ==
    /\ wpc[w] = "claiming"
    /\ inFlight' = inFlight + 1
    /\ Move(w, "started")
    /\ UNCHANGED <<compVars, queue, closed, lock, live, cancelled, wjob,
                   wrecord, mailbox, shuttingDown, pending, awaiting, counters>>

Stale(w) == shuttingDown \/ wjob[w] \in cancelled

\* run_job before the evaluation: stale work is discarded, a job past its
\* deadline yields a failed record, the rest is evaluated.
RunStart(w) ==
    /\ wpc[w] = "started"
    /\ \/ /\ Move(w, "decided")
          /\ wrecord' = [wrecord EXCEPT ![w] = ~Stale(w)]
       \/ ~Stale(w) /\ Move(w, "evaluating") /\ UNCHANGED wrecord
    /\ UNCHANGED <<compVars, queue, closed, lock, live, cancelled, wjob,
                   mailbox, shuttingDown, gauges, counters>>

\* run_job after the evaluation: stale work is discarded; a missed deadline,
\* a planner error and a decision all yield a record.
RunEnd(w) ==
    /\ wpc[w] = "evaluating"
    /\ Move(w, "decided")
    /\ wrecord' = [wrecord EXCEPT ![w] = ~Stale(w)]
    /\ UNCHANGED <<compVars, queue, closed, lock, live, cancelled, wjob,
                   mailbox, shuttingDown, gauges, counters>>

\* note_published: in_flight goes down first, then awaiting_drain goes up.
PublishInFlight(w) ==
    /\ wpc[w] = "decided"
    /\ inFlight' = inFlight - 1
    /\ Move(w, "releasing")
    /\ UNCHANGED <<compVars, queue, closed, lock, live, cancelled, wjob,
                   wrecord, mailbox, shuttingDown, pending, awaiting, counters>>

PublishAwaiting(w) ==
    /\ wpc[w] = "releasing"
    /\ awaiting' = awaiting + 1
    /\ Move(w, "fence")
    /\ UNCHANGED <<compVars, queue, closed, lock, live, cancelled, wjob,
                   wrecord, mailbox, shuttingDown, pending, inFlight, counters>>

Current(w) == /\ wjob[w] \notin cancelled
              /\ ~shuttingDown
              /\ live[keyOf[wjob[w]]] = wjob[w]

\* Mutant: the record is sent as run_job decided it.
SendUnfenced(w) ==
    LET completion == [job |-> wjob[w], record |-> wrecord[w]]
    IN IF comp # "gone" /\ Len(mailbox) < MailboxCapacity
       THEN mailbox' = Append(mailbox, completion) /\ UNCHANGED <<awaiting, lost>>
       ELSE awaiting' = awaiting - 1 /\ lost' = lost + 1 /\ UNCHANGED mailbox

\* try_send: evidence only while this job is its chain's current revision; a
\* full or closed mailbox loses the completion.
Send(w) ==
    LET completion == [job |-> wjob[w], record |-> wrecord[w] /\ Current(w)]
    IN IF comp # "gone" /\ Len(mailbox) < MailboxCapacity
       THEN mailbox' = Append(mailbox, completion) /\ UNCHANGED <<awaiting, lost>>
       ELSE awaiting' = awaiting - 1 /\ lost' = lost + 1 /\ UNCHANGED mailbox

\* Mutant: the chain's entry is retired whoever it belongs to.
RetireAny(w) == live' = [live EXCEPT ![keyOf[wjob[w]]] = None]

\* The worker's own registry entry is retired, by token identity.
Retire(w) ==
    live' = [k \in Keys |-> IF live[k] = wjob[w] THEN None ELSE live[k]]

\* publish_fenced
Publish(w) ==
    /\ wpc[w] = "fence" /\ lock = "free"
    /\ Send(w)
    /\ Retire(w)
    /\ wjob' = [wjob EXCEPT ![w] = None]
    /\ wrecord' = [wrecord EXCEPT ![w] = FALSE]
    /\ Move(w, "pop")
    /\ UNCHANGED <<compVars, queue, closed, lock, cancelled, shuttingDown,
                   pending, inFlight, submitted, completed>>

-----------------------------------------------------------------------------
Composition ==
    \/ \E key \in Keys, eligible \in BOOLEAN : Stage(key, eligible)
    \/ RouteFails \/ Supersede \/ CommitPush \/ CommitNothing
    \/ StartTick \/ DrainOne \/ DrainEnd
    \/ ShutdownFlag \/ Close \/ NotifyAll \/ CancelAll \/ Join \/ Drop

Worker(w) ==
    \/ PopJob(w) \/ PopClosed(w) \/ PopEmpty(w) \/ Wait(w)
    \/ ClaimPending(w) \/ ClaimInFlight(w) \/ RunStart(w) \/ RunEnd(w)
    \/ PublishInFlight(w) \/ PublishAwaiting(w) \/ Publish(w)

Next == Composition \/ \E w \in Workers : Worker(w)

\* A thread that can step steps; policies honour their deadline, as the
\* ShadowPolicy contract demands, so that an evaluation ends.
Fairness ==
    /\ \A w \in Workers : WF_vars(Worker(w))
    /\ WF_vars(Supersede \/ CommitPush \/ CommitNothing)
    /\ WF_vars(DrainOne \/ DrainEnd)
    /\ WF_vars(Close \/ NotifyAll \/ CancelAll \/ Join)

Spec == Init /\ [][Next]_vars
FairSpec == Spec /\ Fairness

-----------------------------------------------------------------------------
(* Properties                                                              *)

Jobs == 1..MaxEvents

\* Every variable has its type.
TypeOK ==
    /\ keyOf \in BoundedSeq(Keys, MaxEvents)
    /\ newest \in [Keys -> 0..MaxEvents] /\ live \in [Keys -> 0..MaxEvents]
    /\ staged \in 0..MaxEvents /\ comp \in CompPcs
    /\ queue \in Seq(Jobs) /\ Len(queue) <= QueueCapacity
    /\ closed \in BOOLEAN /\ shuttingDown \in BOOLEAN
    /\ lock \in Workers \cup {"free"}
    /\ cancelled \subseteq Jobs
    /\ wpc \in [Workers -> WorkerPcs]
    /\ wjob \in [Workers -> 0..MaxEvents] /\ wrecord \in [Workers -> BOOLEAN]
    /\ mailbox \in Seq([job : Jobs, record : BOOLEAN])
    /\ Len(mailbox) <= MailboxCapacity
    /\ {pending, inFlight, awaiting, submitted, completed, lost} \subseteq Nat

Held(pcs) == Cardinality({w \in Workers : wpc[w] \in pcs})

Queued(j) == \E i \in DOMAIN queue : queue[i] = j
Working(j) == \E w \in Workers : wjob[w] = j
Outstanding(j) == Queued(j) \/ Working(j)

\* The gauges that the snapshot reads are exact: each counts precisely the
\* jobs in its stage, none goes below zero, and every submitted job is
\* completed, lost or still in one of the stages (ShadowCounters).
GaugesExact ==
    /\ pending = Len(queue) + Held({"popped"})
    /\ inFlight = Held({"started", "evaluating", "decided"})
    /\ comp # "gone" =>
         /\ awaiting = Held({"fence"}) + Len(mailbox)
         /\ submitted = completed + lost + Len(mailbox) + Len(queue)
                        + Held({"popped", "claiming", "started", "evaluating",
                                "decided", "releasing", "fence"})

\* The supersession registry holds only live work: an entry belongs to a job
\* that is queued or held by a worker, is not cancelled, and is the newest
\* revision of its chain; so it empties when the pool drains
\* (try_push_superseding, publish_fenced, supersede).
RegistryLive ==
    \A k \in Keys : live[k] # None =>
        /\ keyOf[live[k]] = k
        /\ Outstanding(live[k])
        /\ live[k] \notin cancelled
        /\ live[k] = newest[k]

\* A superseded or cancelled revision's evidence is never published: when a
\* record enters the mailbox, no newer event of its chain has been routed,
\* however the fence, the evaluation and supersession interleave.
PublishesFresh ==
    Len(mailbox') > Len(mailbox) /\ Last(mailbox').record =>
        LET j == Last(mailbox').job IN newest[keyOf[j]] = j
NoStaleEvidence == [][PublishesFresh]_vars

\* A job that is not superseded and not caught by shutdown keeps its
\* registry entry until it publishes, so that a later revision finds and
\* cancels it: no other chain's or worker's completion evicts it.
CurrentKeepsEntry ==
    \A j \in Jobs : Outstanding(j) /\ j \notin cancelled =>
        live[keyOf[j]] = j

\* Once shutdown has returned nothing is queued, staged, registered or
\* running (shutdown's contract).
ShutdownLeavesNothing ==
    comp = "ready" /\ shuttingDown =>
        /\ queue = <<>> /\ staged = None
        /\ \A w \in Workers : wpc[w] = "exited"
        /\ \A k \in Keys : live[k] = None

\* Every admitted job is worked off: a job in the queue or with a worker
\* eventually leaves the pool, shutdown or drop included.
JobsFinish == \A j \in Jobs : Outstanding(j) ~> ~Outstanding(j)

\* is_quiescent: "no shadow work is outstanding anywhere".
Quiescent == pending = 0 /\ inFlight = 0 /\ awaiting = 0 /\ staged = None

\* A quiescent snapshot means that no job is outstanding anywhere
\* (is_quiescent and the comment on note_claimed).
QuiescentMeansIdle ==
    Quiescent => /\ mailbox = <<>>
                 /\ \A j \in Jobs : ~Outstanding(j)

\* Every admitted job's completion reaches the composition thread: none is
\* lost because the mailbox is full (ShadowCompletion, completion_capacity).
NoCompletionLost == comp # "gone" => lost = 0

\* A shutdown that has begun returns (shutdown joins every worker).
ShutdownReturns == (comp = "joining") ~> (comp # "joining")
=============================================================================
