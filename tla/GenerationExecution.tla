------------------------ MODULE GenerationExecution ------------------------
(***************************************************************************)
(* Generative work of the production app (crates/app/src/lib.rs): the      *)
(* composition thread submits generations to one provider worker over a    *)
(* bounded queue, the worker runs the pipeline of crates/generative and    *)
(* posts completions to a bounded mailbox, and the composition thread      *)
(* commits or discards them.  The cancellation registry, the generation    *)
(* identity and the three outstanding-work counters are shared.            *)
(*                                                                         *)
(* `cpc` is the composition thread and `wpc` the worker.  Every access to  *)
(* an atomic counter, a channel or a token that the other thread can       *)
(* observe is a step of its own; state that only the composition thread    *)
(* touches moves with the step that decides it.  0 stands for              *)
(* Option::None among generations: ids start at 1.                         *)
(*                                                                         *)
(* Left out: the telemetry counters and high-water marks, traces and       *)
(* latencies, and the id counter's saturation at u64::MAX.                 *)
(***************************************************************************)
EXTENDS Integers, Sequences, FiniteSets

CONSTANTS
    Events,           \* event ids of admitted content
    Rank,             \* Events -> rank of priority_for_event, 0 the most urgent
    QueueCapacity,    \* config.queue_capacity
    MaxGenerations,   \* bound on submissions
    UniqueEvents,     \* is an event id submitted at most once?
    ProvidersPanic,   \* may a provider call panic on the worker thread?
    NoEvent

Gens == 1..MaxGenerations

Results == {"generated", "fallback", "cancelled", "error"}
Settled == {"played", "silent", "failed", "discarded", "dropped", "lost"}
Committed == {"played", "silent", "failed"}
Fates == {"unused", "refused", "live"} \cup Settled

ASSUME ConfigAssumption ==
    /\ QueueCapacity \in Nat \ {0}
    /\ MaxGenerations \in Nat
    /\ UniqueEvents \in BOOLEAN
    /\ ProvidersPanic \in BOOLEAN

ASSUME EventAssumption ==
    /\ Rank \in [Events -> Nat]
    /\ NoEvent \notin Events

VARIABLES
    queue,         \* the work channel
    mailbox,       \* the completion channel
    pending,       \* counters.pending
    inFlight,      \* counters.in_flight
    awaiting,      \* counters.awaiting_drain
    cancelled,     \* generations whose token is cancelled
    registry,      \* the generation GenerationCancellationRegistry holds, or 0
    active,        \* active_generation_id, or 0
    nextId,        \* next_generation_id
    eventOf,       \* the source event of each generation
    shuttingDown,  \* shutting_down
    senderOpen,    \* work_tx is Some
    wpc,           \* the worker's place
    wgen,          \* the generation in the worker's hands
    wresult,       \* its result, once known
    cpc,           \* the composition thread's place
    cevent,        \* the event it handles
    cdone,         \* the completion it took
    snap,          \* the snapshot it is reading
    expired,       \* generations past their provider_deadline
    fate,          \* history: what became of each generation
    fenced         \* history: generations overtaken by a later event or command

channels == <<queue, mailbox>>
counters == <<pending, inFlight, awaiting>>
identity == <<registry, active, nextId, eventOf>>
lifecycle == <<shuttingDown, senderOpen>>
worker == <<wpc, wgen, wresult>>
composer == <<cpc, cevent, cdone, snap>>
vars == <<queue, mailbox, pending, inFlight, awaiting, cancelled, registry,
          active, nextId, eventOf, shuttingDown, senderOpen, wpc, wgen,
          wresult, cpc, cevent, cdone, snap, expired, fate, fenced>>

Live == {g \in Gens : fate[g] = "live"}

CompletionType == [gen : Gens, result : Results]
Nothing == [gen |-> 0, result |-> "none"]
NoSnapshot == [pending |-> 0, inFlight |-> 0, awaiting |-> 0]

Init ==
    /\ queue = <<>> /\ mailbox = <<>>
    /\ pending = 0 /\ inFlight = 0 /\ awaiting = 0
    /\ cancelled = {} /\ registry = 0 /\ active = 0 /\ nextId = 0
    /\ eventOf = [g \in Gens |-> NoEvent]
    /\ shuttingDown = FALSE /\ senderOpen = TRUE
    /\ wpc = "recv" /\ wgen = 0 /\ wresult = "none"
    /\ cpc = "idle" /\ cevent = NoEvent /\ cdone = Nothing
    /\ snap = NoSnapshot
    /\ expired = {} /\ fate = [g \in Gens |-> "unused"] /\ fenced = {}

-----------------------------------------------------------------------------
(* The composition thread: content.                                        *)

\* cancel_for_event: is the incoming event more urgent than generation g's?
Outranks(e, g) == Rank[e] < Rank[eventOf[g]]

\* process_content_bytes up to routing; a more urgent event cancels the
\* registered generation, whose entry stays.
ProcessContent(e) ==
    /\ cpc = "idle"
    /\ cancelled' = cancelled \cup {g \in {registry} \ {0} : Outranks(e, g)}
    /\ fenced' = fenced \cup {g \in Live : Rank[e] < Rank[eventOf[g]]}
    /\ cevent' = e
    /\ cpc' = "route"
    /\ UNCHANGED <<channels, counters, identity, lifecycle, worker, cdone,
                   snap, expired, fate>>

\* Every route that submits nothing: cached, template, silent, and the
\* immediate fallbacks for too little remaining time or a denied budget.  An
\* error returns before the tick.
RouteElsewhere ==
    /\ cpc = "route"
    /\ cpc' \in {"drain", "idle"}
    /\ cevent' = NoEvent
    /\ UNCHANGED <<channels, counters, cancelled, identity, lifecycle, worker,
                   cdone, snap, expired, fate, fenced>>

\* GenerativeRuntime::submit: the next id is taken before anything can fail.
NewGeneration ==
    /\ cpc = "route"
    /\ nextId < MaxGenerations
    /\ UniqueEvents => \A g \in Gens : eventOf[g] # cevent
    /\ nextId' = nextId + 1
    /\ eventOf' = [eventOf EXCEPT ![nextId + 1] = cevent]
    /\ cevent' = NoEvent

\* try_submit after shutdown; the caller cancels the token and falls back.
SubmitRefused ==
    /\ NewGeneration
    /\ shuttingDown
    /\ cancelled' = cancelled \cup {nextId + 1}
    /\ fate' = [fate EXCEPT ![nextId + 1] = "refused"]
    /\ cpc' \in {"drain", "idle"}
    /\ UNCHANGED <<channels, counters, registry, active, lifecycle, worker,
                   cdone, snap, expired, fenced>>

\* try_submit counts the job before it is sent.
SubmitClaim ==
    /\ NewGeneration
    /\ ~shuttingDown
    /\ pending' = pending + 1
    /\ cpc' = "send"
    /\ UNCHANGED <<channels, inFlight, awaiting, cancelled, registry, active,
                   lifecycle, worker, cdone, snap, expired, fate,
                   fenced>>

Exited == wpc \in {"done", "dead"}

TrySend ==
    /\ cpc = "send"
    /\ Len(queue) < QueueCapacity
    /\ ~Exited
    /\ queue' = Append(queue, nextId)
    /\ fate' = [fate EXCEPT ![nextId] = "live"]
    /\ cpc' = "activate"
    /\ UNCHANGED <<mailbox, counters, cancelled, identity, lifecycle, worker,
                   cevent, cdone, snap, expired, fenced>>

\* Mutant: a refused job stays counted.
TrySendLeaks ==
    /\ cpc = "send"
    /\ Len(queue) >= QueueCapacity \/ Exited
    /\ cancelled' = cancelled \cup {nextId}
    /\ fate' = [fate EXCEPT ![nextId] = "refused"]
    /\ cpc' \in {"drain", "idle"}
    /\ UNCHANGED <<channels, counters, identity, lifecycle, worker, cevent,
                   cdone, snap, expired, fenced>>

\* Full or Disconnected: uncount, cancel the token, play the fallback.
TrySendFails ==
    /\ cpc = "send"
    /\ Len(queue) >= QueueCapacity \/ Exited
    /\ pending' = pending - 1
    /\ cancelled' = cancelled \cup {nextId}
    /\ fate' = [fate EXCEPT ![nextId] = "refused"]
    /\ cpc' \in {"drain", "idle"}
    /\ UNCHANGED <<channels, inFlight, awaiting, identity, lifecycle, worker,
                   cevent, cdone, snap, expired, fenced>>

\* registry.activate replaces the entry and cancels the previous token.
Activate ==
    /\ cpc = "activate"
    /\ cancelled' = cancelled \cup ({registry} \ {0})
    /\ registry' = nextId
    /\ active' = nextId
    /\ fenced' = fenced \cup (Live \ {nextId})
    /\ cpc' = "drain"
    /\ UNCHANGED <<channels, counters, nextId, eventOf, lifecycle, worker,
                   cevent, cdone, snap, expired, fate>>

-----------------------------------------------------------------------------
(* The composition thread: drain_generation_completions.                   *)

DrainEmpty ==
    /\ cpc = "drain"
    /\ mailbox = <<>>
    /\ cpc' = "idle"
    /\ UNCHANGED <<channels, counters, cancelled, identity, lifecycle, worker,
                   cevent, cdone, snap, expired, fate, fenced>>

DrainTake ==
    /\ cpc = "drain"
    /\ mailbox # <<>>
    /\ cdone' = Head(mailbox)
    /\ mailbox' = Tail(mailbox)
    /\ cpc' = "release"
    /\ UNCHANGED <<queue, counters, cancelled, identity, lifecycle, worker,
                   cevent, snap, expired, fate, fenced>>

DrainRelease ==
    /\ cpc = "release"
    /\ awaiting' = awaiting - 1
    /\ cpc' = "settle"
    /\ UNCHANGED <<channels, pending, inFlight, cancelled, identity, lifecycle,
                   worker, cevent, cdone, snap, expired, fate, fenced>>

\* is_current: the generation is the active one and its event is registered.
IsCurrent(g) ==
    active = g /\ registry # 0 /\ eventOf[registry] = eventOf[g]

\* Mutant: the fence forgets the token.
IgnoresToken(g) ==
    \/ shuttingDown
    \/ ~IsCurrent(g)
    \/ g \in expired

\* stale_or_cancelled: the commit fence.
StaleOrCancelled(g) ==
    \/ shuttingDown
    \/ ~IsCurrent(g)
    \/ g \in cancelled
    \/ g \in expired

\* Mutant: the active id is never cleared and the entry always is.
FinishAny(g) ==
    /\ registry' = 0
    /\ UNCHANGED active

\* GenerativeRuntime::finish: the id must match, the registry compares only
\* the event.
Finish(g) ==
    /\ active' = IF active = g THEN 0 ELSE active
    /\ registry' = IF registry # 0 /\ eventOf[registry] = eventOf[g]
                     THEN 0 ELSE registry

DrainDiscard ==
    /\ cpc = "settle"
    /\ StaleOrCancelled(cdone.gen)
    /\ Finish(cdone.gen)
    /\ fate' = [fate EXCEPT ![cdone.gen] = "discarded"]
    /\ cdone' = Nothing
    /\ cpc' = "drain"
    /\ UNCHANGED <<channels, counters, cancelled, nextId, eventOf, lifecycle,
                   worker, cevent, snap, expired, fenced>>

\* commit_generation_result: a generated asset is played, suppressed by the
\* second policy check or fails to insert or schedule; an error is replaced by
\* the fallback, which plays, stays silent or fails; a cancelled result is
\* silent.
CommitOutcomes(result) ==
    IF result = "cancelled" THEN {"silent"} ELSE Committed

DrainCommit ==
    /\ cpc = "settle"
    /\ ~StaleOrCancelled(cdone.gen)
    /\ Finish(cdone.gen)
    /\ \E outcome \in CommitOutcomes(cdone.result) :
           fate' = [fate EXCEPT ![cdone.gen] = outcome]
    /\ cdone' = Nothing
    /\ cpc' = "drain"
    /\ UNCHANGED <<channels, counters, cancelled, nextId, eventOf, lifecycle,
                   worker, cevent, snap, expired, fenced>>

-----------------------------------------------------------------------------
(* The composition thread: ticks, operator commands, shutdown, snapshots.  *)

\* Mutant: the tick does not drain completions.
TickWithoutDrain ==
    /\ cpc = "idle"
    /\ UNCHANGED vars

Tick ==
    /\ cpc = "idle"
    /\ cpc' = "drain"
    /\ UNCHANGED <<channels, counters, cancelled, identity, lifecycle, worker,
                   cevent, cdone, snap, expired, fate, fenced>>

\* Mutant: stop and mute leave generation alone.
OverrideIgnored ==
    /\ cpc = "idle"
    /\ fenced' = fenced \cup Live
    /\ cpc' = "drain"
    /\ UNCHANGED <<channels, counters, cancelled, identity, lifecycle, worker,
                   cevent, cdone, snap, expired, fate>>

\* handle_control with Stopped or Muted: cancel_active, then a tick.
Override ==
    /\ cpc = "idle"
    /\ cancelled' = cancelled \cup ({registry} \ {0})
    /\ fenced' = fenced \cup Live
    /\ cpc' = "drain"
    /\ UNCHANGED <<channels, counters, identity, lifecycle, worker, cevent,
                   cdone, snap, expired, fate>>

Shutdown ==
    /\ cpc = "idle"
    /\ cancelled' = cancelled \cup ({registry} \ {0})
    /\ active' = 0
    /\ shuttingDown' = TRUE
    /\ fenced' = fenced \cup Live
    /\ cpc' = "close"
    /\ UNCHANGED <<channels, counters, registry, nextId, eventOf, senderOpen,
                   worker, cevent, cdone, snap, expired, fate>>

\* work_tx.take(), then the tick at the end of ProductionApp::shutdown.
CloseSender ==
    /\ cpc = "close"
    /\ senderOpen' = FALSE
    /\ cpc' = "drain"
    /\ UNCHANGED <<channels, counters, cancelled, identity, shuttingDown,
                   worker, cevent, cdone, snap, expired, fate, fenced>>

InMailbox == {mailbox[i].gen : i \in 1..Len(mailbox)}

\* The app is dropped: the executor shuts down and its receiver goes away
\* with what was in the mailbox; the worker is detached.
DropApp ==
    /\ cpc = "idle"
    /\ shuttingDown' = TRUE
    /\ senderOpen' = FALSE
    /\ mailbox' = <<>>
    /\ fate' = [g \in Gens |-> IF g \in InMailbox THEN "lost" ELSE fate[g]]
    /\ cpc' = "gone"
    /\ UNCHANGED <<queue, counters, cancelled, identity, worker, cevent, cdone,
                   snap, expired, fenced>>

\* snapshot: three SeqCst loads in transition order.
ReadPending ==
    /\ cpc = "idle"
    /\ snap' = [snap EXCEPT !.pending = pending]
    /\ cpc' = "snapInFlight"
    /\ UNCHANGED <<channels, counters, cancelled, identity, lifecycle, worker,
                   cevent, cdone, expired, fate, fenced>>

ReadInFlight ==
    /\ cpc = "snapInFlight"
    /\ snap' = [snap EXCEPT !.inFlight = inFlight]
    /\ cpc' = "snapAwaiting"
    /\ UNCHANGED <<channels, counters, cancelled, identity, lifecycle, worker,
                   cevent, cdone, expired, fate, fenced>>

ReadAwaiting ==
    /\ cpc = "snapAwaiting"
    /\ snap' = [snap EXCEPT !.awaiting = awaiting]
    /\ cpc' = "snapped"
    /\ UNCHANGED <<channels, counters, cancelled, identity, lifecycle, worker,
                   cevent, cdone, expired, fate, fenced>>

ReturnSnapshot ==
    /\ cpc = "snapped"
    /\ snap' = NoSnapshot
    /\ cpc' = "idle"
    /\ UNCHANGED <<channels, counters, cancelled, identity, lifecycle, worker,
                   cevent, cdone, expired, fate, fenced>>

\* Mutant: completions not yet drained do not count.
IgnoresMailbox(s) == s.pending = 0 /\ s.inFlight = 0

\* is_quiescent
IsQuiescent(s) == s.pending = 0 /\ s.inFlight = 0 /\ s.awaiting = 0

-----------------------------------------------------------------------------
(* The provider worker: the job's handoffs.                                *)

WorkerRecv ==
    /\ wpc = "recv"
    /\ queue # <<>>
    /\ wgen' = Head(queue)
    /\ queue' = Tail(queue)
    /\ wpc' = "claim"
    /\ UNCHANGED <<mailbox, counters, cancelled, identity, lifecycle, wresult,
                   composer, expired, fate, fenced>>

\* recv fails once the sender is closed and the queue is empty.
WorkerExit ==
    /\ wpc = "recv"
    /\ queue = <<>>
    /\ ~senderOpen
    /\ wpc' = "done"
    /\ UNCHANGED <<channels, counters, cancelled, identity, lifecycle, wgen,
                   wresult, composer, expired, fate, fenced>>

\* note_taken_into_flight: claim_in_flight, then release_pending.
ClaimInFlight ==
    /\ wpc = "claim"
    /\ inFlight' = inFlight + 1
    /\ wpc' = "release"
    /\ UNCHANGED <<channels, pending, awaiting, cancelled, identity, lifecycle,
                   wgen, wresult, composer, expired, fate, fenced>>

ReleasePending ==
    /\ wpc = "release"
    /\ pending' = pending - 1
    /\ wpc' = "fence"
    /\ UNCHANGED <<channels, inFlight, awaiting, cancelled, identity,
                   lifecycle, wgen, wresult, composer, expired, fate, fenced>>

\* After shutdown the job is dropped and in-flight released on its own.
WorkerDrops ==
    /\ wpc = "fence"
    /\ shuttingDown
    /\ inFlight' = inFlight - 1
    /\ fate' = [fate EXCEPT ![wgen] = "dropped"]
    /\ wpc' = "recv"
    /\ wgen' = 0
    /\ UNCHANGED <<channels, pending, awaiting, cancelled, identity, lifecycle,
                   wresult, composer, expired, fenced>>

WorkerStarts ==
    /\ wpc = "fence"
    /\ ~shuttingDown
    /\ wpc' = "begin"
    /\ UNCHANGED <<channels, counters, cancelled, identity, lifecycle, wgen,
                   wresult, composer, expired, fate, fenced>>

\* note_ready_to_publish: claim_drain_window, then release_in_flight.
ClaimDrain ==
    /\ wpc = "claimDrain"
    /\ awaiting' = awaiting + 1
    /\ wpc' = "releaseFlight"
    /\ UNCHANGED <<channels, pending, inFlight, cancelled, identity, lifecycle,
                   wgen, wresult, composer, expired, fate, fenced>>

ReleaseInFlight ==
    /\ wpc = "releaseFlight"
    /\ inFlight' = inFlight - 1
    /\ wpc' = "send"
    /\ UNCHANGED <<channels, pending, awaiting, cancelled, identity, lifecycle,
                   wgen, wresult, composer, expired, fate, fenced>>

\* Mutant: room for the queued jobs only.
CapacityOfQueue == QueueCapacity

CompletionCapacity == QueueCapacity + 1

\* Mutant: a completion that finds the mailbox full is thrown away.
SendOrForget ==
    /\ wpc = "send"
    /\ cpc # "gone"
    /\ mailbox' = IF Len(mailbox) < CompletionCapacity
                    THEN Append(mailbox, [gen |-> wgen, result |-> wresult])
                    ELSE mailbox
    /\ wpc' = "recv"
    /\ wgen' = 0 /\ wresult' = "none"
    /\ UNCHANGED <<queue, counters, cancelled, identity, lifecycle, composer,
                   expired, fate, fenced>>

\* The blocking send on the mailbox.
WorkerSends ==
    /\ wpc = "send"
    /\ cpc # "gone"
    /\ Len(mailbox) < CompletionCapacity
    /\ mailbox' = Append(mailbox, [gen |-> wgen, result |-> wresult])
    /\ wpc' = "recv"
    /\ wgen' = 0 /\ wresult' = "none"
    /\ UNCHANGED <<queue, counters, cancelled, identity, lifecycle, composer,
                   expired, fate, fenced>>

InQueue == {queue[i] : i \in 1..Len(queue)}

\* The receiver is gone: release the drain window and stop; the queued jobs go
\* with the work receiver.
WorkerSendFails ==
    /\ wpc = "send"
    /\ cpc = "gone"
    /\ awaiting' = awaiting - 1
    /\ queue' = <<>>
    /\ fate' = [g \in Gens |-> IF g \in InQueue \cup {wgen} THEN "lost" ELSE fate[g]]
    /\ wpc' = "done"
    /\ wgen' = 0 /\ wresult' = "none"
    /\ UNCHANGED <<mailbox, pending, inFlight, cancelled, identity, lifecycle,
                   composer, expired, fenced>>

-----------------------------------------------------------------------------
(* The provider worker: run_with_output_gate_and_fallback_deadline.        *)

Pipeline(from, to) ==
    /\ wpc = from
    /\ wpc' = to
    /\ UNCHANGED <<channels, counters, cancelled, identity, lifecycle, wgen,
                   composer, expired, fate, fenced>>

Conclude(from, result) ==
    /\ Pipeline(from, "claimDrain")
    /\ wresult' = result

Proceed(from, to) ==
    /\ Pipeline(from, to)
    /\ UNCHANGED wresult

\* The request's own validation may fail, whatever the token says.
BeginInvalid == Conclude("begin", "error")

BeginCancelled == wgen \in cancelled /\ Conclude("begin", "cancelled")

BeginExpired ==
    wgen \notin cancelled /\ wgen \in expired /\ Conclude("begin", "fallback")

Think == wgen \notin cancelled /\ wgen \notin expired /\ Proceed("begin", "thinking")

ThinkingFails == Conclude("thinking", "fallback")
ThinkingReplies == Proceed("thinking", "thought")

CancelledAfterThinking == wgen \in cancelled /\ Conclude("thought", "cancelled")
PassThinking == wgen \notin cancelled /\ Proceed("thought", "gate")

\* The output gate rejects the text, or no time is left for speech.
GateFallsBack == Conclude("gate", "fallback")
Speak == wgen \notin expired /\ Proceed("gate", "tts")

TtsFails == Conclude("tts", "fallback")
TtsReplies == Proceed("tts", "spoken")

CancelledAfterTts == wgen \in cancelled /\ Conclude("spoken", "cancelled")
PassTts == wgen \notin cancelled /\ Proceed("spoken", "compile")

CompileFails == Conclude("compile", "fallback")
Compile == Proceed("compile", "publish")

CancelledBeforePublish == wgen \in cancelled /\ Conclude("publish", "cancelled")
Generate == wgen \notin cancelled /\ Conclude("publish", "generated")

PipelineStep ==
    \/ BeginInvalid \/ BeginCancelled \/ BeginExpired \/ Think
    \/ ThinkingFails \/ ThinkingReplies
    \/ CancelledAfterThinking \/ PassThinking
    \/ GateFallsBack \/ Speak
    \/ TtsFails \/ TtsReplies
    \/ CancelledAfterTts \/ PassTts
    \/ CompileFails \/ Compile
    \/ CancelledBeforePublish \/ Generate

\* A provider panics and the thread unwinds: its job and the queued ones are
\* dropped with the receiver, and no counter is released.
WorkerPanics ==
    /\ ProvidersPanic
    /\ wpc \in {"thinking", "tts"}
    /\ queue' = <<>>
    /\ fate' = [g \in Gens |-> IF g \in InQueue \cup {wgen} THEN "lost" ELSE fate[g]]
    /\ wpc' = "dead"
    /\ wgen' = 0
    /\ UNCHANGED <<mailbox, counters, cancelled, identity, lifecycle, wresult,
                   composer, expired, fenced>>

\* Real time passes the provider deadline of an outstanding generation.
Expire(g) ==
    /\ g \in Live \ expired
    /\ expired' = expired \cup {g}
    /\ UNCHANGED <<channels, counters, cancelled, identity, lifecycle, worker,
                   composer, fate, fenced>>

-----------------------------------------------------------------------------
(* The specification.                                                      *)

WorkerStep ==
    \/ WorkerRecv \/ WorkerExit \/ ClaimInFlight \/ ReleasePending
    \/ WorkerDrops \/ WorkerStarts \/ PipelineStep
    \/ ClaimDrain \/ ReleaseInFlight \/ WorkerSends \/ WorkerSendFails

\* The rest of an operation the composition thread has begun.
ComposerStep ==
    \/ RouteElsewhere \/ SubmitRefused \/ SubmitClaim
    \/ TrySend \/ TrySendFails \/ Activate
    \/ DrainEmpty \/ DrainTake \/ DrainRelease \/ DrainDiscard \/ DrainCommit
    \/ CloseSender \/ ReadInFlight \/ ReadAwaiting \/ ReturnSnapshot

ComposerCall ==
    \/ \E e \in Events : ProcessContent(e)
    \/ Tick \/ Override \/ Shutdown \/ DropApp \/ ReadPending

Next ==
    \/ WorkerStep
    \/ WorkerPanics
    \/ ComposerStep
    \/ ComposerCall
    \/ \E g \in Gens : Expire(g)

\* Both threads run; a provider call returns or times out; the main loop comes
\* back to its tick between other calls.
Fairness ==
    /\ WF_vars(WorkerStep)
    /\ WF_vars(ComposerStep)
    /\ SF_vars(Tick)

Spec == Init /\ [][Next]_vars /\ Fairness

-----------------------------------------------------------------------------
(* Properties.                                                             *)

WorkerPlaces ==
    {"recv", "claim", "release", "fence", "begin", "thinking", "thought",
     "gate", "tts", "spoken", "compile", "publish", "claimDrain",
     "releaseFlight", "send", "done", "dead"}

ComposerPlaces ==
    {"idle", "route", "send", "activate", "drain", "release", "settle",
     "close", "snapInFlight", "snapAwaiting", "snapped", "gone"}

\* Every variable stays in its domain; no counter of the executor falls below
\* zero, where fetch_sub would wrap around.
TypeOK ==
    /\ queue \in Seq(Gens)
    /\ mailbox \in Seq(CompletionType)
    /\ pending \in Nat /\ inFlight \in Nat /\ awaiting \in Nat
    /\ cancelled \subseteq Gens /\ expired \subseteq Gens /\ fenced \subseteq Gens
    /\ nextId \in 0..MaxGenerations
    /\ registry \in 0..MaxGenerations /\ active \in 0..MaxGenerations
    /\ eventOf \in [Gens -> Events \cup {NoEvent}]
    /\ shuttingDown \in BOOLEAN /\ senderOpen \in BOOLEAN
    /\ wpc \in WorkerPlaces /\ wgen \in 0..MaxGenerations /\ wresult \in Results \cup {"none"}
    /\ cpc \in ComposerPlaces /\ cevent \in Events \cup {NoEvent}
    /\ cdone \in CompletionType \cup {Nothing}
    /\ snap \in [pending : Nat, inFlight : Nat, awaiting : Nat]
    /\ fate \in [Gens -> Fates]

One(condition) == IF condition THEN 1 ELSE 0

Dequeued  == wpc \in {"claim", "release"}
Executing == wpc \in WorkerPlaces \ {"recv", "claim", "send", "done", "dead"}
Publishing == wpc \in {"releaseFlight", "send"}
InHand    == wpc \notin {"recv", "done", "dead"}

\* The counters count what they name: between any two steps of either thread
\* pending, in_flight and awaiting_drain equal the jobs queued, executing and
\* undrained plus those in the overlap of a handoff.  A refused submission
\* leaves no trace.  (A dead worker or a dropped app never settles its count.)
CountersExact ==
    wpc # "dead" /\ cpc # "gone" =>
        /\ pending = Len(queue) + One(cpc = "send") + One(Dequeued)
        /\ inFlight = One(Executing)
        /\ awaiting = Len(mailbox) + One(Publishing) + One(cpc = "release")

\* A snapshot read load by load while the worker runs reports quiescence only
\* when no job is queued, in the worker's hands or undrained (issue #177).
QuiescenceSound ==
    cpc = "snapped" /\ IsQuiescent(snap) =>
        queue = <<>> /\ ~InHand /\ mailbox = <<>>

\* Every accepted, unsettled generation is in exactly one place: the queue, the
\* worker's hands, the mailbox or the composition thread's hands.
NoJobLost ==
    /\ Live = InQueue \cup InMailbox
              \cup (IF InHand THEN {wgen} ELSE {})
              \cup (IF cpc \in {"release", "settle"} THEN {cdone.gen} ELSE {})
    /\ Cardinality(Live) = Len(queue) + Len(mailbox) + One(InHand)
                           + One(cpc \in {"release", "settle"})

\* Once a newer generation was accepted, a more urgent event was admitted, or
\* the operator stopped, muted or shut the app down, no generation that was
\* outstanding then is ever committed, although only one token is registered.
FencedNeverCommitted == \A g \in fenced : fate[g] \notin Committed

\* What is committed is the completion in hand, and never a result that the
\* pipeline itself cut short: the Cancelled arm of commit_generation_result is
\* unreachable from a drain.
CancelledNeverCommitted ==
    [][\A g \in Gens : fate'[g] \in Committed /\ fate[g] \notin Committed =>
         cdone.gen = g /\ cdone.result # "cancelled"]_vars

\* Between calls the mailbox has room for whatever the worker will finish: the
\* worker is never left blocked while the composition thread waits for events.
MailboxSufficient ==
    cpc = "idle" /\ wpc = "send" => Len(mailbox) < CompletionCapacity

Unrepeated == \A g, h \in Gens : eventOf[g] = eventOf[h] => g = h \/ eventOf[g] = NoEvent

\* At most one outstanding generation is worth finishing: accepting a newer one
\* cancels the token of every other one.  (For unrepeated event ids.)
OneUncancelled ==
    Unrepeated /\ cpc # "activate" => \A g, h \in Live \ cancelled : g = h

\* No completion is thrown away without a reason: a discarded generation was
\* overtaken or its deadline passed.  (For unrepeated event ids.)
DiscardJustified ==
    Unrepeated => \A g \in Gens : fate[g] = "discarded" => g \in fenced \cup expired

\* Every accepted generation is eventually committed, discarded or dropped: it
\* is not live forever.  (A settled generation never becomes live again.)  And
\* after a shutdown the worker thread comes to its end, whatever it was doing
\* and whatever was queued or undrained; shutting down and having ended are
\* both for good.
EveryGenerationSettles ==
    /\ \A g \in Gens : []<>(fate[g] # "live")
    /\ []<>(shuttingDown => wpc = "done")

\* docs/generative-fallback.adoc: "Finishing a stale older completion cannot
\* clear a newer active generation."
StaleFinishKeepsNewer ==
    [][cpc = "settle" /\ cdone.gen < registry => registry' = registry]_vars

-----------------------------------------------------------------------------
(* The inductive invariant behind the safety properties.                   *)

\* What each place of the two threads implies about the locals in use there.
PlacesOK ==
    /\ cpc \in {"send", "activate"} => nextId # 0
    /\ cpc \in {"release", "settle"} => cdone # Nothing
    /\ InHand => wgen # 0
    /\ wpc \in {"claimDrain", "releaseFlight", "send"} <=> wresult # "none"

\* A job is always counted at least once; also after a panic or a drop.
CountedAtLeast ==
    /\ pending >= Len(queue) + One(cpc = "send") + One(Dequeued)
    /\ inFlight >= One(Executing)
    /\ awaiting >= Len(mailbox) + One(Publishing) + One(cpc = "release")

\* What the loads of a snapshot have established so far.  A zero stays true
\* because nothing is submitted meanwhile and jobs only move forward.
SnapshotSound ==
    /\ cpc \in {"snapInFlight", "snapAwaiting", "snapped"} /\ snap.pending = 0 =>
         queue = <<>> /\ ~Dequeued
    /\ cpc \in {"snapAwaiting", "snapped"} /\ snap.pending = 0 /\ snap.inFlight = 0 =>
         ~Executing
    /\ QuiescenceSound

\* Both channels keep to their capacity, and a drain to empty leaves at most
\* one completion per place of the mailbox to come.
RoomOK ==
    /\ Len(queue) <= QueueCapacity
    /\ Len(queue) + One(InHand) + Len(mailbox) <=
         CompletionCapacity + One(cpc \in {"activate", "drain", "release", "settle"})

\* A generation that was overtaken is not the active one, or cannot pass.
FenceOK ==
    /\ registry # 0 /\ active # 0 => registry = active
    /\ \A g \in Live : g <= nextId /\ (cpc = "send" => g # nextId)
    /\ \A g \in fenced :
         /\ g <= nextId /\ (cpc \in {"send", "activate"} => g # nextId)
         /\ fate[g] \notin Committed
         /\ g = active => g \in cancelled \/ registry = 0 \/ shuttingDown

\* A cancelled result stems from a cancelled token.
ResultsOK ==
    /\ wresult = "cancelled" => wgen \in cancelled
    /\ \A i \in 1..Len(mailbox) :
         mailbox[i].result = "cancelled" => mailbox[i].gen \in cancelled
    /\ cdone.result = "cancelled" => cdone.gen \in cancelled

IndInv ==
    /\ TypeOK /\ PlacesOK /\ CountedAtLeast /\ CountersExact
    /\ SnapshotSound /\ RoomOK /\ FenceOK /\ ResultsOK

\* Jobs keep their order on the way from submission to drain, so that each is in
\* one place and in it once: ids are taken in rising order and every handoff is
\* first in, first out.
FifoOK ==
    /\ \A i, j \in 1..Len(queue) : i < j => queue[i] < queue[j]
    /\ \A i, j \in 1..Len(mailbox) : i < j => mailbox[i].gen < mailbox[j].gen
    /\ \A m \in InMailbox, q \in InQueue : m < q
    /\ InHand => /\ \A m \in InMailbox : m < wgen
                 /\ \A q \in InQueue : wgen < q
    /\ cpc \in {"release", "settle"} =>
          /\ \A g \in InMailbox \cup InQueue : cdone.gen < g
          /\ InHand => cdone.gen < wgen

\* The accepted, unsettled generations are the ones in those places.
LiveOK ==
    Live = InQueue \cup InMailbox
           \cup (IF InHand THEN {wgen} ELSE {})
           \cup (IF cpc \in {"release", "settle"} THEN {cdone.gen} ELSE {})

JobsInv == FifoOK /\ LiveOK

\* The generations that were taken have an event, and no later one has.
EventsOK ==
    /\ cpc = "route" => cevent \in Events
    /\ \A g \in Gens : eventOf[g] \in Events <=> g <= nextId
    /\ registry <= nextId /\ \A g \in cancelled : g <= nextId
    /\ cpc \in {"send", "activate"} => nextId \notin cancelled \cup {registry}

\* Outside a submission a live generation that nothing has overtaken is the
\* active and the registered one; only what was overtaken is cancelled, and
\* what is not registered is.
OutstandingOK ==
    /\ cpc \in {"send", "activate"} => ~shuttingDown
    /\ shuttingDown /\ cpc # "gone" => Live \subseteq fenced
    /\ Live \cap cancelled \subseteq fenced
    /\ \A g \in Live \ cancelled :
          \/ cpc = "activate" /\ g = nextId
          \/ registry = g
    /\ ~shuttingDown =>
          \A g \in Live \ fenced :
              \/ cpc = "activate" /\ g = nextId
              \/ active = g /\ registry = g

\* With repeated event ids Finish may clear the entry of a newer generation,
\* so that the reasons for a discard are kept for unrepeated ones only.
ReasonsInv == Unrepeated => OutstandingOK /\ DiscardJustified
=============================================================================
