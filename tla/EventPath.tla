----------------------------- MODULE EventPath -----------------------------
(***************************************************************************)
(* What the composition root keeps of the events it handles: from the     *)
(* planner's decision (app/src/routing.rs) through the route that plays    *)
(* it (app/src/lib.rs, handle_event) to the observation and the causal    *)
(* trace written about it (telemetry/src/lib.rs, causal_trace.rs).         *)
(*                                                                         *)
(* The planner remembers the last decision and the last template fallback; *)
(* handle_event copies them at once for an event it records now, and into *)
(* the completion context of one whose generation is deferred.  Deferred   *)
(* events are recorded by later ticks, after other events were planned.    *)
(* Both rings are bounded, each with its own limit.                        *)
(***************************************************************************)
EXTENDS Integers, Sequences, FiniteSets, SequencesExt, FiniteSetsExt

CONSTANTS
    MaxInputs,      \* bound of the model: events processed
    MaxEvents,      \* TelemetryRetentionConfig.max_events
    MaxTraces,      \* CausalTraceRetentionConfig.max_traces
    QueueCapacity   \* deferred generations the worker queue and mailbox hold

EventPathAssumption ==
    /\ MaxInputs \in Nat
    /\ MaxEvents \in Nat \ {0}
    /\ MaxTraces \in Nat \ {0}
    /\ QueueCapacity \in Nat

VARIABLES
    planner,     \* last_record and last_template_fallback of the planner
    deferred,    \* contexts of submitted generations, oldest first
    finished,    \* how many of them the worker has completed
    telemetry,   \* [ring, evicted, high]
    traces,      \* [ring, evicted, high, next]
    audioError,  \* health.audio_error is set
    fate         \* per event: what happened to it, and what was decided

vars == <<planner, deferred, finished, telemetry, traces, audioError, fate>>

Events == 1..MaxInputs

----------------------------------------------------------------------------
(* Routing.                                                                *)

\* What the reflex pipeline may decide, split by what the planner finds in
\* the event: no asset named, no intent, a template that does not render.
Actions == {"cached", "cached_no_asset", "reaction", "reaction_no_intent",
            "template", "template_missing", "llm", "silent", "fallback"}
\* Whether the decision names retrieval candidates.
Candidates(a) == IF a \in {"silent"} THEN 0 ELSE 1
NoDecision == [event |-> 0, action |-> "none"]

\* The route of a decision, or "fail": the embedding, the pipeline or the
\* curated request of a generation may be refused.
RouteOf(a) ==
    CASE a = "cached"   -> "asset"
      [] a = "reaction" -> "intent"
      [] a = "template" -> "template"
      [] a = "llm"      -> "generate"
      [] OTHER          -> "silent"

\* plan_route: the planner after a route it returned.  An error leaves both
\* fields as an earlier event set them.
Planned(p, e, a) ==
    [record   |-> [event |-> e, action |-> a],
     fallback |-> IF a = "template_missing" THEN "missing" ELSE "none"]

----------------------------------------------------------------------------
(* What handling an event produces: the HandledEvent.                      *)

NoGeneration == [called |-> FALSE, cancelled |-> FALSE, fallback |-> "none"]
Generation(cancelled, fallback) ==
    [called |-> TRUE, cancelled |-> cancelled, fallback |-> fallback]

Handled(e, decision, template, route, played, level, gen, exhaustion) ==
    [event |-> e, decision |-> decision, template |-> template,
     route |-> route, played |-> played, level |-> level,
     generation |-> gen, exhaustion |-> exhaustion]

Levels == {"memory", "local_storage", "generated"}

\* The outcomes of a route that does not generate: silence, a cached
\* performance at the level the cache found it, or a template whose text the
\* output gate suppresses.
Performed(e, p, route) ==
    LET Say(class, played, level) ==
            Handled(e, p.record, p.fallback, class, played, level,
                    NoGeneration, "none")
    IN  CASE route = "silent" -> {Say("silent", FALSE, "none")}
          [] route = "intent" ->
                {Say("deterministic", TRUE, l) : l \in {"memory", "local_storage"}}
          [] route = "asset" -> {Say("semantic_reuse", TRUE, l) : l \in Levels}
          [] route = "template" ->
                {Say("silent", FALSE, "none"), Say("jev_reaction", TRUE, "memory")}
          [] OTHER -> {}

\* Generations answered on the spot: too little time left, a budget denial,
\* a full queue; each plays the cached fallback or none.
Immediate(e, p) ==
    {Handled(e, p.record, p.fallback, r[1], r[2], r[3], Generation(FALSE, g[1]), g[2]) :
        r \in {<<"cached_fallback", TRUE, "memory">>,
               <<"nonverbal_fallback", FALSE, "none">>},
        g \in {<<"timeout", "insufficient_budget">>,
               <<"budget_exhausted", "none">>, <<"overloaded", "none">>}}

\* Mutant: the context holds no decision, and the drain reads the planner.
CompletedFromPlanner(ctx, p) ==
    LET Say(class, played, level, gen, exhaustion) ==
            Handled(ctx.event, p.record, p.fallback, class, played, level, gen, exhaustion)
    IN  {Say("generated", FALSE, "none", Generation(TRUE, "none"), "expired"),
         Say("generated", TRUE, "generated", Generation(FALSE, "none"), "none")}

\* What a completed generation is recorded as.  A stale one is recorded as
\* cancelled with the reason it was discarded for; a commit publishes the
\* generated performance, a fallback, or the cancellation it came back with.
Completed(ctx, p) ==
    LET Say(class, played, level, gen, exhaustion) ==
            Handled(ctx.event, ctx.decision, ctx.template, class, played, level, gen, exhaustion)
    IN  {Say("generated", FALSE, "none", Generation(TRUE, f), x) :
            f \in {"none", "timeout"}, x \in {"expired", "cancelled", "stale"}}
        \cup {Say("generated", TRUE, "generated", Generation(FALSE, "none"), "none"),
              Say("generated", FALSE, "none", Generation(TRUE, "none"), "none"),
              Say("nonverbal_fallback", FALSE, "none",
                  Generation(FALSE, "policy_override"), "none"),
              Say("cached_fallback", TRUE, "memory",
                  Generation(FALSE, "timeout"), "provider_timeout")}

----------------------------------------------------------------------------
(* What is written about a handled event.                                  *)

CachedRoutes == {"deterministic", "semantic_reuse", "jev_reaction", "cached_fallback"}

\* record_handled_event: the observation.  The generation's reason hides the
\* template's, which hides the decision's.
Observation(h, bad) ==
    [event     |-> h.event,
     route     |-> IF h.decision.action = "reaction" /\ h.route = "deterministic"
                   THEN "jev_reaction" ELSE h.route,
     lookup    |-> h.route \in CachedRoutes,
     hit       |-> h.played /\ h.level \in {"memory", "local_storage"},
     level     |-> h.level,
     accepted  |-> h.decision.action = "cached",
     candidates |-> Candidates(h.decision.action),
     fallback  |-> IF h.generation.fallback # "none" THEN h.generation.fallback
                   ELSE IF h.template # "none" THEN h.template
                   ELSE IF h.decision.action = "fallback" THEN "model" ELSE "none",
     cancelled |-> h.generation.cancelled,
     exhausted |-> h.exhaustion,
     audioBad  |-> bad]

Span(stage, outcome) == <<stage, outcome>>
If(c, spans) == IF c THEN spans ELSE <<>>

\* commit_causal_trace: the stages, in the order they are pushed.
Spans(h, bad) ==
    <<Span("ingress", "completed"), Span("security", "completed")>>
    \o <<Span("lookup", IF Candidates(h.decision.action) = 0 THEN "skipped" ELSE "completed"),
         Span("retrieval", "completed"), Span("jev", "completed")>>
    \o If(h.template # "none", <<Span("template", "degraded")>>)
    \o If(h.generation.cancelled,
          <<Span("generation", "cancelled"), Span("cancellation", "cancelled")>>)
    \o If(h.generation.called /\ ~h.generation.cancelled,
          <<Span("generation", IF h.generation.fallback = "none" THEN "completed" ELSE "degraded")>>)
    \o If(h.played, <<Span("scheduler", "completed")>>)
    \o <<Span("audio", IF bad THEN "failed" ELSE IF h.played THEN "completed" ELSE "skipped")>>
    \o If(h.exhaustion # "none", <<Span("cancellation", "cancelled")>>)

\* trim_to_retention: the newest entries stay.
Trimmed(ring, limit) ==
    SubSeq(ring, Max({1, Len(ring) - limit + 1}), Len(ring))

\* TelemetryCollector::record and CausalTraceCollector::begin_trace, commit,
\* for the handled events hs one after the other.
Written(t, tr, hs, bad) ==
    LET one(acc, h) ==
            LET obs   == Append(acc[1].ring, Observation(h, bad))
                trace == Append(acc[2].ring,
                           [event |-> h.event, seq |-> acc[2].next, spans |-> Spans(h, bad)])
                kept  == Trimmed(obs, MaxEvents)
                trail == Trimmed(trace, MaxTraces)
            IN  <<[ring |-> kept, evicted |-> acc[1].evicted + Len(obs) - Len(kept),
                   high |-> Max({acc[1].high, Len(kept)})],
                  [ring |-> trail, evicted |-> acc[2].evicted + Len(trace) - Len(trail),
                   high |-> Max({acc[2].high, Len(trail)}), next |-> acc[2].next + 1]>>
    IN  FoldLeft(one, <<t, tr>>, hs)

Write(hs) ==
    LET w == Written(telemetry, traces, hs, audioError)
    IN  telemetry' = w[1] /\ traces' = w[2]

\* Counts over the retained observations (summarize).
Count(ring, P(_)) == Cardinality({k \in DOMAIN ring : P(ring[k])})
Summary(ring) ==
    [routes   |-> [r \in {ring[k].route : k \in DOMAIN ring} |->
                      Count(ring, LAMBDA o : o.route = r)],
     hits     |-> [l \in {"memory", "local_storage", "generated"} |->
                      Count(ring, LAMBDA o : o.lookup /\ o.hit /\ o.level = l)],
     misses   |-> Count(ring, LAMBDA o : o.lookup /\ ~o.hit),
     accepted |-> Count(ring, LAMBDA o : o.candidates > 0 /\ o.accepted),
     rejected |-> Count(ring, LAMBDA o : o.candidates > 0 /\ ~o.accepted),
     cancelled |-> Count(ring, LAMBDA o : o.cancelled),
     exhausted |-> Count(ring, LAMBDA o : o.exhausted # "none"),
     degraded |-> Count(ring, LAMBDA o : o.audioBad)]

----------------------------------------------------------------------------
(* The specification.                                                      *)

Undecided == [at |-> "new", action |-> "none", generation |-> "none"]
EmptyRing == [ring |-> <<>>, evicted |-> 0, high |-> 0]

Init ==
    /\ planner = [record |-> NoDecision, fallback |-> "none"]
    /\ deferred = <<>>
    /\ finished = 0
    /\ telemetry = EmptyRing
    /\ traces = [ring |-> <<>>, evicted |-> 0, high |-> 0, next |-> 0]
    /\ audioError = FALSE
    /\ fate = [e \in Events |-> Undecided]

NextEvent == CHOOSE e \in Events : fate[e].at = "new" /\ \A d \in 1..e - 1 : fate[d].at # "new"
MoreInputs == \E e \in Events : fate[e].at = "new"

\* An audio adapter that fails, or works again.
HealthChanges ==
    /\ audioError' = ~audioError
    /\ UNCHANGED <<planner, deferred, finished, telemetry, traces, fate>>

\* The worker hands back the oldest generation that is still deferred.
WorkerCompletes ==
    /\ finished < Len(deferred)
    /\ finished' = finished + 1
    /\ UNCHANGED <<planner, deferred, telemetry, traces, audioError, fate>>

\* The route is refused: handle_event returns the error, and the event is
\* neither ticked nor recorded.
RouteRefused ==
    /\ MoreInputs
    /\ fate' = [fate EXCEPT ![NextEvent].at = "failed"]
    /\ UNCHANGED <<planner, deferred, finished, telemetry, traces, audioError>>

\* The performer, or the commit of a fallback, fails after planning.
PerformFails(a) ==
    /\ MoreInputs
    /\ RouteOf(a) # "silent"
    /\ planner' = Planned(planner, NextEvent, a)
    /\ fate' = [fate EXCEPT ![NextEvent] = [at |-> "failed", action |-> a, generation |-> "none"]]
    /\ UNCHANGED <<deferred, finished, telemetry, traces, audioError>>

\* A commit that fails: the drain notes it and records nothing.
Lost == Handled(0, NoDecision, "none", "lost", FALSE, "none", NoGeneration, "none")
\* What the finished generations come to, oldest first.
Drains ==
    LET outcomes == [k \in 1..finished |-> Completed(deferred[k], planner) \cup {Lost}]
    IN  {d \in [1..finished -> UNION {outcomes[k] : k \in 1..finished}] :
            \A k \in 1..finished : d[k] \in outcomes[k]}
Kept(d) == SelectSeq(d, LAMBDA h : h # Lost)
Settled(f, d) ==
    [e \in Events |->
        IF \E k \in DOMAIN d : deferred[k].event = e
        THEN LET h == d[CHOOSE k \in DOMAIN d : deferred[k].event = e]
             IN  IF h = Lost THEN [f[e] EXCEPT !.at = "lost"]
                 ELSE [f[e] EXCEPT !.at = "recorded", !.generation = h.generation.fallback]
        ELSE f[e]]

\* Mutant: a tick leaves the last finished generation for the next one.
TickKeepsOne ==
    /\ finished > 1
    /\ \E d \in Drains :
        /\ Write(Kept(d))
        /\ fate' = Settled(fate, d)
    /\ deferred' = SubSeq(deferred, finished + 1, Len(deferred))
    /\ finished' = 0
    /\ UNCHANGED <<planner, audioError>>

\* tick: the drain of finished generations.
Tick ==
    /\ finished > 0
    /\ \E d \in Drains :
        /\ Write(Kept(d))
        /\ fate' = Settled(fate, d)
    /\ deferred' = SubSeq(deferred, finished + 1, Len(deferred))
    /\ finished' = 0
    /\ UNCHANGED <<planner, audioError>>

\* process_content_bytes: an event that is recorded now, after the tick that
\* drains what had finished before it.
RecordNow(a) ==
    /\ MoreInputs
    /\ planner' = Planned(planner, NextEvent, a)
    /\ \E h \in Performed(NextEvent, planner', RouteOf(a))
                \cup (IF a = "llm" THEN Immediate(NextEvent, planner') ELSE {}) :
       \E d \in Drains :
        /\ Write(Append(Kept(d), h))
        /\ fate' = Settled([fate EXCEPT ![NextEvent] =
              [at |-> "recorded", action |-> a, generation |-> h.generation.fallback]], d)
    /\ deferred' = SubSeq(deferred, finished + 1, Len(deferred))
    /\ finished' = 0
    /\ UNCHANGED audioError

\* An event whose generation is queued: the context keeps what was decided,
\* and the event is not recorded now.
Defer ==
    /\ MoreInputs
    /\ Len(deferred) < QueueCapacity
    /\ planner' = Planned(planner, NextEvent, "llm")
    /\ \E d \in Drains :
        /\ Write(Kept(d))
        /\ fate' = Settled([fate EXCEPT ![NextEvent] =
              [at |-> "pending", action |-> "llm", generation |-> "none"]], d)
    /\ deferred' = Append(SubSeq(deferred, finished + 1, Len(deferred)),
          [event |-> NextEvent, decision |-> planner'.record, template |-> planner'.fallback])
    /\ finished' = 0
    /\ UNCHANGED audioError

Next ==
    \/ HealthChanges
    \/ WorkerCompletes
    \/ RouteRefused
    \/ \E a \in Actions : PerformFails(a)
    \/ Tick
    \/ \E a \in Actions : RecordNow(a)
    \/ Defer

Spec == Init /\ [][Next]_vars

\* The worker answers every request within its deadline and the main loop
\* ticks (app/src/main.rs:229-361).
FairSpec == Spec /\ WF_vars(WorkerCompletes) /\ WF_vars(Tick)

----------------------------------------------------------------------------
(* Properties.                                                             *)

TypeOK ==
    /\ planner.record.event \in 0..MaxInputs
    /\ planner.fallback \in {"none", "missing"}
    /\ deferred \in BoundedSeq([event : Events, decision : [event : Events, action : {"llm"}],
                                template : {"none", "missing"}], QueueCapacity)
    /\ finished \in 0..Len(deferred)
    /\ Len(telemetry.ring) <= MaxEvents /\ Len(traces.ring) <= MaxTraces
    /\ audioError \in BOOLEAN
    /\ \A e \in Events : fate[e].at \in {"new", "failed", "pending", "recorded", "lost"}

At(place) == {e \in Events : fate[e].at = place}

\* An event is written exactly once, when it was handled or when its deferred
\* generation is drained, whatever is processed in between: what the two
\* rings hold and evicted is the events recorded, none of them twice, and an
\* event whose generation is under way is not written yet (app/src/lib.rs:
\* 1304, 2021, 2089).
RecordedOnce ==
    /\ telemetry.evicted + Len(telemetry.ring) = Cardinality(At("recorded"))
    /\ traces.evicted + Len(traces.ring) = Cardinality(At("recorded"))
    /\ \A k \in DOMAIN telemetry.ring : telemetry.ring[k].event \in At("recorded")
    /\ IsInjective([k \in DOMAIN telemetry.ring |-> telemetry.ring[k].event])
    /\ {deferred[k].event : k \in DOMAIN deferred} = At("pending")

\* The two rings have their own limits and evict on their own, and still end
\* in the same events in the same order, the traces numbered without a gap
\* (telemetry/src/lib.rs:423, causal_trace.rs:409-434).
RingsAgree ==
    /\ \A k \in 0..Min({Len(telemetry.ring), Len(traces.ring)}) - 1 :
         telemetry.ring[Len(telemetry.ring) - k].event = traces.ring[Len(traces.ring) - k].event
    /\ \A k \in DOMAIN traces.ring :
         traces.ring[k].seq = traces.next - 1 - (Len(traces.ring) - k)
    /\ telemetry.high = Min({MaxEvents, telemetry.evicted + Len(telemetry.ring)})

\* The reason an observation gives, and the reuse it credits, are those of
\* its own event, never of another one planned before or after it
\* (app/src/lib.rs:1415-1419, 1514-1525, 2170-2216; routing.rs:543-545).
ReasonIsItsOwn ==
    \A k \in DOMAIN telemetry.ring :
        LET o == telemetry.ring[k]
            f == fate[o.event]
        IN  /\ o.fallback = (IF f.generation # "none" THEN f.generation
                             ELSE IF f.action = "template_missing" THEN "missing"
                             ELSE IF f.action = "fallback" THEN "model" ELSE "none")
            /\ o.accepted <=> f.action = "cached"

\* What the summary counts is consistent across the fields it derives on its
\* own: hits and misses add up to the cache-backed routes, decided reuse to
\* the decisions with candidates, and a hit is never a generated asset
\* (telemetry/src/lib.rs:563-611 with app/src/lib.rs:2110-2121).
SummaryAddsUp ==
    LET s == Summary(telemetry.ring)
        routed(classes) == Count(telemetry.ring, LAMBDA o : o.route \in classes)
    IN  /\ s.hits["memory"] + s.hits["local_storage"] + s.misses = routed(CachedRoutes)
        /\ s.hits["generated"] = 0
        /\ s.accepted <= routed({"semantic_reuse"})

SpanOutcome(spans, stage) == {spans[k][2] : k \in {j \in DOMAIN spans : spans[j][1] = stage}}

\* The trace of an event tells what its observation tells, though each is
\* built on its own: a cancelled or degraded generation, a failed audio
\* adapter (app/src/lib.rs:2181-2216 with 2305-2396).
TraceMatchesObservation ==
    \A k \in DOMAIN telemetry.ring : \A j \in DOMAIN traces.ring :
        telemetry.ring[k].event = traces.ring[j].event =>
            LET o == telemetry.ring[k]
                spans == traces.ring[j].spans
            IN  /\ o.cancelled <=> "cancelled" \in SpanOutcome(spans, "generation")
                /\ o.audioBad <=> "failed" \in SpanOutcome(spans, "audio")
                /\ o.exhausted # "none" => SpanOutcome(spans, "cancellation") # {}
                /\ "degraded" \in SpanOutcome(spans, "generation") => o.fallback # "none"

\* "Record a cancellation/override as the closing stage of the chain"
\* (telemetry/src/causal_trace.rs:252): a cancellation is the last span of its
\* trace.
CancellationCloses ==
    \A j \in DOMAIN traces.ring :
        LET spans == traces.ring[j].spans
        IN  \A k \in DOMAIN spans : spans[k][1] = "cancellation" => k = Len(spans)

\* An event whose generation was deferred is recorded in the end, or its
\* commit failed: no later event keeps the drain from it
\* (app/src/lib.rs:1955-2102).
DeferredSettles ==
    \A e \in Events : fate[e].at = "pending" ~> fate[e].at \in {"recorded", "lost"}
=============================================================================
