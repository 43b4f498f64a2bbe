---------------------------- MODULE Diagnostics ----------------------------
(***************************************************************************)
(* What a process can tell about itself: the composition it starts with    *)
(* (app/src/main.rs, profile.rs, retention.rs) and the support bundle      *)
(* captured from it while it runs (app/src/support_bundle.rs), over the    *)
(* causal traces (telemetry/src/causal_trace.rs), the audit log and the    *)
(* correlation registry (runtime/src/lib.rs) it keeps.                     *)
(*                                                                         *)
(* An event is admitted, with its correlation and an audit record, and its *)
(* trace is committed later: a deferred generation after events that came  *)
(* behind it, or never.  A bundle reads; Bundle(request) is a function of  *)
(* the state.  A text is a sequence of symbols, "gap" a white space and    *)
(* "url" the scheme of an endpoint.                                        *)
(***************************************************************************)
EXTENDS Integers, Sequences, FiniteSets, SequencesExt, FiniteSetsExt

CONSTANTS
    Environments,     \* what the process may be started with
    Correlations,     \* event.correlation_id
    CorrelationLimit, \* MAX_CORRELATION_REFS
    Allowed,          \* MAX_ALLOWED_RECORDS
    Texts,            \* adapter errors and provider names
    Secrets,          \* the secrets of the redactor, in order
    Failing,          \* adapters that may fail
    Requests,         \* bounds a caller asks a bundle for
    MaxEvents,        \* bound of the model: events admitted
    MaxRecords        \* bound of the model: audit records written

VARIABLES
    env,        \* the environment of the process
    status,     \* "starting", "refused" or "running"
    app,        \* what was composed
    admitted,   \* correlations of the events admitted
    waiting,    \* events admitted and not yet recorded
    order,      \* correlation_order
    traces,     \* [ring, evicted, high, next]
    audit,      \* [ring, evicted, high, next]
    committed,  \* events of the traces committed, 0 for an override
    health      \* per adapter: its error, if any

vars == <<env, status, app, admitted, waiting, order, traces, audit, committed, health>>

Adapters == {"audio", "avatar", "stream"}

DiagnosticsAssumption ==
    /\ CorrelationLimit \in Nat \ {0} /\ Allowed \in Nat /\ Failing \subseteq Adapters
    /\ \A i \in DOMAIN Secrets :
          Secrets[i] # <<>> /\ \A s \in {"gap", "REDACTED", "ENDPOINT"} : ~Contains(Secrets[i], s)

-----------------------------------------------------------------------------
(* Composition.                                                            *)

Profiles == {"cached", "reflex", "full"}
Reflexive(profile) == profile \in {"reflex", "full"}
GenerativeRoute(profile) == profile = "full"

\* The limits of the retention policy; a write's links fit into the store.
RetentionValid(limits) ==
    /\ \A l \in DOMAIN limits : limits[l] > 0
    /\ limits.links >= limits.perWrite

\* CompositionProfile::validate.
ProfileValid(profile, generative, key) ==
    /\ Reflexive(profile) => key
    /\ GenerativeRoute(profile) <=> generative

Profile(e) == IF e.mode = "unset" THEN "cached" ELSE e.mode

\* Whether run starts: the retention limits, the mode, the generative
\* configuration and the profile are checked in this order.
Starts(e) ==
    /\ RetentionValid(e.limits)
    /\ Profile(e) \in Profiles
    /\ e.generative # "broken"
    /\ ProfileValid(Profile(e), e.generative = "ready", e.key)

\* The parts that route an event: the planner, and a generative runtime.
Composed(e) ==
    [planner    |-> IF Profile(e) = "cached" THEN "intent" ELSE "reflex",
     generative |-> GenerativeRoute(Profile(e)) /\ e.generative = "ready"]

\* ProfileSummary::for_profile, without the fingerprint.
Summary(profile, generative) ==
    [profile |-> profile, semantic |-> Reflexive(profile), jev |-> Reflexive(profile),
     template |-> Reflexive(profile), route |-> GenerativeRoute(profile),
     available |-> GenerativeRoute(profile) /\ generative,
     fallback |-> IF profile = "cached" THEN "silent" ELSE "cached_template"]

\* config_fingerprint: what is hashed; the hash is taken to tell them apart.
Fingerprint(profile, generative) ==
    LET s == Summary(profile, generative)
    IN  <<s.profile, s.semantic, s.jev, s.template, s.available>>

-----------------------------------------------------------------------------
(* Texts.                                                                  *)

\* str::replace, from the left, and SecretRedactor::redact: one secret after
\* the other.
Replace(text, secret) ==
    LET n == Len(secret)
        step(acc, i) ==
            IF i < acc.next THEN acc
            ELSE IF i + n - 1 <= Len(text) /\ SubSeq(text, i, i + n - 1) = secret
            THEN [out |-> Append(acc.out, "REDACTED"), next |-> i + n]
            ELSE [out |-> Append(acc.out, text[i]), next |-> i + 1]
    IN  FoldLeft(step, [out |-> <<>>, next |-> 1], [i \in DOMAIN text |-> i]).out
Redact(text) == FoldLeft(Replace, text, Secrets)

WordStarts(text) ==
    {i \in DOMAIN text : text[i] # "gap" /\ (i > 1 => text[i - 1] = "gap")}
WordAt(text, i) ==
    SubSeq(text, i, Min({j \in i .. Len(text) : j = Len(text) \/ text[j + 1] = "gap"}))
Words(text) ==
    LET at == SetToSortSeq(WordStarts(text), <)
    IN  [k \in DOMAIN at |-> WordAt(text, at[k])]

\* redact_app_text: an endpoint is masked, white space becomes one.
RedactAppText(text) ==
    LET masked(w) == IF w[1] = "url" THEN <<"ENDPOINT">> ELSE w
        words == Words(text)
    IN  FlattenSeq([k \in DOMAIN words |->
            IF k = 1 THEN masked(words[k]) ELSE <<"gap">> \o masked(words[k])])

-----------------------------------------------------------------------------
(* What is kept.                                                           *)

Trimmed(ring, limit) == SubSeq(ring, Max({1, Len(ring) - limit + 1}), Len(ring))

\* commit and push_audit: append, trim, and only then the high water.
Kept(log, entry, limit) ==
    LET ring == Trimmed(Append(log.ring, entry), limit)
    IN  [ring |-> ring, evicted |-> log.evicted + Len(log.ring) + 1 - Len(ring),
         high |-> Max({log.high, Len(ring)}), next |-> log.next + 1]
EmptyLog == [ring |-> <<>>, evicted |-> 0, high |-> 0, next |-> 0]

PushAudit(log, category, decision, detail) ==
    Kept(log, [category |-> category, decision |-> decision, detail |-> Redact(detail)],
         env.limits.audit)

\* record_correlation: a correlation seen again is the newest.
RecordCorrelation(ids, c) ==
    LET moved == Append(SelectSeq(ids, LAMBDA i : i # c), c)
    IN  Trimmed(moved, CorrelationLimit)

\* push_span: every stage names the one before it.
PushSpan(spans, stage, outcome, start, duration) ==
    Append(spans, [parent |-> Len(spans), stage |-> stage, outcome |-> outcome,
                   start |-> start, duration |-> duration])
\* record_cancellation: not before the end of the stage it follows.
RecordCancellation(spans, offset) ==
    LET end == IF spans = <<>> THEN 0 ELSE Last(spans).start + Last(spans).duration
    IN  PushSpan(spans, "cancellation", "cancelled", Max({offset, end}), 0)

\* The stages of an event that was played, generated or cancelled.
Spans(kind) ==
    LET ingress == PushSpan(<<>>, "ingress", "completed", 0, 0)
        worked == CASE kind = "played" -> ingress
                    [] kind = "generated" -> PushSpan(ingress, "generation", "completed", 0, 2)
                    [] kind = "cancelled" ->
                          RecordCancellation(PushSpan(ingress, "generation", "cancelled", 0, 0), 0)
    IN  PushSpan(worked, "audio", IF kind = "cancelled" THEN "skipped" ELSE "completed", 0, 0)

Commit(event, correlation, spans) ==
    /\ traces' = Kept(traces, [event |-> event, correlation |-> correlation,
                               seq |-> traces.next, spans |-> spans], env.limits.traces)
    /\ committed' = Append(committed, event)

-----------------------------------------------------------------------------
(* The specification.                                                      *)

Init ==
    /\ env \in Environments
    /\ status = "starting" /\ app = [planner |-> "none", generative |-> FALSE]
    /\ admitted = <<>> /\ waiting = {} /\ order = <<>> /\ committed = <<>>
    /\ traces = EmptyLog /\ audit = EmptyLog
    /\ health = [a \in Adapters |-> {}]

process == <<env, status, app>>

Start ==
    /\ status = "starting"
    /\ IF Starts(env) THEN status' = "running" /\ app' = Composed(env)
       ELSE status' = "refused" /\ UNCHANGED app
    /\ UNCHANGED <<env, admitted, waiting, order, traces, audit, committed, health>>

Admit(c) ==
    /\ status = "running" /\ Len(admitted) < MaxEvents /\ audit.next < MaxRecords
    /\ admitted' = Append(admitted, c)
    /\ waiting' = waiting \cup {Len(admitted) + 1}
    /\ order' = RecordCorrelation(order, c)
    /\ audit' = PushAudit(audit, "ingress", "accepted", <<>>)
    /\ UNCHANGED <<process, traces, committed, health>>

Drop ==
    /\ status = "running" /\ audit.next < MaxRecords
    /\ audit' = PushAudit(audit, "ingress", "dropped", <<>>)
    /\ UNCHANGED <<process, admitted, waiting, order, traces, committed, health>>

\* A composition without a generative runtime only plays.
Handle(e, kind) ==
    /\ status = "running"
    /\ waiting' = waiting \ {e}
    /\ Commit(e, admitted[e], Spans(kind))
    /\ UNCHANGED <<process, admitted, order, health>>

Play(e) == Handle(e, "played") /\ UNCHANGED audit

\* record_generation_call names the provider in the detail.
Generate(e, name) ==
    /\ app.generative /\ audit.next < MaxRecords
    /\ audit' = PushAudit(audit, "generation", "llm_call", name)
    /\ Handle(e, "generated") \/ Handle(e, "cancelled")

\* The commit of a generation fails: the event is never recorded.
Lose(e) ==
    /\ status = "running" /\ app.generative
    /\ waiting' = waiting \ {e}
    /\ UNCHANGED <<process, admitted, order, traces, audit, committed, health>>

\* An override is a trace of its own, under the command's correlation.
Override(c) ==
    /\ status = "running" /\ audit.next < MaxRecords
    /\ audit' = PushAudit(audit, "authorization", "stop", <<>>)
    /\ Commit(0, c, RecordCancellation(<<>>, 0))
    /\ UNCHANGED <<process, admitted, waiting, order, health>>

Adapter(a, error) ==
    /\ status = "running" /\ health[a] # error
    /\ health' = [health EXCEPT ![a] = error]
    /\ UNCHANGED <<process, admitted, waiting, order, traces, audit, committed>>

Next ==
    \/ Start \/ Drop
    \/ \E c \in Correlations : Admit(c) \/ Override(c)
    \/ \E e \in waiting : Play(e) \/ Lose(e)
    \/ \E e \in waiting, t \in Texts : Generate(e, t)
    \/ \E a \in Failing, t \in Texts : Adapter(a, {t})
    \/ \E a \in Failing : Adapter(a, {})

Spec == Init /\ [][Next]_vars

-----------------------------------------------------------------------------
(* The bundle.                                                             *)

Clamp(bound) == Min({bound, Allowed})
Take(s, n) == SubSeq(s, 1, Min({n, Len(s)}))

\* recent_correlations: from the registry, at least one.
RecentCorrelations(limit) == Take(Reverse(order), Max({limit, 1}))

\* recent_correlation_ids: from the traces, each once.
RecentIds(limit) ==
    FoldLeft(LAMBDA out, t : IF Len(out) >= limit \/ Contains(out, t.correlation) THEN out
                             ELSE Append(out, t.correlation),
             <<>>, Reverse(traces.ring))
TraceFor(c) ==
    traces.ring[Max({k \in DOMAIN traces.ring : traces.ring[k].correlation = c})]

\* redacted_timeline: the stages and nothing else of the trace.
Timeline(trace) ==
    [correlation |-> trace.correlation, seq |-> trace.seq,
     lines |-> [k \in DOMAIN trace.spans |->
                  <<trace.spans[k].stage, trace.spans[k].outcome, trace.spans[k].duration>>]]
CausalTimelines(limit) ==
    LET ids == RecentIds(limit) IN [k \in DOMAIN ids |-> Timeline(TraceFor(ids[k]))]

AuditSummary(record) == [category |-> record.category, decision |-> record.decision]
AuditSummaries(limit) ==
    LET taken == Reverse(Take(Reverse(audit.ring), limit))
    IN  [k \in DOMAIN taken |-> AuditSummary(taken[k])]

AdapterHealth == [a \in Adapters |-> {RedactAppText(Redact(t)) : t \in health[a]}]
Resources ==
    [causalRetained |-> Len(traces.ring), causalHigh |-> traces.high,
     causalEvicted |-> traces.evicted, auditRetained |-> Len(audit.ring),
     auditHigh |-> audit.high, auditEvicted |-> audit.evicted]
Identity ==
    [profile |-> Profile(env), fingerprint |-> Fingerprint(Profile(env), app.generative)]

Bundle(request) ==
    [identity     |-> Identity,
     health       |-> AdapterHealth,
     resources    |-> Resources,
     correlations |-> RecentCorrelations(Clamp(request.timelines)),
     timelines    |-> CausalTimelines(Clamp(request.timelines)),
     audits       |-> AuditSummaries(Clamp(request.audits))]

-----------------------------------------------------------------------------
(* Properties.                                                             *)

\* A process that starts has the routes its profile names, no fewer and no
\* more, and a fingerprint tells two compositions apart exactly when they
\* route differently (profile.rs:68-96, 176-200).
CompositionNamed ==
    status = "starting" =>
        \A e \in Environments : Starts(env) /\ Starts(e) =>
            LET mine == Composed(env)
                s == Summary(Profile(env), mine.generative)
            IN  /\ s.route = mine.generative /\ s.available = s.route
                /\ s.jev = (mine.planner = "reflex") /\ (s.jev => env.key)
                /\ (mine = Composed(e)) <=>
                   (Fingerprint(Profile(env), mine.generative)
                      = Fingerprint(Profile(e), Composed(e).generative))

\* A bundle expands the incidents that moved last, each once, by its newest
\* trace, and leaves none out while there is room (causal_trace.rs:440-468).
TimelinesNewest ==
    \A request \in Requests :
        LET shown == CausalTimelines(Clamp(request.timelines))
            ring == traces.ring
            incidents == {ring[k].correlation : k \in DOMAIN ring}
            newest(c) == Max({ring[k].seq : k \in {j \in DOMAIN ring : ring[j].correlation = c}})
        IN  /\ Len(shown) = Min({request.timelines, Allowed, Cardinality(incidents)})
            /\ \A k \in DOMAIN shown : shown[k].seq = newest(shown[k].correlation)
            /\ \A k \in 2 .. Len(shown) : shown[k].seq < shown[k - 1].seq
            /\ shown # <<>> => \A c \in incidents :
                  newest(c) > Last(shown).seq => \E k \in DOMAIN shown : shown[k].correlation = c

\* While every event is recorded in the order it was admitted in, the incident
\* references and the timelines of a bundle are the same incidents.
ReferencesExpand ==
    committed = [k \in DOMAIN admitted |-> k] =>
        \A request \in Requests :
            LET references == RecentCorrelations(Clamp(request.timelines))
                timelines == CausalTimelines(Clamp(request.timelines))
            IN  \A k \in DOMAIN references \cap DOMAIN timelines :
                   references[k] = timelines[k].correlation

\* The counters of a bundle add up: what was committed or audited is retained or
\* counted as evicted, a limit is never passed, and the newest audit records
\* come in the order they were written.
CountersAddUp ==
    status = "running" =>
    LET r == Bundle([timelines |-> 1, audits |-> 1]).resources
    IN  \A request \in Requests :
        LET audits == AuditSummaries(Clamp(request.audits))
        IN  /\ r.causalRetained + r.causalEvicted = Len(committed)
            /\ r.auditRetained + r.auditEvicted = audit.next
            /\ r.causalRetained <= r.causalHigh /\ r.causalHigh <= env.limits.traces
            /\ r.auditRetained <= r.auditHigh /\ r.auditHigh <= env.limits.audit
            /\ Len(audits) = Min({request.audits, Allowed, audit.next, env.limits.audit})
            /\ \A k \in DOMAIN audits :
                  audits[k] = AuditSummary(audit.ring[Len(audit.ring) - Len(audits) + k])
            /\ \A k \in DOMAIN traces.ring :
                  traces.ring[k].event = committed[Len(committed) - Len(traces.ring) + k]

\* No configured secret is in what a bundle exports or the audit log holds, no
\* endpoint in the health of an adapter, and nothing else of a text is lost
\* (telemetry/src/lib.rs:744-797, support_bundle.rs:442-466).
NothingLeaks ==
    LET clean(t) == \A i \in DOMAIN Secrets : Secrets[i] \notin SubSeqs(t)
        plain(t) == clean(t) /\ ~Contains(t, "url")
    IN  /\ \A a \in Adapters : \A t \in health[a], shown \in AdapterHealth[a] :
              /\ clean(shown) /\ \A i \in WordStarts(shown) : shown[i] # "url"
              /\ plain(t) => Words(shown) = Words(t)
        /\ \A k \in DOMAIN audit.ring : clean(audit.ring[k].detail)
=============================================================================
