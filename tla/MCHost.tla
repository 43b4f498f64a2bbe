------------------------------- MODULE MCHost -------------------------------
(***************************************************************************)
(* Small instances of the host's components, side by side: raw ingress,    *)
(* the main loop with the operator endpoint, the security runtime, the     *)
(* event path, and the two websocket clients.  In a behaviour one of them  *)
(* moves, and the others stay where they start: the states are the sum of  *)
(* theirs, not the product.                                                *)
(***************************************************************************)
EXTENDS Integers

CONSTANTS
    Parts,   \* the components that may move
    \* RawIngress
    MaxRecordBytes, RawQueueCapacity, MaxBuffer, MaxLineBytes, MaxLines,
    \* RuntimeLoop
    Connections, Records, Requests, Uptimes, RawCapacity, DispatchCapacity, RateCapacity,
    None,
    \* SecurityRuntime
    Sources, Correlations, Rate, Scale, Burst, QueueLimit, AuditLimit, MaxSources,
    SourceTtl, CorrelationLimit, SecurityTime, SecurityEvents,
    \* EventPath
    MaxInputs, TelemetryLimit, MaxTraces, DeferredCapacity,
    \* DeviceLink
    Devices, HasPassword, LinkNames, MaxMessages, InitialDelay, MaxDelay, MaxCalls, LinkEvents, LinkTime

VARIABLES
    part,
    \* RawIngress
    pc, line, retained, lastCr, total, sawInput, over, metrics, queue, receiver,
    received, dropped,
    \* RuntimeLoop
    input, raw, conn, request, reply, senders, dispatch, tokens, clock, loopPc,
    loopMuted, granted,
    \* SecurityRuntime
    now, buckets, contentQueue, muted, audit, evicted, order, registry, admitted,
    audited,
    \* EventPath
    planner, deferred, finished, telemetry, traces, audioError, fate,
    \* DeviceLink
    device, time, link, wanted, hasToken, inbox, op, peer, done, result, taken

ingressVars == <<pc, line, retained, lastCr, total, sawInput, over, metrics, queue,
                 receiver, received, dropped>>
loopVars == <<input, raw, conn, request, reply, senders, dispatch, tokens, clock,
              loopPc, loopMuted, granted>>
securityVars == <<now, buckets, contentQueue, muted, audit, evicted, order, registry,
                  admitted, audited>>
pathVars == <<planner, deferred, finished, telemetry, traces, audioError, fate>>
linkVars == <<device, time, link, wanted, hasToken, inbox, op, peer, done, result, taken>>

----------------------------------------------------------------------------
Ingress == INSTANCE RawIngress WITH QueueCapacity <- RawQueueCapacity
ASSUME IngressAssumption == Ingress!ConfigAssumption /\ Ingress!BoundAssumption

Loop == INSTANCE RuntimeLoop WITH pc <- loopPc, muted <- loopMuted
ASSUME LoopAssumption == Loop!RequestsAssumption /\ Loop!CapacityAssumption

Security == INSTANCE SecurityRuntime WITH
    MaxTime <- SecurityTime, MaxEvents <- SecurityEvents, queue <- contentQueue
ASSUME SecurityAssumption == Security!ConfigAssumption /\ Security!TtlAssumption

Path == INSTANCE EventPath WITH
    MaxEvents <- TelemetryLimit, QueueCapacity <- DeferredCapacity
ASSUME PathAssumption == Path!EventPathAssumption

Link == INSTANCE DeviceLink WITH
    Names <- LinkNames, MaxEvents <- LinkEvents, MaxTime <- LinkTime
ASSUME LinkAssumption == Link!DeviceAssumption
ASSUME PowersAssumption == \A n \in 0..20 : 2 ^ n \in Nat    \* backoff doubles

ASSUME PartsAssumption == Parts \subseteq {"ingress", "loop", "security", "events", "link"}

(* Requests right and wrong, for the configurations.                       *)
Asked(action, secret, wellFormed) ==
    [action |-> action, secret |-> secret, wellFormed |-> wellFormed]
SomeRequests ==
    {Asked("status", TRUE, TRUE), Asked("mute", TRUE, TRUE), Asked("mute", FALSE, TRUE),
     Asked("unmute", TRUE, TRUE), Asked("stop", TRUE, FALSE)}
FewRequests == {Asked("mute", TRUE, TRUE), Asked("stop", FALSE, TRUE)}

----------------------------------------------------------------------------
Init ==
    /\ part \in Parts
    /\ Ingress!Init /\ Loop!Init /\ Security!Init /\ Path!Init /\ Link!Init
    /\ part = "link" \/ device = "obs"    \* the others need no second copy

Next ==
    /\ UNCHANGED part
    /\ \/ /\ part = "ingress" /\ Ingress!Next
          /\ UNCHANGED <<loopVars, securityVars, pathVars, linkVars>>
       \/ /\ part = "loop" /\ Loop!Next
          /\ UNCHANGED <<ingressVars, securityVars, pathVars, linkVars>>
       \/ /\ part = "security" /\ Security!Next
          /\ UNCHANGED <<ingressVars, loopVars, pathVars, linkVars>>
       \/ /\ part = "events" /\ Path!Next
          /\ UNCHANGED <<ingressVars, loopVars, securityVars, linkVars>>
       \/ /\ part = "link" /\ Link!Next
          /\ UNCHANGED <<ingressVars, loopVars, securityVars, pathVars>>

Spec == Init /\ [][Next]_<<part, ingressVars, loopVars, securityVars, pathVars, linkVars>>

----------------------------------------------------------------------------
\* What the reader retains is bounded, a record is refused for its size
\* exactly when it is too long, and every line is queued in order or counted
\* (raw_ingress.rs).
IngressSound ==
    part = "ingress" => /\ Ingress!RetentionBounded /\ Ingress!SizeVerdictExact
                        /\ Ingress!Accounting /\ Ingress!InOrderWithoutLoss

\* One request of a connection at a time, a truthful answer, and no action
\* without the secret (main.rs, operator_control.rs).
LoopSound ==
    part = "loop" => /\ Loop!OneOutstanding /\ Loop!MuteAnswersTruthful
                     /\ Loop!SecretSuffices

\* "operator stop/mute remains independently effective": with the right secret
\* it is never refused as unauthenticated, whatever the uptime.
SecretSuffices == part = "loop" => Loop!SecretSuffices

\* Rates hold however sources are forgotten, the correlation registry is its
\* queue, and every audited operation is retained or counted
\* (runtime/src/lib.rs).
SecuritySound ==
    part = "security" => /\ Security!RateBounded /\ Security!RegistryConsistent
                         /\ Security!AuditAccounted

\* Each event is recorded once, under its own reason, alike in telemetry and
\* trace, and the summary adds up (app/src/lib.rs, telemetry/src/lib.rs).
EventsSound ==
    part = "events" => /\ Path!RecordedOnce /\ Path!RingsAgree /\ Path!ReasonIsItsOwn
                       /\ Path!SummaryAddsUp /\ Path!TraceMatchesObservation
\* A call's action is performed at most once and reported done only when it
\* was, pushed events are kept and given once, attempts keep their distance
\* and a session stands only when its subscriptions do (obs.rs, vts.rs).
LinksSound ==
    [][part = "link" => /\ Link!NoReplay' /\ Link!OkMeansDone' /\ Link!MaskInForce'
                        /\ Link!EventsKept' /\ Link!SpacedStep /\ Link!RestoredStep]_linkVars
=============================================================================
