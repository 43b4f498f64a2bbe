------------------------------ MODULE FaultSoak ------------------------------
(***************************************************************************)
(* The soak of a scenario under planned faults: fault plans and their      *)
(* injector (crates/hardening/src/fault.rs), and the loop that runs a      *)
(* trace of StreamScenario through ingress, scheduler, memory, telemetry,  *)
(* the generative path and the asset store                                 *)
(* (crates/hardening/src/scenario_soak.rs).                                *)
(*                                                                         *)
(* An event of a trace is where it falls, whether it is content and        *)
(* whether it is a semantic miss.  The stores are reduced to what they     *)
(* retain, as in Soak.                                                     *)
(***************************************************************************)
EXTENDS Integers, Sequences, FiniteSets, SequencesExt, FiniteSetsExt

CONSTANTS
    Traces,     \* the traces scenarios generate
    Overlays,   \* the fault overlays tried: target, seed and faults
    Target,     \* the identity and version of the scenario
    Duration,   \* stream_duration_ms
    Every,      \* generated_asset_every
    Limit       \* what each bounded store retains

Observable == {"content_ingress", "asset_store", "thinking", "tts"}

FaultSoakAssumption ==
    /\ {Every, Limit, Duration} \subseteq Nat \ {0}
    /\ \A t \in Traces : \A i \in 1 .. Len(t) - 1 : t[i].at < t[i + 1].at
    /\ \A t \in Traces : \A i \in DOMAIN t : t[i].at \in 0 .. Duration - 1

VARIABLES
    trace, overlay,
    stage,      \* "validate", "refused", "run", "done" or "aborted"
    index,      \* events done
    now,        \* the scheduler's clock
    calls,      \* FaultInjector: how often each subsystem was asked
    consumed,   \* FaultInjector: the faults that fired, in order
    degraded,   \* content_ingress, generative and asset_store counts
    retained,   \* what each store holds
    midpoint    \* the snapshot at half the trace, or NoSnapshot

vars == <<trace, overlay, stage, index, now, calls, consumed, degraded, retained, midpoint>>

-----------------------------------------------------------------------------
(* Plans.                                                                  *)

\* The order of FaultSubsystem, as far as a plan can name it.
Subsystems == <<"jev", "thinking", "tts", "asset_store", "content_ingress">>
Rank(s) == CHOOSE i \in DOMAIN Subsystems : Subsystems[i] = s
Before(f, g) ==
    \/ Rank(f.subsystem) < Rank(g.subsystem)
    \/ f.subsystem = g.subsystem /\ f.occurrence < g.occurrence

\* FaultPlan::new: sorted, occurrences are one-based, and no two neighbours are
\* the same call.
PlanValid(faults) ==
    LET sorted == SortSeq(faults, Before)
    IN  /\ \A i \in DOMAIN sorted : sorted[i].occurrence # 0
        /\ \A i \in 1 .. Len(sorted) - 1 :
              \/ sorted[i].subsystem # sorted[i + 1].subsystem
              \/ sorted[i].occurrence # sorted[i + 1].occurrence

OverlayValid(o) ==
    /\ o.schema = "current" /\ o.target.id # "" /\ o.target.version > 0
    /\ o.faults # <<>>
    /\ \A i \in DOMAIN o.faults : o.faults[i].subsystem \in Observable
    /\ PlanValid(o.faults)

\* How often the trace will ask each subsystem, counted before it runs.
Reachable(t, subsystem) ==
    CASE subsystem = "content_ingress" -> Cardinality({i \in DOMAIN t : t[i].content})
      [] subsystem \in {"thinking", "tts"} -> Cardinality({i \in DOMAIN t : t[i].miss})
      [] subsystem = "asset_store" -> Cardinality({i \in DOMAIN t : (i - 1) % Every = 0})
      [] OTHER -> 0

Accepted(o, t) ==
    /\ OverlayValid(o)
    /\ o.target = Target
    /\ Len(t) >= 2
    /\ \A i \in DOMAIN o.faults : o.faults[i].occurrence <= Reachable(t, o.faults[i].subsystem)

\* FaultInjector::next, for the subsystems asked at one event: each one's count
\* goes up, and it faults when the plan has that occurrence.
Faulted(s) ==
    {f \in ToSet(overlay.faults) : f.subsystem = s /\ f.occurrence = calls[s] + 1}

-----------------------------------------------------------------------------
NoSnapshot == [history |-> -1]
Stores == {"history", "audit", "entries", "telemetry", "assets"}

Init ==
    /\ trace \in Traces /\ overlay \in Overlays
    /\ stage = "validate" /\ index = 0 /\ now = 0
    /\ calls = [s \in Observable |-> 0] /\ consumed = <<>>
    /\ degraded = [content_ingress |-> 0, generative |-> 0, asset_store |-> 0]
    /\ retained = [s \in Stores |-> 0] /\ midpoint = NoSnapshot

Start ==
    /\ stage = "validate"
    /\ stage' = IF Accepted(overlay, trace) THEN "run" ELSE "refused"
    /\ UNCHANGED <<trace, overlay, index, now, calls, consumed, degraded, retained, midpoint>>

\* One event: through the ingress if it is content, then whatever happened
\* there scheduled, remembered and observed; a miss asks both providers; every
\* so often the asset store is asked.
Event ==
    LET e == trace[index + 1]
        asks == [content_ingress |-> e.content, thinking |-> e.miss, tts |-> e.miss,
                 asset_store |-> index % Every = 0]
        order == SelectSeq(<<"content_ingress", "thinking", "tts", "asset_store">>,
                           LAMBDA s : asks[s])
        fires(s) == asks[s] /\ Faulted(s) # {}
        one(b) == IF b THEN 1 ELSE 0
        grown(s, b) == Min({Limit, retained[s] + one(b)})
    IN  /\ stage = "run" /\ index < Len(trace)
        /\ calls' = [s \in Observable |-> calls[s] + one(asks[s])]
        /\ consumed' = consumed \o FlattenSeq([i \in DOMAIN order |-> SetToSeq(Faulted(order[i]))])
        /\ degraded' =
              [content_ingress |-> degraded.content_ingress + one(fires("content_ingress")),
               generative |-> degraded.generative + one(fires("thinking") \/ fires("tts")),
               asset_store |-> degraded.asset_store + one(fires("asset_store"))]
        /\ retained' =
              [history |-> grown("history", TRUE),
               audit |-> grown("audit", e.content /\ ~fires("content_ingress")),
               entries |-> grown("entries", TRUE), telemetry |-> grown("telemetry", TRUE),
               assets |-> grown("assets", asks.asset_store /\ ~fires("asset_store"))]
        /\ midpoint' = IF index + 1 = Len(trace) \div 2 THEN retained' ELSE midpoint
        /\ stage' = IF e.at < now THEN "aborted" ELSE stage
        /\ now' = e.at + 1
        /\ index' = index + 1
        /\ UNCHANGED <<trace, overlay>>

\* The timeline runs on to the declared end; a plan that did not fire in full
\* is an error.
Finish ==
    /\ stage = "run" /\ index = Len(trace)
    /\ now' = Duration + 1
    /\ stage' = IF midpoint = NoSnapshot \/ Len(consumed) # Len(overlay.faults)
                THEN "aborted" ELSE "done"
    /\ UNCHANGED <<trace, overlay, index, calls, consumed, degraded, retained, midpoint>>

Next == Start \/ Event \/ Finish

Spec == Init /\ [][Next]_vars

-----------------------------------------------------------------------------
Planned(s) == {f \in ToSet(overlay.faults) : f.subsystem = s}

\* No accepted plan is a false green: the calls counted before the run are the
\* calls made, so every planned fault fires, once, and the error for a plan
\* that did not is never reached (scenario_soak.rs:432-453, 483-513).
EveryFaultFires ==
    /\ stage # "aborted"
    /\ stage = "done" => /\ ToSet(consumed) = ToSet(overlay.faults)
                         /\ \A s \in Observable : calls[s] = Reachable(trace, s)
    /\ \A i, j \in DOMAIN consumed :
          i < j /\ consumed[i].subsystem = consumed[j].subsystem
              => consumed[i].occurrence < consumed[j].occurrence

\* A fault degrades what it hits and nothing else: every event is scheduled,
\* remembered and observed all the same, and the counts are those of the plan;
\* a miss that loses both providers is one degraded reaction.
DegradesAlone ==
    stage = "done" =>
        /\ \A s \in {"history", "entries", "telemetry"} : retained[s] = Min({Limit, Len(trace)})
        /\ degraded.content_ingress = Cardinality(Planned("content_ingress"))
        /\ degraded.asset_store = Cardinality(Planned("asset_store"))
        /\ degraded.generative
              = Cardinality({f.occurrence : f \in Planned("thinking") \cup Planned("tts")})
        /\ retained.audit = Min({Limit, Reachable(trace, "content_ingress")
                                          - degraded.content_ingress})
=============================================================================
