---------------------------- MODULE MCEvaluation ----------------------------
(***************************************************************************)
(* Small instances of what judges a run from its records, side by side:    *)
(* the operational SLO report in two instances, the evidence for targets,  *)
(* the benchmark gate, the measurement of a memory service, the comparison *)
(* of memory reports, the moderation report in three, the soaks with the   *)
(* workloads they run, the replay of a recording through a scheduler, and  *)
(* the diagnostics of a process.  In a behaviour one part moves.           *)
(***************************************************************************)
EXTENDS Integers, Sequences

CONSTANTS Absent

VARIABLES
    part,
    \* OperationalSlo, in two instances
    events, duration, targets,
    \* SloBaseline
    history,
    \* BenchmarkGate
    base, head,
    \* SidecarEvaluation
    case, attempt, pc, next, todo, handles, retired, high, exists, bank,
    delivered, refused, result,
    \* MemoryReport
    fixture, made, reports, altered, verdict,
    \* ModerationEvidence
    batch,
    \* Soak
    config, soaking, index, entries, links, highest, explicit, latest,
    counts, midpoint, flood,
    \* StreamScenario
    scenario, stage, phase, elapsed, floor, arriving, previous, trace,
    \* FaultSoak
    workload, overlay, running, done, now, calls, consumed, degraded,
    retained, half,
    \* Replay, with its Scheduler
    recording, position, replaying, steps, items, liveGen, liveEvent,
    terminal, cooldowns, generation, lastRejection, clock, lastTerminal,
    evicted, exported, control, op, called, cur, idx, pass,
    \* Diagnostics
    env, status, app, admitted, waiting, order, traces, audit, committed,
    health

sloVars == <<events, duration, targets>>
baselineVars == <<history>>
gateVars == <<base, head>>
sidecarVars == <<case, attempt, pc, next, todo, handles, retired, high,
                 exists, bank, delivered, refused, result>>
reportVars == <<fixture, made, reports, altered, verdict>>
moderationVars == <<batch>>
soakVars == <<config, soaking, index, entries, links, highest, explicit,
              latest, counts, midpoint, flood>>
scenarioVars == <<scenario, stage, phase, elapsed, floor, arriving,
                  previous, trace>>
faultVars == <<workload, overlay, running, done, now, calls, consumed,
               degraded, retained, half>>
replayVars == <<recording, position, replaying, steps, items, liveGen,
                liveEvent, terminal, cooldowns, generation, lastRejection,
                clock, lastTerminal, evicted, exported, control, op,
                called, cur, idx, pass>>
diagnosticsVars == <<env, status, app, admitted, waiting, order, traces,
                     audit, committed, health>>

----------------------------------------------------------------------------
(* An answered event, and what can be wrong with one.                      *)
None == -1
Answered ==
    [silent |-> FALSE, audio |-> 1, visible |-> 1, cancelled |-> FALSE, override |-> FALSE,
     deadline |-> TRUE, exhausted |-> FALSE, denied |-> FALSE, wrong |-> "none",
     reason |-> "none"]
Silenced == [Answered EXCEPT !.silent = TRUE, !.audio = None, !.visible = None]
AllKinds ==
    {Answered,
     [Answered EXCEPT !.audio = 3, !.visible = 2],
     [Answered EXCEPT !.reason = "timeout", !.audio = None],
     [Answered EXCEPT !.wrong = "wrong"],
     [Answered EXCEPT !.wrong = "right"],
     [Answered EXCEPT !.audio = None, !.visible = None],
     Silenced,
     [Silenced EXCEPT !.reason = "timeout"],
     [Silenced EXCEPT !.denied = TRUE, !.reason = "budget_exhausted"],
     [Silenced EXCEPT !.exhausted = TRUE, !.reason = "mystery"],
     [Silenced EXCEPT !.override = TRUE, !.reason = "operator_override", !.deadline = FALSE],
     [Silenced EXCEPT !.cancelled = TRUE]}
TwoKinds == {Answered, [Silenced EXCEPT !.reason = "timeout", !.denied = TRUE]}

(* A target on every indicator, evidenced or flawed; a probe; none.        *)
Run(i, c) == [id |-> i, commit |-> c]
Calibrated(tenths) ==
    [tenths |-> tenths, threshold |-> 2, value |-> 9, source |-> "artifact",
     series |-> "this", hours |-> 1, runs |-> <<Run("a", "c"), Run("b", "c")>>, eligible |-> 9]
Probe == [Calibrated(10) EXCEPT !.source = "probe", !.value = 0, !.series = "", !.runs = <<>>,
                                !.eligible = 0]
Measured == {"first_visible", "first_audio", "speech_presence", "fallback_delivery",
             "deadline_adherence", "budget_admission", "reuse_correctness"}
On(ids, t) == [i \in ids |-> t]
ClassFiles ==
    {On(Measured, Calibrated(5)), On(Measured, Probe), On({}, Probe),
     On({"stale_dispatch"}, Calibrated(10)),
     On(Measured, [Calibrated(5) EXCEPT !.series = "other"]),
     On(Measured, [Calibrated(5) EXCEPT !.eligible = 1]),
     On(Measured, [Calibrated(5) EXCEPT !.runs = <<Run("a", "c"), Run("a", "d")>>]),
     On(Measured, [Calibrated(5) EXCEPT !.threshold = None]),
     On(Measured, [Calibrated(5) EXCEPT !.value = None]),
     On(Measured, [Calibrated(5) EXCEPT !.source = ""])}
WindowFiles ==
    {On({"speech_presence", "fallback_delivery", "budget_admission"}, Calibrated(k)) :
        k \in {5, 10}}
SomeDurations == {None, 3, 6}

(* One window and every kind of observation; many windows and two kinds.   *)
Classes == INSTANCE OperationalSlo WITH
    Bits <- 9, Hour <- 4, RollingHours <- 1, Persistent <- 2, Floor <- 2, MinRuns <- 2,
    ThisSeries <- "this", EventKinds <- AllKinds, Offsets <- {0}, Durations <- {4},
    TargetFiles <- ClassFiles, MaxEvents <- 3
Hours == INSTANCE OperationalSlo WITH
    Bits <- 9, Hour <- 2, RollingHours <- 2, Persistent <- 2, Floor <- 1, MinRuns <- 2,
    ThisSeries <- "this", EventKinds <- TwoKinds, Offsets <- {0, 1, 2, 4, 7},
    Durations <- SomeDurations, TargetFiles <- WindowFiles, MaxEvents <- 3
ASSUME Classes!SloAssumption /\ Hours!SloAssumption
NoEvents == events = <<>> /\ duration = None /\ targets = On({}, Probe)

(* Histories of three runs with repeats, second views, other series and    *)
(* planes, and rows that are sound or flawed in one way.                   *)
Percentiles == {"p50", "p95", "p99"}
Ratio(eligible, conforming, threshold) ==
    [eligible |-> eligible, conforming |-> conforming, threshold |-> threshold]
Latency(p95, p99) == [samples |-> 2, p50 |-> 2, p95 |-> p95, p99 |-> p99, max |-> p99]
Full(run) ==
    [run |-> run, commit |-> "c", series |-> "s", duration |-> 3, active |-> TRUE,
     version |-> "current", shell |-> FALSE, latency |-> Latency(4, 6),
     rows |-> [i \in {"ratio", "audio"} |-> Ratio(2, 1, None)]]
SomeReports ==
    {Full("a"), Full("b"), [Full("b") EXCEPT !.rows["audio"] = Ratio(2, 2, 5)],
     [Full("c") EXCEPT !.rows["audio"] = Ratio(1, 1, 5), !.rows["ratio"] = Ratio(0, 0, None),
                       !.latency = Latency(8, 8)],
     [Full("c") EXCEPT !.rows["audio"] = Ratio(1, 1, 7), !.duration = None],
     [Full("c") EXCEPT !.active = FALSE], [Full("b") EXCEPT !.series = "t"],
     [Full("b") EXCEPT !.version = "old"], [Full("a") EXCEPT !.run = ""]}
Aggregate(run) ==
    [suite |-> "replay-comparison", series |-> "s", run |-> run, mode |-> TRUE,
     commit |-> "c", duration |-> 3, samples |-> [q \in Percentiles |-> 2],
     metrics |-> [q \in Percentiles |->
                    CASE q = "p50" -> 2 [] q = "p95" -> 4 [] q = "p99" -> 6]]
SomeRows ==
    {Aggregate("a"), Aggregate("d"),
     [Aggregate("a") EXCEPT !.metrics = [q \in Percentiles |-> None]],
     [Aggregate("a") EXCEPT !.metrics["p99"] = 8],
     [Aggregate("a") EXCEPT !.metrics["p95"] = 3],
     [Aggregate("b") EXCEPT !.metrics["p50"] = 6],
     [Aggregate("b") EXCEPT !.metrics["p50"] = None],
     [Aggregate("b") EXCEPT !.samples["p50"] = 3],
     [Aggregate("b") EXCEPT !.suite = "other"], [Aggregate("b") EXCEPT !.commit = "d"]}
Baseline == INSTANCE SloBaseline WITH
    Reports <- SomeReports, Rows <- SomeRows, Exact <- 20, Hour <- 4, MinRuns <- 2,
    MaxHistory <- 4
ASSUME Baseline!BaselineAssumption

(* One base run against up to three head runs: a latency with a floor of   *)
(* samples and an absolute limit, a rate with percentages only.            *)
Result(latency, rate) ==
    [version |-> "1", commit |-> "c", boundary |-> "b", dataset |-> "d",
     metrics |-> [m \in {"latency", "rate"} |->
                    IF m = "latency" THEN [value |-> latency, count |-> 2]
                    ELSE [value |-> rate, count |-> 3]],
     invariants |-> [i \in {"stale", "extra"} |-> 0]]
SomeResults ==
    {Result(2, 8), Result(4, 8), Result(6, 4), Result(0, 8),
     [Result(2, 8) EXCEPT !.invariants["stale"] = 2],
     [Result(4, 8) EXCEPT !.invariants["extra"] = 1],
     [Result(4, 8) EXCEPT !.metrics["latency"].count = None],
     [Result(2, 8) EXCEPT !.commit = "e"], [Result(2, 8) EXCEPT !.dataset = ""],
     [Result(2, 8) EXCEPT !.metrics = [m \in {"rate"} |-> [value |-> 8, count |-> 3]]]}
SomeBudgets ==
    [m \in {"latency", "rate"} |->
        [higher |-> m = "rate", warnPct |-> 10, failPct |-> 60, warnAbs |-> None,
         failAbs |-> IF m = "latency" THEN 3 ELSE None,
         minSamples |-> IF m = "latency" THEN 4 ELSE None]]
Gate == INSTANCE BenchmarkGate WITH
    Results <- SomeResults, Budgets <- SomeBudgets, Limits <- [i \in {"stale"} |-> 1],
    MaxBase <- 1, MaxHead <- 3
ASSUME Gate!GateAssumption

(* Three claims of two viewers or of nobody, recorded in and out of order  *)
(* around a query at 3, one superseding or causing another; two are kept.  *)
Claimed(id, actor, at, supersedes, cause) ==
    [id |-> id, actor |-> actor, topic |-> "none", bytes |-> 2, at |-> at,
     supersedes |-> supersedes, cause |-> cause]
SomeCases ==
    {[claims |-> <<Claimed("a", "v", 1, "none", "none"), Claimed("b", actor, 2, before, "none"),
                   Claimed("c", "v", at, after, cause)>>,
      now |-> 3, actor |-> "v", topic |-> "none", charged |-> 1] :
        actor \in {"v", "w"}, before \in {"none", "a", "c"}, at \in {2, 4},
        after \in {"none", "b"}, cause \in {"none", "a"}}
    \cup {[claims |-> <<Claimed("a", "v", 0, "none", "none"), Claimed("b", "none", 1, "none", "a")>>,
           now |-> 3, actor |-> "v", topic |-> "none", charged |-> 3]}
Sidecar == INSTANCE SidecarEvaluation WITH
    run <- attempt, Cases <- SomeCases, MaxEntries <- 2, DurableTtl <- 3, MaxItems <- 2, MaxText <- 2,
    MaxContext <- 4, Limit <- 2, MaxAnswer <- 2, MaxRuns <- 2
ASSUME Sidecar!SidecarAssumption

(* Documents of one and two cases, with a cause, a refused claim and a     *)
(* text over the bound, and documents that are refused.                    *)
Told(id, at, bytes, cause) ==
    [id |-> id, event |-> at, bytes |-> bytes, supersedes |-> "none", cause |-> cause]
Asked ==
    [id |-> "one", claims |-> <<Told("a", 1, 2, "none"), Told("b", 2, 3, "a")>>, must |-> <<"b">>,
     mustNot |-> <<>>, stale |-> <<>>, order |-> <<"b", "a">>, inversions |-> 0, spans |-> 1,
     charged |-> 1]
Refusing ==
    [Asked EXCEPT !.id = "two", !.claims = <<Told("c", 1, 2, "none")>>, !.must = <<>>,
                  !.mustNot = <<"c">>, !.stale = <<"c">>, !.order = <<>>, !.spans = None]
SomeFixtures ==
    {<<Asked, Refusing>>, <<[Asked EXCEPT !.must = <<"a", "b">>, !.mustNot = <<>>]>>,
     <<Asked, Asked>>, <<[Asked EXCEPT !.stale = <<"a">>]>>, <<[Asked EXCEPT !.must = <<"z">>]>>,
     <<[Asked EXCEPT !.spans = 2]>>, <<>>}
Compared == INSTANCE MemoryReport WITH
    Fixtures <- SomeFixtures, MaxItems <- 2, MaxText <- 2, MaxContext <- 5, Scale <- 4,
    MaxRefused <- 1
ASSUME Compared!ReportAssumption

(* Every case of up to two reviews over three actions and two categories,  *)
(* reviewers whose own label is not acceptable to them included; batches   *)
(* of few cases from two policies, two bounds and two schemas.             *)
Review(label, category, acceptable) ==
    [label |-> label, category |-> category, acceptable |-> acceptable]
SomeActions == {"allow", "ignore", "delete"}
SomeReviews ==
    {Review(l, c, a) : l \in SomeActions, c \in {"none", "spam"}, a \in SUBSET SomeActions}
Moderated(action, reviews) == [action |-> action, category |-> "spam", reviews |-> reviews]
Allowing == Review("allow", "none", {"allow"})
Lenient == Review("ignore", "none", {"ignore", "allow"})
Reviews == INSTANCE ModerationEvidence WITH
    Cases <- {Moderated(a, r) : a \in SomeActions,
                                r \in [1 .. 1 -> SomeReviews] \cup [1 .. 2 -> SomeReviews]},
    Policies <- {"p"}, Stamps <- {"one"}, Versions <- {"current"}, CaseLimit <- 1,
    MaxRecords <- 1
Moderation == INSTANCE ModerationEvidence WITH
    Cases <- {Moderated("delete", <<Allowing>>), Moderated("ban", <<>>),
              Moderated("allow", <<Allowing, Lenient>>), Moderated("ignore", <<Lenient, Allowing>>)},
    Policies <- {"p", "q", "blank"}, Stamps <- {"one", "two", "none"},
    Versions <- {"current", "older"}, CaseLimit <- 1, MaxRecords <- 2
Batches == INSTANCE ModerationEvidence WITH
    Cases <- {Moderated("delete", <<Allowing>>), Moderated("human_review", <<Lenient>>),
              Moderated("allow", <<Allowing, Lenient>>), Moderated("allow", <<Lenient>>)},
    Policies <- {"p", "q"}, Stamps <- {"one"}, Versions <- {"current"}, CaseLimit <- 1,
    MaxRecords <- 3
ASSUME Reviews!ModerationAssumption /\ Moderation!ModerationAssumption
ASSUME Batches!ModerationAssumption

(* Every pace of events, windows and links around the rules that accept a  *)
(* configuration; small rings and a queue whose flood just fits.           *)
Soaks ==
    [events : 1 .. 14, interval : {1, 3}, window : 2 .. 11, links : 1 .. 5, history : {3},
     audit : {5}, telemetry : {3}, compactions : {2}, assets : {2}, every : {3}, queue : {2}]
Soaked == INSTANCE Soak WITH
    stage <- soaking, high <- highest, previous <- latest, Configs <- Soaks, Word <- 36,
    PerWrite <- 2, Pace <- 5, Slack <- 2, Burst <- 6
ASSUME Soaked!SoakAssumption

(* Start dates around every rule of the calendar, two seconds before       *)
(* midnight; and phases of every rate, pool and share of repeats, from the *)
(* last two seconds of a century on.                                       *)
At(y, m, d, h, mi, s) == [y |-> y, mo |-> m, d |-> d, h |-> h, mi |-> mi, s |-> s, ms |-> 0]
PhaseOf(name, lasts, rate, actors, repeat) ==
    [name |-> name, duration |-> lasts, rate |-> rate, actors |-> actors, repeat |-> repeat,
     kinds |-> <<[key |-> "chat", weight |-> 1]>>, topics |-> 1,
     semantic |-> <<[key |-> "hit", weight |-> 1]>>,
     priority |-> <<[key |-> "low", weight |-> 1]>>]
Document(start, phases, lasts) ==
    [header |-> "sound", start |-> start, phases |-> phases, duration |-> lasts]
Starts ==
    {At(y, m, d, 23, 59, 58) : y \in {0, 1969, 1970, 1972, 1999, 2000, 2024, 2100, 2400, 9998},
                               m \in 0 .. 13, d \in 0 .. 32}
    \cup {At(9999, 12, d, 5, 59, 59) : d \in 0 .. 32}
    \cup {At(2024, 2, 29, 24, 0, 0), At(2024, 2, 29, 0, 60, 0), At(2024, 2, 29, 0, 0, 60)}
Dates == INSTANCE StreamScenario WITH
    Scenarios <- {Document(s, <<PhaseOf("a", 4, 3, 1, 0)>>, 4) : s \in Starts},
    Words <- 16, Minute <- 12, Milli <- 2, MaxActors <- 3, MaxEvents <- 9
Eve == At(1999, 12, 31, 23, 59, 58)
Single == Document(Eve, <<PhaseOf("a", 3, 12, 2, 0)>>, 3)
Documents ==
    {Document(Eve, <<PhaseOf("a", d, r, n, k), PhaseOf("b", e, 6, 2, 3)>>, d + e) :
        d \in {3, 6}, r \in {0, 5, 12}, n \in 1 .. 3, k \in {0, 5, 9, 10}, e \in {2, 3}}
    \cup {Single, [Single EXCEPT !.header = "slug"], [Single EXCEPT !.duration = 4],
          Document(Eve, <<>>, 0), [Single EXCEPT !.phases[1].rate = 13],
          Document(Eve, Single.phases \o Single.phases, 6), [Single EXCEPT !.phases[1].actors = 6],
          Document(Eve, <<PhaseOf("a", 9, 12, 2, 0)>>, 9),
          [Single EXCEPT !.phases[1].topics = 0], [Single EXCEPT !.phases[1].priority = <<>>],
          [Single EXCEPT !.phases[1].semantic = <<[key |-> "miss", weight |-> 0]>>],
          [Single EXCEPT !.phases[1].kinds = <<[key |-> "operator", weight |-> 1]>>],
          [Single EXCEPT !.phases[1].kinds = <<[key |-> "chat", weight |-> 0]>>],
          [Single EXCEPT !.phases[1].kinds = <<[key |-> "chat", weight |-> 3],
                                               [key |-> "timer", weight |-> 2]>>]}
Streams == INSTANCE StreamScenario WITH
    Scenarios <- Documents, Words <- 16, Minute <- 12, Milli <- 2, MaxActors <- 5,
    MaxEvents <- 8
ASSUME Dates!ScenarioAssumption /\ Streams!ScenarioAssumption
NoScenario == scenario = Single /\ Streams!Init

(* Every trace of three events and of one, every plan of up to three       *)
(* faults, and overlays that are refused.                                  *)
Fault(s, o) == [subsystem |-> s, occurrence |-> o, kind |-> "timeout"]
Targeted == [id |-> "s", version |-> 1]
Overlay(faults) == [schema |-> "current", target |-> Targeted, faults |-> faults]
SomeFaults ==
    {Fault(s, o) : s \in {"content_ingress", "asset_store", "thinking", "tts"}, o \in 1 .. 2}
    \cup {Fault("jev", 1), Fault("tts", 0)}
Plain == Overlay(<<Fault("tts", 1)>>)
SomeOverlays ==
    {Overlay(<<f>>) : f \in SomeFaults} \cup {Overlay(<<f, g>>) : f, g \in SomeFaults}
    \cup {Overlay(<<f, g, Fault("tts", 1)>>) : f, g \in SomeFaults}
    \cup {[Plain EXCEPT !.target.version = 2], [Plain EXCEPT !.schema = "old"], Overlay(<<>>)}
SomeTraces ==
    UNION {{[i \in 1 .. n |-> [at |-> 2 * i - 1, content |-> c[i], miss |-> m[i]]] :
               c, m \in [1 .. n -> BOOLEAN]} : n \in {1, 3}}
Faults == INSTANCE FaultSoak WITH
    trace <- workload, stage <- running, index <- done, midpoint <- half,
    Traces <- SomeTraces, Overlays <- SomeOverlays, Target <- Targeted, Duration <- 8,
    Every <- 2, Limit <- 2
ASSUME Faults!FaultSoakAssumption
NoOverlay == overlay = Plain /\ workload = (CHOOSE t \in SomeTraces : Len(t) = 1) /\ Faults!Init
NoSoak == config = (CHOOSE c \in Soaks : c.events = 1) /\ Soaked!Init
NoCase == case = (CHOOSE c \in SomeCases : TRUE) /\ Sidecar!Init
NoFixture == fixture = <<>> /\ Compared!Init

(* Recordings of three performances, and of two with a stop or a fallback: *)
(* plans that exclude each other or not, from two ranks; and recordings    *)
(* that are refused.                                                       *)
Asset(name, lasts, interruptible, exclusive, channels) ==
    [name |-> name, duration |-> lasts, interruptible |-> interruptible, points |-> {1},
     exclusive |-> exclusive, channels |-> channels, valid |-> TRUE]
Talk == Asset("talk", 3, TRUE, FALSE, {"audio", "face"})
Long == Asset("long", 4, FALSE, TRUE, {"face"})
Recorded(n, time, kind, directive, asset, delay) ==
    [at |-> time, kind |-> kind, sequence |-> n, id |-> n, directive |-> directive,
     delay |-> delay, asset |-> asset]
Performances(n) ==
    {Recorded(n, t, k, "performance", a, d) :
        t \in {1, 3}, k \in {"chat", "donation"}, a \in {Talk, Long}, d \in {0, 2}}
Others(n) ==
    {Recorded(n, t, "operator", "stop", Talk, 0) : t \in {2, 3}}
    \cup {Recorded(n, 3, "chat", "fallback", Talk, 0)}
Spoken == Recorded(1, 1, "chat", "performance", Talk, 0)
SomeRecordings ==
    {<<a, b, c>> : a \in {p \in Performances(1) : p.at = 1},
                   b \in Performances(2), c \in Performances(3) \cup Others(3)}
    \cup {<<>>, <<[Spoken EXCEPT !.directive = "stop"]>>, <<[Spoken EXCEPT !.asset.valid = FALSE]>>,
          <<Spoken, Spoken>>}
Replayed == INSTANCE Replay WITH
    phase <- replaying, history <- terminal, now <- clock, pc <- control, at <- called,
    Recordings <- SomeRecordings, AudioAvailable <- TRUE, AvatarAvailable <- FALSE,
    Events <- 1 .. 3, Assets <- {"talk", "long"}, Channels <- {"audio", "face"}, TimeMax <- 20,
    Spacing <- 0, Length <- 3, None <- Absent
ASSUME Replayed!ReplayAssumption
NoRecording == recording = <<>> /\ Replayed!Init

(* Every mode with and without its key and its backend, limits that are    *)
(* refused; and errors that hold two secrets, overlapping or apart, around *)
(* an endpoint or in it.                                                   *)
Bounds(traced, audited, linked, perWrite) ==
    [traces |-> traced, audit |-> audited, links |-> linked, perWrite |-> perWrite]
SomeEnvironments ==
    {[mode |-> m[1], generative |-> g, key |-> m[2], limits |-> l] :
        m \in {"unset", "full", "reflex"} \X {FALSE} \cup {"reflex", "full", "other"} \X {TRUE},
        g \in {"off", "ready", "broken"}, l \in {Bounds(2, 2, 2, 2), Bounds(2, 2, 1, 2), Bounds(0, 2, 2, 2)}}
SomeTexts ==
    {<<"a", "b", "a", "b", "a", "gap", "b", "url">>,
     <<"gap", "url", "b", "a", "gap", "gap", "b">>}
Diagnosed == INSTANCE Diagnostics WITH
    Environments <- SomeEnvironments, Correlations <- {"c", "d", "e"}, CorrelationLimit <- 2,
    Allowed <- 2, Texts <- SomeTexts, Secrets <- <<<<"a", "b", "a">>, <<"b", "a">>>>,
    Failing <- {"audio"},
    Requests <- {[timelines |-> 0, audits |-> 1], [timelines |-> 1, audits |-> 0],
                 [timelines |-> 3, audits |-> 3]},
    MaxEvents <- 3, MaxRecords <- 3
ASSUME Diagnosed!DiagnosticsAssumption
NoEnvironment == env = (CHOOSE e \in SomeEnvironments : e.mode = "other") /\ Diagnosed!Init

----------------------------------------------------------------------------
Init ==
    /\ part \in {"classes", "hours", "baseline", "gate", "sidecar",
                 "report", "reviews", "moderation", "batches", "soak",
                 "dates", "streams", "faults", "replay", "diagnostics"}
    /\ CASE part = "hours" -> Hours!Init [] part = "classes" -> Classes!Init [] OTHER -> NoEvents
    /\ Baseline!Init
    /\ Gate!Init
    /\ Reviews!Init
    /\ IF part = "sidecar" THEN Sidecar!Init ELSE NoCase
    /\ IF part = "report" THEN Compared!Init ELSE NoFixture
    /\ IF part = "soak" THEN Soaked!Init ELSE NoSoak
    /\ CASE part = "dates" -> Dates!Init [] part = "streams" -> Streams!Init [] OTHER -> NoScenario
    /\ IF part = "faults" THEN Faults!Init ELSE NoOverlay
    /\ IF part = "replay" THEN Replayed!Init ELSE NoRecording
    /\ IF part = "diagnostics" THEN Diagnosed!Init ELSE NoEnvironment

Next ==
    /\ UNCHANGED part
    /\ \/ part = "classes" /\ Classes!Next
          /\ UNCHANGED <<baselineVars, gateVars, sidecarVars, reportVars,
                         moderationVars, soakVars, scenarioVars, faultVars,
                         replayVars, diagnosticsVars>>
       \/ part = "hours" /\ Hours!Next
          /\ UNCHANGED <<baselineVars, gateVars, sidecarVars, reportVars,
                         moderationVars, soakVars, scenarioVars, faultVars,
                         replayVars, diagnosticsVars>>
       \/ part = "baseline" /\ Baseline!Next
          /\ UNCHANGED <<sloVars, gateVars, sidecarVars, reportVars,
                         moderationVars, soakVars, scenarioVars, faultVars,
                         replayVars, diagnosticsVars>>
       \/ part = "gate" /\ Gate!Next
          /\ UNCHANGED <<sloVars, baselineVars, sidecarVars, reportVars,
                         moderationVars, soakVars, scenarioVars, faultVars,
                         replayVars, diagnosticsVars>>
       \/ part = "sidecar" /\ Sidecar!Next
          /\ UNCHANGED <<sloVars, baselineVars, gateVars, reportVars,
                         moderationVars, soakVars, scenarioVars, faultVars,
                         replayVars, diagnosticsVars>>
       \/ part = "report" /\ Compared!Next
          /\ UNCHANGED <<sloVars, baselineVars, gateVars, sidecarVars,
                         moderationVars, soakVars, scenarioVars, faultVars,
                         replayVars, diagnosticsVars>>
       \/ part = "reviews" /\ Reviews!Next
          /\ UNCHANGED <<sloVars, baselineVars, gateVars, sidecarVars,
                         reportVars, soakVars, scenarioVars, faultVars,
                         replayVars, diagnosticsVars>>
       \/ part = "moderation" /\ Moderation!Next
          /\ UNCHANGED <<sloVars, baselineVars, gateVars, sidecarVars,
                         reportVars, soakVars, scenarioVars, faultVars,
                         replayVars, diagnosticsVars>>
       \/ part = "batches" /\ Batches!Next
          /\ UNCHANGED <<sloVars, baselineVars, gateVars, sidecarVars,
                         reportVars, soakVars, scenarioVars, faultVars,
                         replayVars, diagnosticsVars>>
       \/ part = "soak" /\ Soaked!Next
          /\ UNCHANGED <<sloVars, baselineVars, gateVars, sidecarVars,
                         reportVars, moderationVars, scenarioVars,
                         faultVars, replayVars, diagnosticsVars>>
       \/ part = "dates" /\ Dates!Next
          /\ UNCHANGED <<sloVars, baselineVars, gateVars, sidecarVars,
                         reportVars, moderationVars, soakVars, faultVars,
                         replayVars, diagnosticsVars>>
       \/ part = "streams" /\ Streams!Next
          /\ UNCHANGED <<sloVars, baselineVars, gateVars, sidecarVars,
                         reportVars, moderationVars, soakVars, faultVars,
                         replayVars, diagnosticsVars>>
       \/ part = "faults" /\ Faults!Next
          /\ UNCHANGED <<sloVars, baselineVars, gateVars, sidecarVars,
                         reportVars, moderationVars, soakVars,
                         scenarioVars, replayVars, diagnosticsVars>>
       \/ part = "replay" /\ Replayed!Next
          /\ UNCHANGED <<sloVars, baselineVars, gateVars, sidecarVars,
                         reportVars, moderationVars, soakVars,
                         scenarioVars, faultVars, diagnosticsVars>>
       \/ part = "diagnostics" /\ Diagnosed!Next
          /\ UNCHANGED <<sloVars, baselineVars, gateVars, sidecarVars,
                         reportVars, moderationVars, soakVars,
                         scenarioVars, faultVars, replayVars>>

Spec == Init /\ [][Next]_<<part, sloVars, baselineVars, gateVars, sidecarVars,
                           reportVars, moderationVars, soakVars,
                           scenarioVars, faultVars, replayVars,
                           diagnosticsVars>>

----------------------------------------------------------------------------
\* A decision rests on evidence of its series, what a row attributes are its
\* own misses, a percentile is a percentile, the hours partition the run and
\* only windows of one kind make a streak (operational_slo.rs); a pull request
\* is judged by what its runs agree on, in any order, and a broken invariant is
\* never outvoted (benchmark_gate.rs).  Whatever a memory service answers, what
\* is measured of it are live claims of the asker, and its scope is clean before
\* and accounted for after (memory_sidecar_eval.rs); a candidate's report is
\* rejected exactly for what it delivered, and an altered one is refused
\* (memory_compare.rs).  A moderation report counts alike in any order, adds up
\* and shows the suppression of what reviewers call benign
\* (moderation_evidence.rs).  A soak that is accepted runs to its end within its
\* bounds and has exercised what it reports (soak.rs); the trace of a scenario
\* is what its document predicts (scenario.rs), and every fault planned over it
\* fires and degrades only what it hits (scenario_soak.rs, fault.rs).  A replay
\* accounts for every input of its recording in one order, and what its sinks are
\* told to play they are told to stop (replay.rs).  A process composes what its profile names,
\* and a support bundle shows its newest incidents and counts, and no secret
\* (profile.rs, support_bundle.rs).
VerdictsEvidenced ==
    /\ part = "classes" => /\ Classes!DecidedOnEvidence /\ Classes!AttributionWithinMisses
                           /\ Classes!RankIsPercentile
    /\ part = "hours" => /\ Hours!HoursPartition /\ Hours!HoursMetSessionMet
                         /\ Hours!StreakWithinSeries
    /\ part = "gate" => /\ Gate!OneRunCannotDecide /\ Gate!ViolationSticks
                        /\ Gate!OrderOfRunsIrrelevant /\ Gate!Monotone /\ Gate!SelfPasses
    /\ part = "sidecar" => /\ Sidecar!TypeOK /\ Sidecar!Accountable /\ Sidecar!ServiceTold
                           /\ Sidecar!NothingLeftSilently /\ Sidecar!FreshScope
                           /\ Sidecar!KeepsStoreLive /\ Sidecar!EdgesDeclared
    /\ part = "report" => /\ Compared!HonestComparable /\ Compared!RejectionEvidenced
                          /\ Compared!NoFreeWin /\ Compared!AlterationCaught
    /\ part = "reviews" => Reviews!OrderIrrelevant /\ Reviews!HarmNotHidden
    /\ part = "moderation" => Moderation!OrderIrrelevant /\ Moderation!HalvesAgree
    /\ part = "batches" => /\ Batches!OrderIrrelevant /\ Batches!HalvesAgree
                           /\ Batches!ReferencesHonest /\ Batches!HarmNotHidden
    /\ part = "soak" => /\ Soaked!AcceptedCompletes /\ Soaked!ChainExact
                        /\ Soaked!LinksExercised /\ Soaked!BoundsHold /\ Soaked!FloodAccounted
    /\ part = "dates" => /\ Dates!DatesReal /\ Dates!TraceOrdered /\ Dates!AcceptedRenders
    /\ part = "streams" => /\ Streams!TraceOrdered /\ Streams!ViewersPredicted
                           /\ Streams!AcceptedRenders
                           /\ Len(trace) = 0 => Streams!Unbiased /\ Streams!BandsGraded
    /\ part = "faults" => Faults!EveryFaultFires /\ Faults!DegradesAlone
    /\ part = "replay" => /\ Replayed!ReplayComplete /\ Replayed!OrderOfListingIrrelevant
                          /\ Replayed!StopSilences /\ Replayed!SinksAlternate
    /\ part = "diagnostics" => /\ Diagnosed!CompositionNamed /\ Diagnosed!TimelinesNewest
                               /\ Diagnosed!ReferencesExpand /\ Diagnosed!CountersAddUp
                               /\ Diagnosed!NothingLeaks

\* The evidence for targets is earned by distinct runs, whatever the order of
\* the files, repeats and second views (operational_slo.rs, slo-baseline.rs).
BaselineSound ==
    part = "baseline" => /\ Baseline!OrderIrrelevant /\ Baseline!EvidenceEarned
                         /\ Baseline!WorstIsKept /\ Baseline!InputsAccounted
=============================================================================
