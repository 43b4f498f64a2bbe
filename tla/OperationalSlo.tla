--------------------------- MODULE OperationalSlo ---------------------------
(***************************************************************************)
(* The operational SLO report (telemetry/src/operational_slo.rs): windows  *)
(* over the logical stream, one classifier per indicator, status, error    *)
(* budget, miss attribution and the candidates for an after-action review. *)
(*                                                                         *)
(* A run of the benchmark is a sequence of observations that grows; the    *)
(* report is a function of it, of the declared duration and of a targets   *)
(* file, and is checked in every state.  Ratios are f64 in the code: here  *)
(* floats of Bits bits, rounded as in Retrieval.                           *)
(***************************************************************************)
EXTENDS Integers, Sequences, FiniteSets, SequencesExt, FiniteSetsExt

CONSTANTS
    Bits,          \* bits of a mantissa
    Hour,          \* STREAM_HOUR_MS
    RollingHours,  \* rolling_window_hours
    Persistent,    \* persistent_miss_windows
    Floor,         \* the sample floor the catalog writes as 15
    MinRuns,       \* MIN_BASELINE_RUNS
    ThisSeries,    \* compatibility series of the report under evaluation
    EventKinds,    \* observations tried, without their offset
    Offsets,       \* stream offsets tried, None among them or not
    Durations,     \* declared stream durations tried
    TargetFiles,   \* targets files tried: indicator id to target
    MaxEvents      \* bound of the model: observations in a run

None == -1

SloAssumption ==
    /\ Bits \in Nat \ {0} /\ Hour \in Nat \ {0} /\ RollingHours \in Nat \ {0}
    /\ Persistent \in Nat \ {0} /\ Floor \in Nat \ {0} /\ MinRuns \in Nat \ {0}
    /\ Offsets \subseteq Nat \cup {None} /\ Durations \subseteq Nat \cup {None}
    /\ MaxEvents \in Nat

VARIABLES
    events,     \* EventObservation: the retained observations, in order
    duration,   \* stream_duration_ms of the workload, or None
    targets     \* the targets file of this evaluation

vars == <<events, duration, targets>>

----------------------------------------------------------------------------
(* Floats.                                                                 *)

F == INSTANCE Retrieval WITH Unit <- 1

\* The ratio c / n as the code computes it, at least k tenths.
AtLeast(c, n, k) ==
    LET value == F!Rounded(c, n, 0)
        target == F!Rounded(k, 10, 0)
    IN  IF k = 0 THEN TRUE
        ELSE IF c = 0 THEN FALSE
        ELSE value.e > target.e \/ (value.e = target.e /\ value.m >= target.m)

\* floor((1.0 - target) * eligible)
AllowedMisses(k, eligible) ==
    LET target == F!Rounded(k, 10, 0)
        left == 2 ^ (-target.e) - target.m
        share == F!Rounded(left, 1, target.e)
        product == F!Rounded(share.m * eligible, 1, share.e)
    IN  IF k = 0 THEN eligible
        ELSE IF left = 0 THEN 0
        ELSE IF product.e < 0 THEN product.m \div 2 ^ (-product.e)
        ELSE product.m * 2 ^ product.e

----------------------------------------------------------------------------
(* Observations and their classification.                                  *)

ProviderReasons == {"timeout", "unavailable", "rate_limited", "overloaded", "authentication"}
PolicyReasons == {"invalid_request", "low_confidence", "policy_override",
                  "operator_override", "budget_exhausted"}
ExternalFailure(e) == e.reason \in ProviderReasons
ProducedVisibleOutput(e) == e.audio # None \/ e.visible # None

AttributionOf(e) ==
    IF ~ExternalFailure(e) THEN "unattributed"
    ELSE IF ProducedVisibleOutput(e) THEN "external_provider" ELSE "runtime_handling"

\* AttributionSummary::of, as counts by cause; no declared reason is not counted.
Attribution(selected) ==
    LET count(P(_)) == Len(SelectSeq(selected, P))
    IN  [external |-> count(ExternalFailure),
         handled  |-> count(LAMBDA e : AttributionOf(e) = "external_provider"),
         failures |-> count(LAMBDA e : AttributionOf(e) = "runtime_handling"),
         policy   |-> count(LAMBDA e : e.reason \in PolicyReasons),
         unknown  |-> count(LAMBDA e : e.reason \notin {"none"} \cup ProviderReasons \cup PolicyReasons)]

\* The catalog.  The invariants are all declared only, never measured.
MeasuredIds == {"first_visible", "first_audio", "speech_presence", "fallback_delivery",
                "deadline_adherence", "budget_admission", "reuse_correctness"}
DeclaredIds == {"stop_responsiveness", "admission_success", "stale_dispatch",
                "unauthorized_action", "retention_violation"}
InvariantIds == {"stale_dispatch", "unauthorized_action", "retention_violation"}
LatencyIds == {"first_visible", "first_audio", "stop_responsiveness"}
SampleFloor(id) ==
    IF id \in InvariantIds THEN 0
    ELSE IF id \in {"fallback_delivery", "reuse_correctness", "stop_responsiveness"} THEN 1
    ELSE Floor

ClassifyLatency(latency, target) ==
    IF latency = None THEN "outside"
    ELSE IF target = {} THEN "unscored"
    ELSE LET t == CHOOSE t \in target : TRUE
         IN  IF t.threshold = None THEN "unscored"
             ELSE IF latency <= t.threshold THEN "conforms" ELSE "misses"

UnintendedSilence(e) == e.silent /\ ~e.override /\ ~e.exhausted /\ ~e.denied

Scored(miss) == IF miss THEN "misses" ELSE "conforms"

\* target is the set of the target that applies: one element, or none.
Classify(id, e, target) ==
    CASE id = "first_visible" -> ClassifyLatency(e.visible, target)
      [] id = "first_audio" -> ClassifyLatency(e.audio, target)
      [] id = "speech_presence" ->
             IF e.cancelled THEN "outside" ELSE Scored(UnintendedSilence(e))
      [] id = "fallback_delivery" ->
             IF ExternalFailure(e) THEN Scored(~ProducedVisibleOutput(e)) ELSE "outside"
      [] id = "deadline_adherence" ->
             IF e.deadline THEN Scored(e.exhausted) ELSE "outside"
      [] id = "budget_admission" -> Scored(e.denied)
      [] id = "reuse_correctness" ->
             IF e.wrong = "none" THEN "outside" ELSE Scored(e.wrong = "wrong")
      [] OTHER -> "outside"

----------------------------------------------------------------------------
(* Targets.                                                                *)

\* What makes an accepted baseline evidence: the reasons to refuse it, negated.
Evidenced(id, t) ==
    /\ t.series # ""
    /\ \A r \in Range(t.runs) : r.id # "" /\ r.commit # ""
    /\ Cardinality({r.id : r \in Range(t.runs)}) = Len(t.runs)
    /\ Len(t.runs) >= MinRuns
    /\ t.eligible # None /\ t.eligible >= SampleFloor(id)

\* A target whose cited source starts with PROBE_SOURCE_MARKER.
IsProbe(t) == t.source = "probe"

\* validate_inner; a file of another catalog or report version has no entry
\* here.  Ratios are in tenths, one that is not finite is None, and a blank
\* source is "".
Valid(file, allowProbe) ==
    \A id \in DOMAIN file :
        LET t == file[id]
        IN  /\ id \in (MeasuredIds \cup DeclaredIds) \ InvariantIds
            /\ t.tenths \in 0..10 /\ t.value \in 0..10 /\ t.hours # 0
            /\ id \in LatencyIds => t.threshold # None
            /\ t.source # ""
            /\ IsProbe(t) => allowProbe
            /\ ~IsProbe(t) => Evidenced(id, t)

\* Mutant: a target applies to any series.
ApplicableAnywhere(file, id) == IF id \in DOMAIN file THEN {file[id]} ELSE {}

\* The target that applies: a probe, or one calibrated on this very series.
Applicable(file, id) ==
    IF id \in DOMAIN file /\ (IsProbe(file[id]) \/ file[id].series = ThisSeries)
    THEN {file[id]} ELSE {}

----------------------------------------------------------------------------
(* Windows.                                                                *)

ObservedEnd(evs) == Max({0} \cup {e.offset + 1 : e \in Range(evs)})
Between(evs, from, to) == SelectSeq(evs, LAMBDA e : e.offset >= from /\ e.offset < to)
Window(kind, from, to) == [kind |-> kind, from |-> from, to |-> to]

Represented(evs, declared) == Max({ObservedEnd(evs), declared})

\* build_windows: the session; beyond one hour, with every offset recorded,
\* also the stream hours and the rolling spans that fit.
Windows(evs, declared) ==
    LET session == Window("session", 0, IF declared = None THEN ObservedEnd(evs) ELSE declared)
        hours == ((Represented(evs, declared) - 1) \div Hour) + 1
        hour(n) == Window("hour", (n - 1) * Hour, n * Hour)
        rolling(n) == Window("rolling", (n - 1) * Hour, (n - 1 + RollingHours) * Hour)
    IN  IF \/ evs = <<>>
           \/ \E e \in Range(evs) : e.offset = None
           \/ Represented(evs, declared) <= Hour
        THEN <<session>>
        ELSE <<session>> \o [n \in 1..hours |-> hour(n)]
                         \o [n \in 1..Max({0, hours - RollingHours + 1}) |-> rolling(n)]

WindowEvents(evs, w) == IF w.kind = "session" THEN evs ELSE Between(evs, w.from, w.to)

----------------------------------------------------------------------------
(* One row of the report: an indicator in a window.                        *)

Measure(id, scoped, target) ==
    LET count(v) == Len(SelectSeq(scoped, LAMBDA e : Classify(id, e, target) = v))
    IN  [eligible |-> Len(scoped) - count("outside"),
         conforming |-> count("conforms"),
         unscored |-> count("unscored")]

Misses(m) == m.eligible - m.conforming - m.unscored

StatusFor(id, m, target) ==
    IF m.eligible = 0 THEN "no_data"
    ELSE IF target = {} \/ m.unscored > 0 THEN "uncalibrated"
    ELSE IF m.eligible < SampleFloor(id) THEN "insufficient_samples"
    ELSE IF \A t \in target : AtLeast(m.conforming, m.eligible, t.tenths) THEN "met"
    ELSE "missed"

Decided(status) == status \in {"met", "missed"}
Unresolved(status) == status \in {"uncalibrated", "not_yet_measured", "insufficient_samples"}

MissedEvents(id, scoped, target) ==
    SelectSeq(scoped, LAMBDA e : Classify(id, e, target) = "misses")

NotYetMeasured == [eligible |-> 0, conforming |-> 0, unscored |-> 0,
                   status |-> "not_yet_measured", attribution |-> Attribution(<<>>),
                   tenths |-> None]

Row(id, scoped, target) ==
    LET m == Measure(id, scoped, target)
    IN  [eligible |-> m.eligible, conforming |-> m.conforming, unscored |-> m.unscored,
         status |-> StatusFor(id, m, target),
         attribution |-> Attribution(MissedEvents(id, scoped, target)),
         tenths |-> Max({None} \cup {t.tenths : t \in target})]

\* evaluate: every indicator in every window.
Rows(evs, declared, file) ==
    LET windows == Windows(evs, declared)
    IN  [id \in MeasuredIds \cup DeclaredIds |->
           [n \in DOMAIN windows |->
              IF id \in DeclaredIds THEN NotYetMeasured
              ELSE Row(id, WindowEvents(evs, windows[n]), Applicable(file, id))]]

\* error_budget_for: only of what was decided.
Exhausted(row) == Misses(row) > AllowedMisses(row.tenths, row.eligible)

OverallVerdict(statuses) ==
    IF "missed" \in statuses THEN "breach"
    ELSE IF \E s \in statuses : Unresolved(s) THEN "incomplete"
    ELSE IF \E s \in statuses : Decided(s) THEN "ok" ELSE "uncalibrated"

\* The windows of one kind, by their index.
SeriesOf(windows, kind) ==
    SelectSeq([n \in DOMAIN windows |-> n], LAMBDA n : windows[n].kind = kind)

\* aar_candidates of one indicator and one kind of window.
Candidates(rows, series) ==
    LET missed(n) == rows[n].status = "missed"
        step(acc, n) ==
            LET run == IF missed(n) THEN acc.run + 1 ELSE 0
                total == IF missed(n) THEN acc.total + 1 ELSE acc.total
            IN  [run |-> run, total |-> total,
                 out |-> IF run >= Persistent
                         THEN Append(acc.out, [at |-> n, run |-> run, total |-> total])
                         ELSE acc.out]
    IN  FoldLeft(step, [run |-> 0, total |-> 0, out |-> <<>>], series).out

\* nearest_rank over at least one sample.
NearestRank(sorted, percentile) ==
    sorted[Max({1, (percentile * Len(sorted) + 99) \div 100})]

\* latency_calibration_for: the samples of a window, sorted.
Latencies(evs, w) ==
    SortSeq(SelectSeq([n \in DOMAIN WindowEvents(evs, w) |-> WindowEvents(evs, w)[n].audio],
                      LAMBDA l : l # None),
            LAMBDA a, b : a < b)

----------------------------------------------------------------------------
Init ==
    /\ events = <<>>
    /\ duration \in Durations
    /\ targets \in TargetFiles
    /\ Valid(targets, TRUE)

Observe ==
    /\ Len(events) < MaxEvents
    /\ \E e \in EventKinds, o \in Offsets :
         events' = Append(events, e @@ [offset |-> o])
    /\ UNCHANGED <<duration, targets>>

Next == Observe
Spec == Init /\ [][Next]_vars

----------------------------------------------------------------------------
(* Properties.                                                             *)

Kinds == {"session", "hour", "rolling"}
TheWindows == Windows(events, duration)
TheRows == Rows(events, duration, targets)

\* Once there are stream hours, every retained observation falls in exactly
\* one of them, at a stream position the hours cover, and the counts of the
\* hours add up to the session's (operational_slo.rs:3188-3260).
HoursPartition ==
    LET hours == SeriesOf(TheWindows, "hour")
    IN  hours # <<>> =>
          /\ \A n \in DOMAIN events :
               Cardinality({h \in Range(hours) :
                              Between(<<events[n]>>, TheWindows[h].from, TheWindows[h].to) # <<>>}) = 1
          /\ TheWindows[Last(hours)].to >= duration

\* An objective that was met in every stream hour is not missed over the
\* session: the hours and the session are ratios over the same observations
\* (operational_slo.rs:419-451, 3042-3080, 3262-3277).
HoursMetSessionMet ==
    LET hours == SeriesOf(TheWindows, "hour")
    IN  hours # <<>> =>
          \A id \in MeasuredIds :
             (\A h \in Range(hours) : TheRows[id][h].status \in {"met", "no_data"})
             => TheRows[id][1].status \in {"met", "no_data"}

\* What a row attributes are misses of its own denominator: no cause is
\* charged more often than the row missed (operational_slo.rs:1733-1759).
AttributionWithinMisses ==
    \A id \in MeasuredIds : \A n \in DOMAIN TheWindows :
        LET row == TheRows[id][n]
            a == row.attribution
        IN  /\ a.external + a.policy + a.unknown <= Misses(row)
            /\ a.handled + a.failures = a.external

\* A decision rests on a probe, or on evidence of this very series from
\* enough distinct runs, over as many samples as the indicator needs, both in
\* the evidence and in the window (operational_slo.rs:945-1105, 1704-1721,
\* 3067-3079).
DecidedOnEvidence ==
    \A id \in MeasuredIds : \A n \in DOMAIN TheWindows :
        LET row == TheRows[id][n]
        IN  Decided(row.status) =>
              /\ row.eligible >= SampleFloor(id)
              /\ IsProbe(targets[id]) \/
                   /\ targets[id].series = ThisSeries
                   /\ Cardinality({r.id : r \in Range(targets[id].runs)}) >= MinRuns
                   /\ targets[id].eligible >= SampleFloor(id)

\* A candidate for review is backed by that many adjacent missed windows of
\* one kind: a session, its hours and its rolling spans never share a streak
\* (operational_slo.rs:3116-3181).
StreakWithinSeries ==
    \A id \in MeasuredIds, k \in Kinds :
        LET series == SeriesOf(TheWindows, k)
            out == Candidates(TheRows[id], series)
        IN  \A i \in DOMAIN out :
              /\ out[i].run \in Persistent..Len(series)
              /\ \A back \in 0..(out[i].run - 1) :
                   /\ TheWindows[out[i].at - back].kind = k
                   /\ TheRows[id][out[i].at - back].status = "missed"

\* A reported percentile is the least sample with that share of the samples
\* at or below it (operational_slo.rs:3279-3323).
RankIsPercentile ==
    \A n \in DOMAIN TheWindows :
        LET sorted == Latencies(events, TheWindows[n])
            below(x) == 100 * Len(SelectSeq(sorted, LAMBDA l : l <= x))
        IN  sorted # <<>> =>
              \A p \in {50, 95, 99} :
                 NearestRank(sorted, p) =
                   Min({x \in Range(sorted) : below(x) >= p * Len(sorted)})

\* The allowance is floor((1 - target) * eligible), so an objective that was
\* met has not exhausted its budget (docs/operational-slo.adoc:304).
BudgetMatchesStatus ==
    \A id \in MeasuredIds : \A n \in DOMAIN TheWindows :
        TheRows[id][n].status = "met" => ~Exhausted(TheRows[id][n])

\* What conforms to speech presence produced a visible output, or was silent
\* for a declared reason (operational_slo.rs:538-539).
SpeechPresent ==
    \A n \in DOMAIN events :
        LET e == events[n]
        IN  Classify("speech_presence", e, {}) = "conforms" =>
              ProducedVisibleOutput(e) \/ (e.silent /\ (e.override \/ e.exhausted \/ e.denied))

\* The candidate of a streak states how many windows of its series were
\* missed in total (operational_slo.rs:3159).
TotalIsTotal ==
    \A id \in MeasuredIds, k \in Kinds :
        LET series == SeriesOf(TheWindows, k)
            out == Candidates(TheRows[id], series)
        IN  \A i \in DOMAIN out :
              out[i].total = Len(SelectSeq(series, LAMBDA n : TheRows[id][n].status = "missed"))
=============================================================================
