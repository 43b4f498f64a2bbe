--------------------------- MODULE BenchmarkGate ----------------------------
(***************************************************************************)
(* The comparator that gates pull requests (telemetry/src/benchmark_gate.rs*)
(* and benchmark-compare): repeated runs of a base and of a head revision, *)
(* aggregated by median and maximum and judged against budgets.            *)
(*                                                                         *)
(* The runs of the two sides arrive one by one; the verdict is a function  *)
(* of them and is checked in every state.  Values are doubled, so that the *)
(* mean of two middle values is an integer.                                *)
(***************************************************************************)
EXTENDS Integers, Sequences, FiniteSets, SequencesExt, FiniteSetsExt, Folds

CONSTANTS
    Results,     \* the benchmark results there may be
    Budgets,     \* metric -> [higher, warnPct, failPct, warnAbs, failAbs, minSamples]
    Limits,      \* invariant -> the most it may be
    MaxBase, MaxHead     \* bounds of the model: runs of a side

GateAssumption == MaxBase \in Nat /\ MaxHead \in Nat

VARIABLES base, head    \* the runs of the two sides, in order

vars == <<base, head>>
None == -1

----------------------------------------------------------------------------
(* aggregate_runs.                                                         *)

\* ensure_comparable: suite, mode, config version, seed and a dataset.
Comparable(a, b) == a.boundary = b.boundary /\ a.dataset # "" /\ a.dataset = b.dataset

Valid(run) == run.version = "1" /\ run.commit # ""

\* Repetitions of one measurement: the first run against itself is not
\* compared, so that a single run needs no dataset.
Repeats(runs) ==
    /\ runs # <<>>
    /\ \A k \in DOMAIN runs : Valid(runs[k])
    /\ \A k \in 2..Len(runs) :
         /\ Comparable(runs[1], runs[k])
         /\ runs[k].commit = runs[1].commit
         /\ DOMAIN runs[k].metrics = DOMAIN runs[1].metrics
         /\ DOMAIN runs[k].invariants = DOMAIN runs[1].invariants

\* median of a non-empty sample.
Median(values) ==
    LET sorted == SortSeq(values, <)
        middle == Len(sorted) \div 2
    IN  IF Len(sorted) % 2 = 0 THEN (sorted[middle] + sorted[middle + 1]) \div 2
        ELSE sorted[middle + 1]

Values(runs, m) == [k \in DOMAIN runs |-> runs[k].metrics[m].value]
\* A run without a count makes the pooled count unknown.
Samples(runs, m) ==
    IF \E k \in DOMAIN runs : runs[k].metrics[m].count = None THEN None
    ELSE FoldLeft(LAMBDA a, r : a + r.metrics[m].count, 0, runs)
Aggregate(runs) ==
    [metrics |-> [m \in DOMAIN runs[1].metrics |->
                    [value |-> Median(Values(runs, m)), count |-> Samples(runs, m)]],
     invariants |-> [i \in DOMAIN runs[1].invariants |->
                       Max({runs[k].invariants[i] : k \in DOMAIN runs})]]

----------------------------------------------------------------------------
(* compare_runs.                                                           *)

Exceeds(amount, limit) == limit # None /\ amount > limit
\* The percentage of a regression against the base; infinite when that is zero.
ExceedsPercent(amount, reference, limit) ==
    limit # None /\ (reference = 0 \/ amount * 100 > limit * reference)

AbsOf(n) == IF n < 0 THEN -n ELSE n

\* evaluate_metric.
EvaluateMetric(was, is, count, b) ==
    LET improved == IF b.higher THEN is > was ELSE is < was
        regression == AbsOf(is - was)
    IN  CASE b.minSamples # None /\ (count = None \/ count < b.minSamples) -> "ungated"
          [] improved -> "improved"
          [] ExceedsPercent(regression, AbsOf(was), b.failPct)
             \/ Exceeds(regression, b.failAbs) -> "failed"
          [] ExceedsPercent(regression, AbsOf(was), b.warnPct)
             \/ Exceeds(regression, b.warnAbs) -> "warning"
          [] OTHER -> "ok"

\* The rows of the metrics the head measured.
Status(b, h, m) ==
    IF m \in DOMAIN b.metrics /\ m \in DOMAIN Budgets
    THEN EvaluateMetric(b.metrics[m].value, h.metrics[m].value, h.metrics[m].count, Budgets[m])
    ELSE "ungated"

\* Invariants with a limit are required of both sides; the others are zero.
Holds(h, i) == h.invariants[i] <= (IF i \in DOMAIN Limits THEN Limits[i] ELSE 0)
Required(a) == DOMAIN Limits \subseteq DOMAIN a.invariants

\* Only an invariant with a limit fails the gate, and only metrics the head
\* measured do.
Verdict(b, h) ==
    LET statuses == {Status(b, h, m) : m \in DOMAIN h.metrics}
    IN  IF "failed" \in statuses \/ \E i \in DOMAIN Limits : ~Holds(h, i) THEN "fail"
        ELSE IF "warning" \in statuses THEN "warning" ELSE "pass"

\* The report, or a refusal; both end benchmark-compare, and only "pass" and
\* "warning" let the pull request through.
Compare(bs, hs) ==
    IF /\ Repeats(bs) /\ Repeats(hs)
       /\ Comparable(bs[1], hs[1])
       /\ Required(Aggregate(bs)) /\ Required(Aggregate(hs))
    THEN Verdict(Aggregate(bs), Aggregate(hs))
    ELSE "error"
ExitsClean(verdict) == verdict \in {"pass", "warning"}

----------------------------------------------------------------------------
Init == base = <<>> /\ head = <<>>
AddBase ==
    /\ Len(base) < MaxBase
    /\ \E r \in Results : base' = Append(base, r)
    /\ UNCHANGED head
AddHead ==
    /\ Len(head) < MaxHead
    /\ \E r \in Results : head' = Append(head, r)
    /\ UNCHANGED base
Next == AddBase \/ AddHead
Spec == Init /\ [][Next]_vars

----------------------------------------------------------------------------
(* Properties.                                                             *)

\* "a single noisy run cannot decide the verdict": when all but one of at
\* least three head runs agree, the verdict is that of the agreeing runs for
\* every metric, and an invariant that one run breaks fails the gate.
Without(runs, k) == SubSeq(runs, 1, k - 1) \o SubSeq(runs, k + 1, Len(runs))
Agree(runs) == \A j, k \in DOMAIN runs : runs[j].metrics = runs[k].metrics
OneRunCannotDecide ==
    Compare(base, head) # "error" /\ Len(head) >= 3 =>
        \A k \in DOMAIN head : Agree(Without(head, k)) =>
            \A m \in DOMAIN head[1].metrics :
                Aggregate(head).metrics[m].value = Without(head, k)[1].metrics[m].value
ViolationSticks ==
    (\E k \in DOMAIN head, i \in DOMAIN Limits :
        i \in DOMAIN head[k].invariants /\ head[k].invariants[i] > Limits[i])
        => ~ExitsClean(Compare(base, head))

\* The order in which the runs of a side are passed changes nothing.
OrderOfRunsIrrelevant ==
    \A p \in Permutations(DOMAIN head) :
        Compare(base, [k \in DOMAIN head |-> head[p[k]]]) = Compare(base, head)

\* A worse head is never judged better: raising the one value of a
\* lower-is-better metric does not turn a failure into a pass.
Rank(v) == CASE v = "improved" -> 0 [] v = "ok" -> 1 [] v = "warning" -> 2 [] v = "failed" -> 3
Monotone ==
    \A r, s \in Results, m \in DOMAIN Budgets :
        LET b == Budgets[m]
            was == base[1].metrics[m].value
        IN  (/\ base # <<>> /\ m \in DOMAIN base[1].metrics
             /\ m \in DOMAIN r.metrics /\ m \in DOMAIN s.metrics
             /\ IF b.higher THEN r.metrics[m].value > s.metrics[m].value
                            ELSE r.metrics[m].value < s.metrics[m].value) =>
            Rank(EvaluateMetric(was, r.metrics[m].value, 99, b))
                <= Rank(EvaluateMetric(was, s.metrics[m].value, 99, b))

\* Comparing runs with themselves passes whenever they are comparable and keep
\* their limits.  It needs the base to differ from zero: an unchanged zero is
\* an infinite regression to evaluate_metric (ZeroIsUnchanged fails).
SelfPasses ==
    LET own == Compare(head, head)
    IN  own = "fail" =>
            \/ \E i \in DOMAIN Limits : ~Holds(Aggregate(head), i)
            \/ \E m \in DOMAIN head[1].metrics : Aggregate(head).metrics[m].value = 0
ZeroIsUnchanged ==
    Compare(head, head) = "fail" => \E i \in DOMAIN Limits : ~Holds(Aggregate(head), i)

\* "dropping a key would silently ungate it": within a side it is refused;
\* between the sides it is not (BudgetedGates fails), a metric that only the
\* base measured gates nothing.
BudgetedGates ==
    ExitsClean(Compare(base, head)) =>
        \A m \in DOMAIN Budgets \cap DOMAIN base[1].metrics : m \in DOMAIN head[1].metrics
=============================================================================
