---------------------------- MODULE SloBaseline -----------------------------
(***************************************************************************)
(* How a history of SLO reports is pooled into the evidence that targets   *)
(* are chosen from (telemetry/src/operational_slo.rs, slo-baseline): one   *)
(* series, runs told apart by identity, a full report and the aggregate    *)
(* row of one run counted once, and evidence of enough runs only.          *)
(*                                                                         *)
(* The history grows by reports and by aggregate rows in any order; the    *)
(* proposal is a function of it and is checked in every state.             *)
(***************************************************************************)
EXTENDS Integers, Sequences, FiniteSets, SequencesExt, FiniteSetsExt, Folds

CONSTANTS
    Reports,      \* full reports there may be
    Rows,         \* aggregate history rows there may be
    Exact,        \* EXACT_INTEGER_BOUNDARY, in half milliseconds
    Hour,         \* STREAM_HOUR_MS
    MinRuns,      \* MIN_BASELINE_RUNS
    MaxHistory    \* bound of the model: reports and rows in a history

BaselineAssumption == {Exact, Hour, MinRuns, MaxHistory} \subseteq Nat

VARIABLE history  \* the reports that reach from_reports, in the order passed

None == -1
Objectives == {"ratio", "audio"}      \* a plain ratio, and a latency ratio

----------------------------------------------------------------------------
(* from_benchmark_result: an aggregate row becomes a percentile-only shell *)
(* or is refused.  A value counts half milliseconds, so that an odd one is *)
(* fractional.                                                             *)

Measured(row) == {q \in {"p50", "p95", "p99"} : row.metrics[q] # None}
ValueSound(v) == v >= 0 /\ v % 2 = 0 /\ v < Exact
TripletSound(row) ==
    \/ Measured(row) = {}
    \/ /\ Measured(row) = {"p50", "p95", "p99"}
       /\ \A q \in Measured(row) : ValueSound(row.metrics[q]) /\ row.samples[q] > 0
       /\ Cardinality({row.samples[q] : q \in Measured(row)}) = 1
       /\ row.metrics["p50"] <= row.metrics["p95"] /\ row.metrics["p95"] <= row.metrics["p99"]

Convertible(row) ==
    /\ row.suite = "replay-comparison"
    /\ row.series # "" /\ row.run # "" /\ row.mode
    /\ TripletSound(row)

NoLatency == [samples |-> 0, p50 |-> 0, p95 |-> 0, p99 |-> 0, max |-> None]
NoRow == [eligible |-> 0, conforming |-> 0, threshold |-> None]
Shell(row) ==
    [run |-> row.run, commit |-> row.commit, series |-> row.series, duration |-> row.duration,
     active |-> TRUE, version |-> "current", shell |-> TRUE,
     rows |-> [i \in Objectives |-> NoRow],
     latency |-> IF Measured(row) = {} THEN NoLatency
                 ELSE [samples |-> row.samples["p50"], p50 |-> row.metrics["p50"],
                       p95 |-> row.metrics["p95"], p99 |-> row.metrics["p99"], max |-> None]]

----------------------------------------------------------------------------
(* from_reports.                                                           *)

\* Every report is of this contract and names its run; the active ones are of
\* one series.
Admissible(h) ==
    /\ \A k \in DOMAIN h : h[k].version = "current" /\ h[k].run # ""
    /\ \A j, k \in DOMAIN h : h[j].active /\ h[k].active => h[j].series = h[k].series

\* Mutant: a percentile that differs is left to the full report.
AgreesInIdentity(full, shell) ==
    /\ full.commit = shell.commit
    /\ full.duration = shell.duration
    /\ full.series = shell.series

\* collapse_into_full: a full report and a shell describe one measurement.
Collapses(full, shell) ==
    /\ full.commit = shell.commit
    /\ full.duration = shell.duration
    /\ full.series = shell.series
    /\ shell.latency = NoLatency
       \/ [full.latency EXCEPT !.max = None] = [shell.latency EXCEPT !.max = None]

Empty == [ok |-> TRUE, distinct |-> <<>>, duplicates |-> 0, collapsed |-> 0, excluded |-> 0]

\* One report joins the runs accepted so far: excluded, a repeat, a second
\* view of a run, a conflict, or a new run.
Join(pool, report) ==
    LET known == {k \in DOMAIN pool.distinct : pool.distinct[k].run = report.run}
        k == CHOOSE n \in known : TRUE
        prior == pool.distinct[k]
        full == IF prior.shell THEN report ELSE prior
        shell == IF prior.shell THEN prior ELSE report
    IN  IF ~pool.ok THEN pool
        ELSE IF ~report.active THEN [pool EXCEPT !.excluded = @ + 1]
        ELSE IF known = {} THEN [pool EXCEPT !.distinct = Append(@, report)]
        ELSE IF prior = report THEN [pool EXCEPT !.duplicates = @ + 1]
        ELSE IF prior.shell = report.shell \/ ~Collapses(full, shell)
             THEN [pool EXCEPT !.ok = FALSE]
        ELSE [pool EXCEPT !.distinct[k] = full, !.collapsed = @ + 1]

Joined(h) == FoldLeft(Join, Empty, h)

\* The runs that measured an objective: with an empty denominator, or a
\* latency ratio without a boundary, a run is no evidence for it.
Contributors(pool, i) ==
    {k \in DOMAIN pool.distinct :
        /\ pool.distinct[k].rows[i].eligible > 0
        /\ i = "audio" => pool.distinct[k].rows[i].threshold # None}
Boundaries(pool) ==
    {pool.distinct[k].rows["audio"].threshold : k \in Contributors(pool, "audio")}

Over(pool, ks, F(_)) == MapThenFoldSet(+, 0, LAMBDA k : F(pool.distinct[k]), LAMBDA s : CHOOSE x \in s : TRUE, ks)

NoEvidence == [runs |-> {}, eligible |-> 0, conforming |-> 0, hours |-> 0]

\* evidence_for: the pooled ratio of the contributing runs, when they are
\* enough, with the whole hours that they represent.
Evidence(pool, i) ==
    LET ks == Contributors(pool, i)
    IN  IF Cardinality(ks) < MinRuns THEN NoEvidence
        ELSE [runs |-> {pool.distinct[k].run : k \in ks},
              eligible |-> Over(pool, ks, LAMBDA r : r.rows[i].eligible),
              conforming |-> Over(pool, ks, LAMBDA r : r.rows[i].conforming),
              hours |-> Over(pool, ks, LAMBDA r : IF r.duration = None THEN 0 ELSE r.duration)
                            \div Hour]

\* The worst percentile of any run.
Worst(pool) ==
    LET points == {pool.distinct[k].latency : k \in DOMAIN pool.distinct} \ {NoLatency}
    IN  IF points = {} THEN NoLatency
        ELSE [samples |-> Over(pool, DOMAIN pool.distinct, LAMBDA r : r.latency.samples),
              p50 |-> 0, p95 |-> Max({p.p95 : p \in points}), p99 |-> Max({p.p99 : p \in points}),
              max |-> Max({p.max : p \in points})]

Refused == [ok |-> FALSE, runs |-> {}, evidence |-> [i \in Objectives |-> NoEvidence],
            latency |-> NoLatency, duplicates |-> 0, collapsed |-> 0, excluded |-> 0]
Proposal(h) ==
    LET pool == Joined(h)
        enough == Len(pool.distinct) >= MinRuns
    IN  IF ~Admissible(h) \/ ~pool.ok \/ (enough /\ Cardinality(Boundaries(pool)) > 1)
        THEN Refused
        ELSE [ok |-> TRUE, runs |-> {pool.distinct[k].run : k \in DOMAIN pool.distinct},
              evidence |-> [i \in Objectives |-> IF enough THEN Evidence(pool, i) ELSE NoEvidence],
              latency |-> IF enough THEN Worst(pool) ELSE NoLatency,
              duplicates |-> pool.duplicates, collapsed |-> pool.collapsed,
              excluded |-> pool.excluded]

----------------------------------------------------------------------------
Init == history = <<>>

AddReport ==
    /\ Len(history) < MaxHistory
    /\ \E r \in Reports : history' = Append(history, r)

\* slo-baseline: a row that cannot be converted ends the program.
AddRow ==
    /\ Len(history) < MaxHistory
    /\ \E row \in Rows :
         /\ Convertible(row)
         /\ history' = Append(history, Shell(row))

Next == AddReport \/ AddRow
Spec == Init /\ [][Next]_history

----------------------------------------------------------------------------
(* Properties.                                                             *)

\* "argument order irrelevant": the files may be passed in any order, as long
\* as a run has at most one aggregate row in the history.
OneShellPerRun ==
    \A j, k \in DOMAIN history :
        history[j].shell /\ history[k].shell /\ history[j].run = history[k].run =>
            history[j] = history[k]
Rearranged(p) == [k \in DOMAIN history |-> history[p[k]]]
SameFindings(p, q) ==
    p.ok = q.ok /\ p.runs = q.runs /\ p.evidence = q.evidence /\ p.latency = q.latency
OrderIrrelevant ==
    OneShellPerRun =>
        \A p \in Permutations(DOMAIN history) :
            SameFindings(Proposal(Rearranged(p)), Proposal(history))

\* The same without the restriction is what from_reports documents ("two
\* conflicting shells ... fail closed"); it fails: the full report between two
\* shells of one run, one of them without percentiles, reconciles them.
OrderNeverMatters ==
    \A p \in Permutations(DOMAIN history) :
        SameFindings(Proposal(Rearranged(p)), Proposal(history))

\* Evidence names at least the floor of runs, each of which measured the
\* objective in some active full report, and adds up exactly what they did:
\* no repeat, shell or experimental report counts towards it.
EvidenceEarned ==
    LET p == Proposal(history)
    IN  \A i \in Objectives : p.evidence[i] # NoEvidence =>
            LET source == {r \in {history[k] : k \in DOMAIN history} :
                             r.active /\ ~r.shell /\ r.run \in p.evidence[i].runs}
                total(F(_)) == MapThenFoldSet(+, 0, F, LAMBDA s : CHOOSE x \in s : TRUE, source)
            IN  /\ Cardinality(p.evidence[i].runs) >= MinRuns
                /\ p.evidence[i].runs = {r.run : r \in {s \in source : s.rows[i].eligible > 0}}
                /\ p.evidence[i].eligible = total(LAMBDA r : r.rows[i].eligible)
                /\ p.evidence[i].conforming <= p.evidence[i].eligible

\* The percentiles are those of some run, and no artifact of an accepted
\* history reports a worse one: what a shell says is never lost.
WorstIsKept ==
    LET p == Proposal(history)
    IN  p.ok /\ p.latency # NoLatency =>
            \A k \in DOMAIN history : history[k].active =>
                /\ history[k].latency.p95 <= p.latency.p95
                /\ history[k].latency.p99 <= p.latency.p99

\* Every input is a run, a repeat, a second view or excluded.
InputsAccounted ==
    LET p == Proposal(history)
    IN  p.ok => Cardinality(p.runs) + p.duplicates + p.collapsed + p.excluded = Len(history)
=============================================================================
