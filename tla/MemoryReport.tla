----------------------------- MODULE MemoryReport -----------------------------
(***************************************************************************)
(* What the long-range memory evaluation reports and how two reports are   *)
(* judged: the metrics of a case, the expectations it missed and the       *)
(* totals (crates/app/src/memory_eval.rs), and the comparison of the       *)
(* runtime's report with a candidate's (crates/app/src/memory_compare.rs). *)
(* A report is a file: it may have been altered before it is compared.     *)
(*                                                                         *)
(* A delivery is what either side of the evaluation produced for a case    *)
(* (SidecarEvaluation): claims of the case, once each, with their text     *)
(* whole or not.  Correctness is a multiple of 1/Scale, so that sums and   *)
(* means are exact and FLOAT_TOLERANCE is equality.                        *)
(***************************************************************************)
EXTENDS Integers, Sequences, FiniteSets, SequencesExt, FiniteSetsExt

CONSTANTS
    Fixtures,           \* case documents, valid or not
    MaxItems, MaxText, MaxContext,  \* MAX_THINKING_...
    Scale,              \* divided by every count of required claims and of cases
    MaxRefused          \* bound of the model: items of an answer that are refused

ReportAssumption == {MaxItems, MaxText, MaxContext, Scale, MaxRefused} \subseteq Nat

VARIABLES
    fixture,
    made,       \* the deliveries behind both reports
    reports,    \* side -> report, as they are compared
    altered,    \* what was changed in the candidate's report
    verdict

vars == <<fixture, made, reports, altered, verdict>>

NoClaim == "none"
Sides == {"runtime", "candidate"}

-----------------------------------------------------------------------------
(* The case document                                                       *)

Ids(c) == {x.id : x \in ToSet(c.claims)}
SumOf(seq) == FoldLeft(LAMBDA a, b : a + b, 0, seq)
MaxOf(seq) == Max(ToSet(seq) \cup {0})
Mapped(seq, F(_)) == [i \in DOMAIN seq |-> F(seq[i])]
Count(seq, P(_)) == Len(SelectSeq(seq, P))

\* MemoryEvalFixture::validate, one case
CaseValid(c) ==
    /\ c.claims # <<>> /\ IsInjective(Mapped(c.claims, LAMBDA x : x.id))
    /\ \A x \in ToSet(c.claims) : {x.supersedes, x.cause} \subseteq Ids(c) \cup {NoClaim}
    /\ ToSet(c.must) \cup ToSet(c.mustNot) \cup ToSet(c.order) \subseteq Ids(c)
    /\ ToSet(c.stale) \subseteq ToSet(c.mustNot)
    /\ ToSet(c.must) \cap ToSet(c.mustNot) = {}
    /\ c.spans <= Count(c.claims, LAMBDA x : x.cause # NoClaim)

FixtureValid(f) ==
    /\ f # <<>> /\ IsInjective(Mapped(f, LAMBDA c : c.id))
    /\ \A c \in ToSet(f) : CaseValid(c)

\* declared_causal_edges, declared_causal_pairs_delivered
DeclaredEdges(c) == {<<x.id, x.cause>> : x \in {x \in ToSet(c.claims) : x.cause # NoClaim}}
PairsDelivered(c, ids) == Cardinality({e \in DeclaredEdges(c) : {e[1], e[2]} \subseteq ToSet(ids)})

-----------------------------------------------------------------------------
(* Measuring                                                               *)

Hits(must, ids) == Count(must, LAMBDA r : r \in ToSet(ids))
Correctness(must, ids) == IF must = <<>> THEN Scale ELSE (Hits(must, ids) * Scale) \div Len(must)
In(ids, list) == Count(ids, LAMBDA id : id \in ToSet(list))

\* measure_case
MeasureCase(c, d) ==
    LET ids == Mapped(d.claims, LAMBDA x : x.id)
        at(id) == (CHOOSE x \in ToSet(c.claims) : x.id = id).event
        bytes == SumOf(Mapped(d.claims, LAMBDA x : x.bytes))
    IN  [case |-> c.id, delivered |-> ids, must |-> c.must, mustNot |-> c.mustNot,
         stale |-> c.stale,
         spans |-> Cardinality({e \in d.edges : {e[1], e[2]} \subseteq ToSet(ids)}),
         correct |-> Correctness(c.must, ids),
         staleUse |-> In(ids, c.stale), absent |-> In(ids, c.mustNot),
         refused |-> d.refused,
         inversions |-> Cardinality({i \in 1..(Len(ids) - 1) : at(ids[i + 1]) > at(ids[i])}),
         items |-> Len(ids), bytes |-> c.charged + bytes,
         itemsOk |-> /\ Len(ids) <= MaxItems
                     /\ \A x \in ToSet(d.claims) : x.bytes <= MaxText,
         bytesOk |-> c.charged + bytes <= MaxContext,
         truncated |-> Count(d.claims, LAMBDA x : ~x.whole)]

\* case_violations; the runtime is held to the pinned numbers too.
CaseViolations(c, row, runtime) ==
    \/ \E r \in ToSet(c.must) : r \notin ToSet(row.delivered)
    \/ row.staleUse > 0 \/ row.absent > 0 \/ row.truncated > 0
    \/ ~row.itemsOk \/ ~row.bytesOk
    \/ row.refused > 0
    \/ /\ runtime
       /\ \/ row.inversions # c.inversions
          \/ c.order # <<>> /\ row.delivered # c.order
          \/ c.spans >= 0 /\ row.spans # c.spans

\* totals_for
TotalsFor(rows) ==
    LET sum(F(_)) == SumOf(Mapped(rows, F))
    IN  [cases |-> Len(rows),
         correct |-> sum(LAMBDA r : r.correct) \div Len(rows),
         staleUse |-> sum(LAMBDA r : r.staleUse), absent |-> sum(LAMBDA r : r.absent),
         spans |-> sum(LAMBDA r : r.spans), refused |-> sum(LAMBDA r : r.refused),
         inversions |-> sum(LAMBDA r : r.inversions),
         truncated |-> sum(LAMBDA r : r.truncated),
         bytes |-> MaxOf(Mapped(rows, LAMBDA r : r.bytes))]

\* report_for; the digest of a document is the document.
ReportFor(f, rows) == [digest |-> f, totals |-> TotalsFor(rows), rows |-> rows]

Report(f, ds) == ReportFor(f, [i \in DOMAIN f |-> MeasureCase(f[i], ds[i])])

-----------------------------------------------------------------------------
(* Comparing                                                               *)

\* validate_case
RowValid(c, row) ==
    /\ <<row.must, row.mustNot, row.stale>> = <<c.must, c.mustNot, c.stale>>
    /\ ToSet(row.delivered) \subseteq Ids(c)
    /\ row.correct \in 0..Scale
    /\ row.correct = Correctness(row.must, row.delivered)
    /\ row.staleUse = In(row.delivered, row.stale)
    /\ row.absent = In(row.delivered, row.mustNot)
    /\ row.spans <= PairsDelivered(c, row.delivered)

\* validate_totals: the byte and retention maxima are not looked at.
TotalsValid(totals, rows) == [totals EXCEPT !.bytes = 0] = [TotalsFor(rows) EXCEPT !.bytes = 0]

\* validate_report
ReportValid(f, r) ==
    /\ r.digest = f
    /\ Len(r.rows) = Len(f) /\ r.rows # <<>> /\ r.totals.cases = Len(r.rows)
    /\ IsInjective(Mapped(r.rows, LAMBDA row : row.case))
    /\ \A i \in DOMAIN f : r.rows[i].case = f[i].id /\ RowValid(f[i], r.rows[i])
    /\ TotalsValid(r.totals, r.rows)

\* The zero-tolerance rules, case by case.
Breach(r) ==
    \E row \in ToSet(r.rows) :
        \/ row.staleUse > 0 \/ row.absent > 0 \/ row.truncated > 0
        \/ row.refused > 0 \/ ~row.itemsOk \/ ~row.bytesOk

\* compare, with scalar_delta for the two dimensions that decide
Compare(f, runtime, candidate) ==
    IF ~(FixtureValid(f) /\ ReportValid(f, runtime) /\ ReportValid(f, candidate))
    THEN "incomparable"
    ELSE IF Breach(candidate) THEN "rejected"
    ELSE IF \/ candidate.totals.inversions < runtime.totals.inversions
            \/ candidate.totals.correct > runtime.totals.correct
         THEN "improvement"
    ELSE "no_improvement"

-----------------------------------------------------------------------------
(* Both sides are measured, the candidate's report may be altered, and     *)
(* the two are compared.                                                   *)

NoReport == [digest |-> <<>>, totals |-> <<>>, rows |-> <<>>]

Init ==
    /\ fixture \in Fixtures
    /\ made = [s \in Sides |-> <<>>] /\ reports = [s \in Sides |-> NoReport]
    /\ altered = "nothing" /\ verdict = "none"

\* What can be delivered for a case: the runtime shortens nothing, refuses
\* nothing and keeps only declared edges; a service keeps no edge.
Orders(c) == {s \in SeqOf(Ids(c), Cardinality(Ids(c))) : IsInjective(s)}
Texts(c, ids, whole) ==
    [i \in DOMAIN ids |->
        [id |-> ids[i], whole |-> whole[i],
         bytes |-> IF whole[i] THEN (CHOOSE x \in ToSet(c.claims) : x.id = ids[i]).bytes ELSE 1]]
Deliveries(c, side) ==
    UNION {{[claims |-> Texts(c, ids, whole), refused |-> n, edges |-> e] :
                whole \in [DOMAIN ids -> IF side = "runtime" THEN {TRUE} ELSE BOOLEAN],
                n \in IF side = "runtime" THEN {0} ELSE 0..MaxRefused,
                e \in IF side = "runtime" THEN SUBSET DeclaredEdges(c) ELSE {{}}} :
           ids \in Orders(c)}

\* evaluate and evaluate_sidecar: fixture.validate()?, then every case
Measure(side) ==
    /\ verdict = "none" /\ FixtureValid(fixture)
    /\ made[side] = <<>> /\ (side = "candidate" => made["runtime"] # <<>>)
    /\ \E ds \in [DOMAIN fixture -> UNION {Deliveries(c, side) : c \in ToSet(fixture)}] :
         /\ \A i \in DOMAIN fixture : ds[i] \in Deliveries(fixture[i], side)
         /\ made' = [made EXCEPT ![side] = ds]
         /\ reports' = [reports EXCEPT ![side] = Report(fixture, ds)]
    /\ UNCHANGED <<fixture, altered, verdict>>

\* One number or list of the file is changed, with or without its total.
Alteration(r, k) ==
    LET both(x) == ReportFor(r.digest, [r.rows EXCEPT ![1] = x])
        one == r.rows[1]
    IN  CASE k = "correctness" -> both([one EXCEPT !.correct = IF @ = Scale THEN 0 ELSE Scale])
          [] k = "stale" -> both([one EXCEPT !.staleUse = IF @ = 0 THEN 1 ELSE 0])
          [] k = "absent" -> both([one EXCEPT !.absent = IF @ = 0 THEN 1 ELSE 0])
          [] k = "required" -> both([one EXCEPT !.must = Append(@, NoClaim)])
          [] k = "spans" -> both([one EXCEPT !.spans = @ + 3])
          [] k = "invented" -> both([one EXCEPT !.delivered = Append(@, NoClaim)])
          [] k = "refusedRow" -> [r EXCEPT !.rows[1].refused = @ + 1]
          [] k = "truncatedRow" -> [r EXCEPT !.rows[1].truncated = @ + 1]
          [] k = "inversionTotal" -> [r EXCEPT !.totals.inversions = @ + 1]
          [] k = "document" -> [r EXCEPT !.digest = Reverse(@) \o @]
          [] k = "dropped" -> ReportFor(r.digest, Tail(r.rows))
          [] k = "repeated" -> ReportFor(r.digest, <<one>> \o r.rows)
          [] k = "inversions" -> both([one EXCEPT !.inversions = 0])
          [] k = "truncated" -> both([one EXCEPT !.truncated = 0])

\* Numbers that nothing else in the report determines.
Unverified == {"inversions", "truncated"}

Alter(k) ==
    /\ verdict = "none" /\ altered = "nothing" /\ made["candidate"] # <<>>
    /\ (k = "dropped" => Len(fixture) > 1)
    /\ reports' = [reports EXCEPT !["candidate"] = Alteration(@, k)]
    /\ altered' = k
    /\ UNCHANGED <<fixture, made, verdict>>

AlterationNames ==
    {"correctness", "stale", "absent", "required", "spans", "invented", "refusedRow",
     "truncatedRow", "inversionTotal", "document", "dropped", "repeated"} \cup Unverified

Judge ==
    /\ verdict = "none" /\ (made["candidate"] # <<>> \/ ~FixtureValid(fixture))
    /\ verdict' = Compare(fixture, reports["runtime"], reports["candidate"])
    /\ UNCHANGED <<fixture, made, reports, altered>>

Next == (\E s \in Sides : Measure(s)) \/ (\E k \in AlterationNames : Alter(k)) \/ Judge

Spec == Init /\ [][Next]_vars

-----------------------------------------------------------------------------
(* Properties                                                              *)

Judged == verdict # "none"
Honest == Judged /\ altered = "nothing" /\ made["candidate"] # <<>>

\* What both sides really measured is always comparable: the comparison's
\* own derivations agree with the measurement's (measure_case and
\* totals_for against validate_case and validate_totals).
HonestComparable == Honest => verdict # "incomparable"

\* A candidate is rejected exactly when in some case it delivered a claim
\* the case refuses, delivered other text than was retained, broke a request
\* bound or answered with something refused: no average hides it, and
\* nothing else rejects.  Whoever is rejected also missed an expectation.
RejectionEvidenced ==
    Honest =>
        LET ds == made["candidate"]
            bad(c, d) ==
                \/ \E x \in ToSet(d.claims) : x.id \in ToSet(c.mustNot) \/ ~x.whole
                \/ d.refused > 0 \/ Len(d.claims) > MaxItems
                \/ \E x \in ToSet(d.claims) : x.bytes > MaxText
                \/ c.charged + SumOf(Mapped(d.claims, LAMBDA x : x.bytes)) > MaxContext
        IN  /\ (verdict = "rejected") = (\E i \in DOMAIN fixture : bad(fixture[i], ds[i]))
            /\ verdict = "rejected" =>
                 \E i \in DOMAIN fixture :
                    CaseViolations(fixture[i], reports["candidate"].rows[i], FALSE)

\* A candidate that delivers what the runtime delivers is no improvement, and
\* of two sound reports at most one improves on the other unless they trade
\* order against correctness.
NoFreeWin ==
    Honest /\ verdict = "improvement" =>
        LET r == reports["runtime"].totals
            c == reports["candidate"].totals
        IN  /\ made["candidate"] # made["runtime"]
            /\ Compare(fixture, reports["candidate"], reports["runtime"]) = "improvement" =>
                 \/ c.inversions < r.inversions /\ c.correct < r.correct
                 \/ c.inversions > r.inversions /\ c.correct > r.correct

\* A change to anything the report's own records or the document determine
\* is refused, never judged (validate_report).
AlterationCaught ==
    Judged /\ altered \notin Unverified \cup {"nothing"} => verdict = "incomparable"

\* "The candidate wins a quality dimension ... and regresses nothing"
\* (memory_compare.rs:68-69).  It fails: either dimension wins, whatever the
\* other does - a candidate that delivers nothing has no inversions.
ImprovementRegressesNothing ==
    Honest /\ verdict = "improvement" =>
        /\ reports["candidate"].totals.correct >= reports["runtime"].totals.correct
        /\ reports["candidate"].totals.inversions <= reports["runtime"].totals.inversions

\* "A report cannot improve on paper while delivering something else"
\* (memory_compare.rs:397-399).  It fails: the inversions and the shortened
\* claims of a row are not derived from anything.
NoPaperImprovement ==
    Judged /\ altered \in Unverified /\ verdict = "improvement" =>
        Compare(fixture, reports["runtime"], Report(fixture, made["candidate"])) = "improvement"
=============================================================================
