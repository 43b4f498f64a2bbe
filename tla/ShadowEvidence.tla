--------------------------- MODULE ShadowEvidence ---------------------------
(***************************************************************************)
(* How the decisions of the active and of the shadow policy become the    *)
(* divergence report: the comparison record (app/src/shadow.rs), its       *)
(* classification and the aggregation of a batch (shadow_evidence.rs).     *)
(*                                                                         *)
(* A batch grows by records of any origin: drained from orchestrators of   *)
(* different configurations, from the inline path, from older samples.     *)
(* The report is a function of the batch, so it is checked in every state. *)
(***************************************************************************)
EXTENDS Integers, Sequences, FiniteSets, SequencesExt, FiniteSetsExt

CONSTANTS
    Outcomes,     \* the pairs <<active route, fallback, shadow outcome>> tried
    Configs,      \* orchestrator configurations, by name
    Keys,         \* policy identities, by name
    Versions,     \* comparison schema versions; the current one is "current"
    CaseLimit,    \* how many case references a report keeps
    MaxRecords    \* bound of the model: records in a batch

ShadowEvidenceAssumption ==
    /\ CaseLimit \in Nat
    /\ MaxRecords \in Nat
    /\ "current" \in Versions

VARIABLE batch    \* the records handed to the report, in order

----------------------------------------------------------------------------
(* Decisions and their comparison.                                         *)

None == "none"
\* Routes the planner returns and what a decision keeps of them: the asset
\* with or without its identity, the template; nothing of an intent or of
\* what is generated.
PlannerRoutes == {"silent", "intent", "asset_a", "asset_a_id", "asset_b", "template_a", "generate"}
RouteClass(r) ==
    CASE r = "silent" -> "silent"
      [] r = "intent" -> "deterministic"
      [] r \in {"asset_a", "asset_a_id", "asset_b"} -> "semantic_reuse"
      [] r = "template_a" -> "template"
      [] r = "generate" -> "generated"
Target(r) == IF r \in {"silent", "intent", "generate"} THEN None ELSE r

\* The planner's template fallback comes first, then the policy's reason.
ActiveDecision(r, templateFallback, policyFallback) ==
    [route |-> RouteClass(r), target |-> Target(r),
     fallback |-> IF templateFallback # None THEN templateFallback ELSE policyFallback]

\* compare_target: Some(differs), or nothing when there is nothing to compare.
CompareTarget(active, shadow) ==
    IF active.target # None /\ shadow.target # None
    THEN IF active.target # shadow.target THEN "different" ELSE "same"
    ELSE IF active.target = None /\ shadow.target = None
            /\ active.route = "silent" /\ shadow.route = "silent" THEN "same"
    ELSE None

Failed == [route |-> "failed", target |-> None, fallback |-> None]

\* A record: the decisions, and under which identities they were taken.  The
\* stamp is the configuration of the orchestrator, or none on the inline path.
Record(active, shadow, version, stamp, key) ==
    [active |-> active, shadow |-> shadow, version |-> version,
     stamp |-> stamp, key |-> key,
     diverged |-> IF shadow = Failed THEN None ELSE CompareTarget(active, shadow)]

----------------------------------------------------------------------------
(* Classification.                                                         *)

Categories == {"same_route_same_target", "same_route_different_target",
               "route_transition", "response_vs_silent", "fallback_vs_success",
               "fallback_reason_mismatch", "shadow_unusable", "target_incomparable"}

\* classify_shadow_divergence
Category(r) ==
    IF r.shadow = Failed THEN "shadow_unusable"
    ELSE IF r.active.fallback # None /\ r.shadow.fallback # None
            /\ r.active.fallback # r.shadow.fallback THEN "fallback_reason_mismatch"
    ELSE IF (r.active.fallback = None) # (r.shadow.fallback = None) THEN "fallback_vs_success"
    ELSE IF r.active.route = "silent" /\ r.shadow.route = "silent" THEN "same_route_same_target"
    ELSE IF "silent" \in {r.active.route, r.shadow.route} THEN "response_vs_silent"
    ELSE IF r.active.route # r.shadow.route THEN "route_transition"
    ELSE IF r.diverged = "different" THEN "same_route_different_target"
    ELSE IF r.diverged = "same" THEN "same_route_same_target"
    ELSE "target_incomparable"

\* Mutant: a record that cannot be compared stays in the denominator.
ComparableAlways(c) == c # "no such category"

IsComparable(c) == c \notin {"shadow_unusable", "target_incomparable"}
IsDivergence(c) == c \notin {"same_route_same_target", "shadow_unusable", "target_incomparable"}

----------------------------------------------------------------------------
(* The report of a batch.                                                  *)

\* The checks of summarize_shadow_divergence.  A configuration stands for its
\* fingerprint: the hash is taken to tell the configurations apart.
Accepted(records, config) ==
    /\ records # <<>>
    /\ \A k \in DOMAIN records :
         /\ records[k].version = "current"
         /\ records[k].stamp = config
         /\ records[k].key = records[1].key

Report(records) ==
    LET counted(P(_)) == {k \in DOMAIN records : P(Category(records[k]))}
        diverged == SelectSeq(records, LAMBDA r : /\ IsComparable(Category(r))
                                                  /\ IsDivergence(Category(r)))
    IN  [total      |-> Len(records),
         comparable |-> Cardinality(counted(IsComparable)),
         diverged   |-> Len(diverged),
         counts     |-> [c \in Categories |-> Cardinality(counted(LAMBDA x : x = c))],
         cases      |-> SubSeq(diverged, 1, Min({CaseLimit, Len(diverged)})),
         truncated  |-> Len(diverged) > CaseLimit]

\* The rate in percent: no comparable record reads as zero.
Rate(report) == IF report.comparable = 0 THEN <<0, 1>>
                ELSE <<report.diverged * 100, report.comparable>>
SameRate(a, b) == a[1] * b[2] = b[1] * a[2]

----------------------------------------------------------------------------
Init == batch = <<>>

\* A record is drained from an orchestrator of some configuration, taken on
\* the inline path (no stamp), or read from an older sample.
Stamps == Configs \cup {None}
Identities == Keys
AddRecord ==
    /\ Len(batch) < MaxRecords
    /\ \E o \in Outcomes, v \in Versions, s \in Stamps, k \in Identities :
         batch' = Append(batch, Record(o[1], o[2], v, s, k))

Next == AddRecord
Spec == Init /\ [][Next]_batch

----------------------------------------------------------------------------
(* Properties.                                                             *)

\* "Evidence, never authority": which policy is the active one does not
\* change how a pair of decisions is classified (shadow_evidence.rs:156-201).
ClassSymmetric ==
    \A k \in DOMAIN batch :
        LET r == batch[k]
        IN  r.shadow # Failed =>
                Category(r) = Category(Record(r.shadow, r.active, r.version, r.stamp, r.key))

\* An absent comparison is not agreement: a record counts as agreement only
\* when both sides stayed silent or both name the same target, with the same
\* fallback (shadow_evidence.rs:20-24, 141-155).
AgreementIsEvidenced ==
    \A k \in DOMAIN batch :
        LET r == batch[k]
        IN  Category(r) = "same_route_same_target" =>
              /\ r.shadow # Failed
              /\ r.active = r.shadow
              /\ r.active.target # None \/ r.active.route = "silent"

\* Records that could not be compared neither raise nor lower the divergence
\* rate, and every record is counted in exactly one category
\* (shadow_evidence.rs:473-530).
RateOverComparable ==
    LET report == Report(batch)
        rest   == Report(SelectSeq(batch, LAMBDA r : r.shadow # Failed
                     /\ ~(r.active.fallback = r.shadow.fallback /\ r.diverged = None
                          /\ r.active.route = r.shadow.route)))
    IN  /\ SameRate(Rate(report), Rate(rest))
        /\ FoldFunction(LAMBDA a, b : a + b, 0, report.counts) = Len(batch)
        /\ report.truncated <=> report.diverged > Len(report.cases)

\* Two batches taken under different bounds or policies cannot be joined into
\* one report, in either order: what is accepted was produced under one
\* configuration and one policy identity (shadow_evidence.rs:13-19, 434-471).
JoinRefused ==
    \A c \in Configs : \A n \in 0..Len(batch) :
        LET left == SubSeq(batch, 1, n)
            right == SubSeq(batch, n + 1, Len(batch))
        IN  /\ Accepted(left \o right, c) <=> Accepted(right \o left, c)
            /\ Accepted(batch, c) =>
                 \A d \in Configs \ {c} : left # <<>> => ~Accepted(left, d)
=============================================================================
