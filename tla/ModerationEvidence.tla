------------------------- MODULE ModerationEvidence -------------------------
(***************************************************************************)
(* How reviewed recommendations of a shadow moderation policy become the   *)
(* moderation divergence report (app/src/moderation_evidence.rs): the      *)
(* identities a record is stamped with, the scoring of one case against    *)
(* its reviewers and the aggregation of a batch.                           *)
(*                                                                         *)
(* A batch grows by records of any policy, bounds and schema; the report   *)
(* is a function of the batch, so it is checked in every state.            *)
(***************************************************************************)
EXTENDS Integers, Sequences, FiniteSets, SequencesExt

CONSTANTS
    Cases,        \* the cases reviewed: recommended action and category, reviews
    Policies,     \* policy identities handed to from_policy; "blank" is a blank field
    Stamps,       \* bounds records are stamped with; "none" is an unattributed record
    Versions,     \* comparison schema versions; the current one is "current"
    CaseLimit,    \* how many case references a report keeps
    MaxRecords    \* bound of the model: records in a batch

Actions == {"allow", "ignore", "delete", "timeout", "ban", "human_review"}
Categories ==
    {"none", "spam", "flood", "harassment", "scam", "hate_speech", "threat",
     "sexual_content", "impersonation"}

ModerationAssumption ==
    /\ CaseLimit \in Nat /\ MaxRecords \in Nat
    /\ \A c \in Cases :
          /\ c.action \in Actions /\ c.category \in Categories
          /\ \A i \in DOMAIN c.reviews :
                /\ c.reviews[i].label \in Actions /\ c.reviews[i].category \in Categories
                /\ c.reviews[i].acceptable \subseteq Actions

VARIABLE batch    \* the records handed to the report, in order

----------------------------------------------------------------------------
(* One case.                                                               *)

IsDestructive(action) == action \in {"delete", "timeout", "ban"}
Severity(action) ==
    CASE action = "allow" -> 0 [] action = "ignore" -> 1 [] action = "human_review" -> 2
      [] action = "delete" -> 3 [] action = "timeout" -> 4 [] action = "ban" -> 5

Accepts(review, action) == action \in review.acceptable

\* Two reviewers settle when each accepts the other's label and both name the
\* same category.
Disagree(left, right) ==
    \/ ~(Accepts(left, right.label) /\ Accepts(right, left.label))
    \/ left.category # right.category

\* The scan over pairs: the earlier of two reviews is the left one.
ReviewerDisagreement(reviews) ==
    \E i, j \in DOMAIN reviews : i < j /\ Disagree(reviews[i], reviews[j])

Outcome(case) ==
    IF \E i \in DOMAIN case.reviews : ~Accepts(case.reviews[i], case.action) THEN "overridden"
    ELSE IF ReviewerDisagreement(case.reviews) THEN "reviewer_disagreement" ELSE "agreed"

ReviewedAsBenign(case) ==
    /\ case.reviews # <<>>
    /\ \A i \in DOMAIN case.reviews : case.reviews[i].category = "none"

----------------------------------------------------------------------------
(* A batch.                                                                *)

\* What from_policy and the orchestration identity accept.
IdentityValid(policy) == policy # "blank"
ConfigValid(config) == config # "invalid"

\* The checks of one record, against the bounds of the report and the policy
\* of the first record.
Refused(record, config, policy) ==
    \/ record.version # "current"
    \/ record.stamp # config
    \/ record.policy # policy
    \/ record.case.reviews = <<>>

Empty ==
    [total |-> 0, agreed |-> 0, overridden |-> 0, reviewer_disagreement |-> 0,
     benign_suppressed |-> 0, destructive_overridden |-> 0]
Fields == DOMAIN Empty

One(b) == IF b THEN 1 ELSE 0

\* What one record adds to the counts.
Scored(case) ==
    LET overrode == Outcome(case) = "overridden"
        split == ReviewerDisagreement(case.reviews)
    IN  [total |-> 1, overridden |-> One(overrode), reviewer_disagreement |-> One(split),
         agreed |-> One(~overrode /\ ~split),
         benign_suppressed |-> One(overrode /\ case.action # "allow" /\ ReviewedAsBenign(case)),
         destructive_overridden |-> One(overrode /\ IsDestructive(case.action))]

Plus(a, b) == [f \in Fields |-> a[f] + b[f]]

\* Only overrides become references, and only while there is room.
Retain(kept, case) ==
    IF Outcome(case) = "overridden" /\ Len(kept) < CaseLimit
    THEN Append(kept, [action |-> case.action, category |-> case.category,
                       reviews |-> case.reviews, severity |-> Severity(case.action)])
    ELSE kept

\* One turn of the loop.
Take(report, case) ==
    [counts |-> Plus(report.counts, Scored(case)),
     categories |-> [report.categories EXCEPT ![case.category] = @ + 1],
     pairs |-> [report.pairs EXCEPT ![<<case.category, case.action>>] = @ + 1],
     kept |-> Retain(report.kept, case)]

Nothing ==
    [counts |-> Empty, categories |-> [c \in Categories |-> 0],
     pairs |-> [p \in Categories \X Actions |-> 0], kept |-> <<>>]

Aggregated(records) == FoldLeft(LAMBDA r, record : Take(r, record.case), Nothing, records)

\* summarize_moderation_divergence: accepted, or refused as a whole.
Accepted(records, config) ==
    /\ ConfigValid(config)
    /\ records # <<>>
    /\ \A i \in DOMAIN records : ~Refused(records[i], config, records[1].policy)

Truncated(report) == report.counts.overridden > Len(report.kept)
OverrideRatePct(counts) ==
    IF counts.total = 0 THEN 0 ELSE (counts.overridden * 100) \div counts.total

----------------------------------------------------------------------------
Init == batch = <<>>

\* A reviewed case is recorded under the identities in force.
Collect(case, policy, stamp, version) ==
    /\ IdentityValid(policy)
    /\ batch' = Append(batch, [case |-> case, policy |-> policy, stamp |-> stamp,
                               version |-> version])

Next ==
    /\ Len(batch) < MaxRecords
    /\ \E case \in Cases, policy \in Policies, stamp \in Stamps, version \in Versions :
          Collect(case, policy, stamp, version)

Spec == Init /\ [][Next]_batch

----------------------------------------------------------------------------
Configs == (Stamps \cup {"invalid"}) \ {"none"}
Orders(s) == {[i \in DOMAIN s |-> s[p[i]]] : p \in Permutations(DOMAIN s)}

\* "Nothing about scoring may depend on" the order of reviews (comment at
\* moderation_evidence.rs:484): neither the order in which reviewers answered
\* nor the order of the batch moves a case from one count to another, and a
\* mixed batch is refused wherever its odd record stands, except that the
\* references kept are the first ones.
OrderIrrelevant ==
    /\ \A i \in DOMAIN batch : \A reviews \in Orders(batch[i].case.reviews) :
          Scored([batch[i].case EXCEPT !.reviews = reviews]) = Scored(batch[i].case)
    /\ \A records \in Orders(batch), config \in Configs :
          /\ Accepted(records, config) = Accepted(batch, config)
          /\ \A part \in {"counts", "categories", "pairs"} :
                Aggregated(records)[part] = Aggregated(batch)[part]

\* Two reports are comparable field by field only if they are about separate
\* cases of one population: a batch is accepted exactly when every way to cut
\* it gives accepted reports of one policy, and then the counts add up and the
\* override rate lies between those of the halves; it is accepted under one
\* set of bounds at most.
HalvesAgree ==
    /\ \A a, b \in Configs : Accepted(batch, a) /\ Accepted(batch, b) => a = b
    /\ \A config \in Configs, n \in 1 .. Len(batch) - 1 :
           LET left == SubSeq(batch, 1, n)
               right == SubSeq(batch, n + 1, Len(batch))
               l == Aggregated(left).counts
               r == Aggregated(right).counts
               rates == {OverrideRatePct(l), OverrideRatePct(r)}
           IN  /\ Accepted(batch, config) <=>
                     /\ Accepted(left, config) /\ Accepted(right, config)
                     /\ left[1].policy = right[1].policy
               /\ Aggregated(batch).counts = Plus(l, r)
               /\ \E low, high \in rates : OverrideRatePct(Aggregated(batch).counts) \in low .. high

\* The references are the first overridden cases and nothing else, and the
\* report says that it was truncated exactly when an override is missing.
ReferencesHonest ==
    LET report == Aggregated(batch)
        overridden == SelectSeq(batch, LAMBDA r : Outcome(r.case) = "overridden")
    IN  /\ Len(report.kept) <= CaseLimit
        /\ \A i \in DOMAIN report.kept :
              report.kept[i].reviews = overridden[i].case.reviews
        /\ Truncated(report) <=> Len(overridden) > Len(report.kept)
        /\ Len(report.kept) < CaseLimit => Len(report.kept) = Len(overridden)

\* Suppression is the reviewers' call (module comment, rule 5): no relabelling
\* by the policy takes a case out of benign_suppressed, a destructive
\* recommendation that every reviewer calls benign and one rejects is always in
\* it, and agreed, overridden and merely disputed cases make up the total.
HarmNotHidden ==
    LET counts == Aggregated(batch).counts
        disputed == {i \in DOMAIN batch : Outcome(batch[i].case) = "reviewer_disagreement"}
    IN  /\ counts.agreed + counts.overridden + Cardinality(disputed) = counts.total
        /\ \A i \in DOMAIN batch, category \in {"none", "spam"} :
              LET case == batch[i].case
              IN  /\ Scored([case EXCEPT !.category = category]) = Scored(case)
                  /\ (/\ IsDestructive(case.action) /\ ReviewedAsBenign(case)
                      /\ \E j \in DOMAIN case.reviews : ~Accepts(case.reviews[j], case.action))
                     => Scored(case).benign_suppressed = 1
        /\ counts.benign_suppressed <= counts.overridden
        /\ counts.destructive_overridden <= counts.overridden

\* The field's comment (moderation_evidence.rs:442) counts every case labelled
\* benign that the policy would suppress; the code only counts the overridden
\* ones.  Not an invariant.
EverySuppressionCounted ==
    \A i \in DOMAIN batch :
        LET case == batch[i].case
        IN  ReviewedAsBenign(case) /\ case.action # "allow" => Scored(case).benign_suppressed = 1
=============================================================================
