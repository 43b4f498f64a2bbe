-------------------------- MODULE AdaptationEngine --------------------------
(***************************************************************************)
(* The adaptation engine of crates/adaptation/src/lib.rs over the asset    *)
(* store: uses and quality labels are counted per asset in a bounded map;  *)
(* applying the policy keeps a generated asset hot, persists it or         *)
(* invalidates it.  Labels come from an operator at any time, for any id;  *)
(* uses come from playback of a hot asset; the app applies the policy on   *)
(* request.  The touch ticks are unique and only compared: `feedbackOrder' *)
(* and `groupOrder' keep the keys in the order of their last touch.        *)
(***************************************************************************)
EXTENDS AssetStore

CONSTANTS
    MinUses,        \* min_uses
    MinLabels,      \* min_quality_labels
    MinPercent,     \* min_quality_ratio, in percent
    MaxNegative,    \* invalidate_after_negative_labels
    Window,         \* recent_variant_window
    MaxFeedback,    \* max_feedback_assets
    MaxGroups,      \* max_recent_groups
    MaxDecisions,   \* max_decisions
    MaxCount,       \* bound on each count of an asset
    MaxOps          \* bound on the operations of a behaviour

\* PromotionPolicy::validate and with_retention
PolicyAssumption ==
    /\ {MinUses, MinLabels, MaxNegative, MaxFeedback, MaxGroups, MaxDecisions}
          \subseteq Nat \ {0}
    /\ MinPercent \in 0..100 /\ Window \in Nat /\ {MaxCount, MaxOps} \subseteq Nat

VARIABLES
    feedback,       \* id -> [uses, positive, negative]
    feedbackOrder,  \* feedback_touch
    recent,         \* recent_by_group: group -> ids
    groupOrder,     \* recent_group_touch
    decisions,      \* the decision log
    votes,          \* history: everything recorded for the current asset of an id
    lost,           \* history: ids whose counts were evicted meanwhile
    ops             \* operations so far

engineVars == <<feedback, feedbackOrder, recent, groupOrder, decisions, votes, lost>>
vars == <<storeVars, engineVars, ops>>

None == [uses |-> 0, positive |-> 0, negative |-> 0]

EngineInit ==
    /\ feedback = Empty /\ feedbackOrder = <<>>
    /\ recent = Empty /\ groupOrder = <<>>
    /\ decisions = <<>>
    /\ votes = [id \in Ids |-> None] /\ lost = {}

Init == StoreInit /\ EngineInit /\ ops = 0

-----------------------------------------------------------------------------
(* Bounded retention                                                       *)

\* VecDeque::retain: a window without an id.
Purged(window, id) ==
    LET kept == {i \in DOMAIN window : window[i] # id}
        rank(i) == Cardinality({j \in kept : j <= i})
    IN [n \in 1..Cardinality(kept) |-> window[CHOOSE i \in kept : rank(i) = n]]

\* Mutant: the history of the groups keeps the id.
DropRecentNothing(r, id) == r

\* The id leaves every group, and groups left empty go (forget_asset and the
\* eviction in ensure_feedback_asset).
DropRecent(r, id) ==
    [g \in {h \in DOMAIN r : Purged(r[h], id) # <<>>} |-> Purged(r[g], id)]

\* ensure_feedback_asset: the least recently touched asset makes room.
Victim == Head(feedbackOrder)

Full(id) == id \notin DOMAIN feedback /\ Cardinality(DOMAIN feedback) >= MaxFeedback

\* ensure_feedback_asset, then the count.
Count(id, field) ==
    LET room == IF Full(id) THEN Without(feedback, {Victim}) ELSE feedback
        order == IF Full(id) THEN Tail(feedbackOrder) ELSE feedbackOrder
        old == IF id \in DOMAIN room THEN room[id] ELSE None
    IN /\ votes[id][field] < MaxCount
       /\ feedback' = Put(room, id, [old EXCEPT ![field] = @ + 1])
       /\ feedbackOrder' = Touch(order, id)
       /\ votes' = [votes EXCEPT ![id][field] = @ + 1]
       /\ lost' = IF Full(id) THEN lost \cup {Victim} ELSE lost

RecentAfterRoom(id) == IF Full(id) THEN DropRecent(recent, Victim) ELSE recent

OrderOf(r) == SelectSeq(groupOrder, LAMBDA g : g \in DOMAIN r)

\* ensure_recent_group and the push of the id into its window.
PushRecent(r, group, id) ==
    LET order == OrderOf(r)
        full == group \notin DOMAIN r /\ Cardinality(DOMAIN r) >= MaxGroups
        room == IF full THEN Without(r, {Head(order)}) ELSE r
        pushed == Append(IF group \in DOMAIN room THEN room[group] ELSE <<>>, id)
        size == Min({Len(pushed), Window})
    IN /\ recent' = Put(room, group, SubSeq(pushed, Len(pushed) - size + 1, Len(pushed)))
       /\ groupOrder' = Touch(IF full THEN Tail(order) ELSE order, group)

-----------------------------------------------------------------------------
(* Operations                                                              *)

\* record_use, after the note_hot_use of the same playback.
RecordUse(id) ==
    /\ id \in DOMAIN cache.hot
    /\ NoteHotUse(id, 0)
    /\ Count(id, "uses")
    /\ PushRecent(RecentAfterRoom(id), GroupOf[id], id)
    /\ UNCHANGED decisions

\* label_generated_asset_quality: record_quality.
RecordQuality(id, positive) ==
    /\ Count(id, IF positive THEN "positive" ELSE "negative")
    /\ recent' = RecentAfterRoom(id)
    /\ groupOrder' = OrderOf(RecentAfterRoom(id))
    /\ UNCHANGED <<storeVars, decisions>>

FeedbackOf(id) == IF id \in DOMAIN feedback THEN feedback[id] ELSE None

Labels(f) == f.positive + f.negative

Rejected(f) == f.negative >= MaxNegative
Earned(f) ==
    /\ f.uses >= MinUses
    /\ Labels(f) >= MinLabels
    /\ f.positive * 100 >= MinPercent * Labels(f)

\* Mutant: enough uses promote before bad labels reject.
VerdictPromoteFirst(f) ==
    IF Earned(f) THEN "promote" ELSE IF Rejected(f) THEN "invalidate" ELSE "keep"

\* evaluate: rejection comes first.
Verdict(f) ==
    IF Rejected(f) THEN "invalidate" ELSE IF Earned(f) THEN "promote" ELSE "keep"

\* The decision log keeps the last max_decisions records.
Logged(record) ==
    LET log == Append(decisions, record)
    IN SubSeq(log, Max({1, Len(log) - MaxDecisions + 1}), Len(log))

Log(id) ==
    decisions' = Logged([id |-> id, verdict |-> Verdict(FeedbackOf(id))])

\* ensure_promotable, after the hot_get of apply.
Evaluated(id) == id \in DOMAIN cache.hot /\ cache.hot[id].generated

Remembered ==
    UNCHANGED <<feedback, feedbackOrder, recent, groupOrder, votes, lost>>

\* apply: the asset stays hot (and is touched).
ApplyKeep(id) ==
    /\ Evaluated(id) /\ Verdict(FeedbackOf(id)) = "keep"
    /\ Log(id)
    /\ cache' = HotGet(cache, id)
    /\ Remembered
    /\ UNCHANGED <<files, local, saving, meta, edits, touched, inserted, dead>>

\* apply: the asset is persisted (PersistNext goes on with it); once it is, every further promotion is an error.
ApplyPromote(id) ==
    /\ Evaluated(id) /\ Verdict(FeedbackOf(id)) = "promote"
    /\ Log(id)
    /\ PersistStart(id) \/ PersistRefused(id)
    /\ Remembered

\* forget_asset
Forget(id) ==
    /\ feedback' = Without(feedback, {id})
    /\ feedbackOrder' = SelectSeq(feedbackOrder, LAMBDA i : i # id)
    /\ recent' = DropRecent(recent, id)
    /\ groupOrder' = OrderOf(DropRecent(recent, id))

\* apply: the asset is invalidated in both tiers and then forgotten.
ApplyInvalidate(id) ==
    /\ Evaluated(id) /\ Verdict(FeedbackOf(id)) = "invalidate"
    /\ Log(id)
    /\ Invalidate(id)
    /\ Forget(id)
    /\ votes' = [votes EXCEPT ![id] = None]
    /\ lost' = lost \ {id}

\* apply: the descriptor under this id is not generated; nothing is forgotten.
ApplyInvalidateRefused(id) ==
    /\ Evaluated(id) /\ Verdict(FeedbackOf(id)) = "invalidate"
    /\ ~Invalidatable(id)
    /\ Log(id)
    /\ cache' = HotGet(cache, id)
    /\ Remembered
    /\ UNCHANGED <<files, local, saving, meta, edits, touched, inserted, dead>>

Apply(id) ==
    \/ ApplyKeep(id) \/ ApplyPromote(id)
    \/ ApplyInvalidate(id) \/ ApplyInvalidateRefused(id)

\* A new process starts with an empty engine.
RestartAll ==
    /\ Restart
    /\ feedback' = Empty /\ feedbackOrder' = <<>>
    /\ recent' = Empty /\ groupOrder' = <<>> /\ decisions' = <<>>
    /\ votes' = [id \in Ids |-> None] /\ lost' = {}

\* The engine and its store are used by one operation at a time; files and the
\* process keep to none.  Nothing is preloaded here.
Step ==
    \/ /\ saving = Quiet
       /\ \/ \E d \in Descriptors : InsertHot(d) /\ UNCHANGED engineVars
          \/ \E id \in Ids :
                \/ ResolveId(id) /\ UNCHANGED engineVars
                \/ RecordUse(id) \/ Apply(id)
                \/ \E positive \in BOOLEAN : RecordQuality(id, positive)
          \/ IndexLocal /\ UNCHANGED engineVars
    \/ \E p \in Paths, d \in Descriptors : Edit(p, d) /\ UNCHANGED engineVars
    \/ RestartAll

\* A persist that has started goes on within its operation.
Next ==
    \/ ops < MaxOps /\ ops' = ops + 1 /\ Step /\ UNCHANGED loading
    \/ PersistNext /\ UNCHANGED <<engineVars, ops>>

Spec == Init /\ [][Next]_vars

-----------------------------------------------------------------------------
(* Properties                                                              *)

\* The maps and their touch records have the same keys, so that a full map has
\* a victim (the `expect's of ensure_feedback_asset and ensure_recent_group),
\* and everything stays within its bound.
EngineTypeOK ==
    /\ DOMAIN feedback = Range(feedbackOrder) /\ IsInjective(feedbackOrder)
    /\ DOMAIN recent = Range(groupOrder) /\ IsInjective(groupOrder)
    /\ Cardinality(DOMAIN feedback) <= MaxFeedback
    /\ Cardinality(DOMAIN recent) <= MaxGroups
    /\ \A g \in DOMAIN recent : Len(recent[g]) <= Window
    /\ Len(decisions) <= MaxDecisions

\* The variant history names only assets the engine still counts: an asset that
\* was forgotten or evicted is not avoided by the next selection.
RecentHasFeedback ==
    \A g \in DOMAIN recent : Range(recent[g]) \subseteq DOMAIN feedback

\* The counts of an id are about the asset that has the id now: exactly what was
\* recorded since it was last invalidated or the process started, or less if its
\* counts were evicted in between; never what its predecessor earned.
FeedbackIsCurrent ==
    \A id \in Ids : LET f == FeedbackOf(id) v == votes[id]
                    IN IF id \in lost
                       THEN f.uses <= v.uses /\ f.positive <= v.positive /\ f.negative <= v.negative
                       ELSE f = v

\* Applying the policy to a generated asset with too many negative labels (none
\* of them evicted) leaves it in no tier, promoted or not, and never persists
\* it; only a static descriptor of the same id stands in the way.
RejectedStep ==
    \A id \in Ids :
        (votes[id].negative >= MaxNegative /\ id \notin lost /\ Apply(id)) =>
           \/ id \notin DOMAIN cache'.hot /\ id \notin DOMAIN local'
           \/ id \in DOMAIN local /\ ~files[local[id].path].generated /\ local' = local
RejectedGoes == [][RejectedStep]_vars
=============================================================================
