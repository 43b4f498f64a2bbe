---------------------------- MODULE MCKnowledge -----------------------------
(***************************************************************************)
(* Small instances of what the host remembers, side by side: the working   *)
(* memory in two instances, the asset store in several, by itself and with *)
(* the adaptation engine on top of it.  In a behaviour one part moves.     *)
(***************************************************************************)
EXTENDS Integers

CONSTANTS
    \* The limits and bounds of a store and an engine, one record per instance.
    StoreLimits, EngineLimits

VARIABLES
    part,
    limits,   \* the store and the engine of this behaviour
    \* WorkingMemory
    clock, entries, links, nextId, declared,
    \* AssetStore
    files, local, cache, loading, saving, meta, edits, touched, inserted, dead,
    \* AdaptationEngine
    feedback, feedbackOrder, recent, groupOrder, decisions, votes, lost, ops

memoryVars == <<clock, entries, links, nextId, declared>>
storeVars == <<files, local, cache, loading, saving, meta, edits, touched, inserted, dead>>
engineVars == <<feedback, feedbackOrder, recent, groupOrder, decisions,
                votes, lost, ops>>

----------------------------------------------------------------------------
(* Writes of one trusted source, ttl and links at their bounds; and of a   *)
(* trusted and an untrusted one, to tell scopes apart, with more writes    *)
(* than entries, so that the oldest insertion is evicted.                  *)
TwoEvents == {"e1", "e2"}
OneTopic == {"t1"}
System == [class |-> "system", actor |-> "none"]
OneSource == {System}
TwoSources == {System, [class |-> "chat", actor |-> "a1"]}
Links == INSTANCE WorkingMemory WITH
    EventIds <- TwoEvents, Topics <- OneTopic, Sources <- OneSource, MaxEntries <- 3,
    WorkingTtl <- 1, DurableTtl <- 2, MaxLinks <- 2, MaxLinksPerMemory <- 2,
    MaxEvidence <- 1, MaxBackfill <- 1, MaxTime <- 2, MaxWrites <- 3
Views == INSTANCE WorkingMemory WITH
    EventIds <- TwoEvents, Topics <- OneTopic, Sources <- TwoSources, MaxEntries <- 2,
    WorkingTtl <- 1, DurableTtl <- 2, MaxLinks <- 2, MaxLinksPerMemory <- 2,
    MaxEvidence <- 1, MaxBackfill <- 1, MaxTime <- 1, MaxWrites <- 3
ASSUME Links!ConfigAssumption /\ Links!BoundAssumption
ASSUME Views!ConfigAssumption /\ Views!BoundAssumption

(* Two ids in one group with an old version, room for one; three ids that  *)
(* push each other out by count and by size; two groups under the engine.  *)
(* Where no engine moves, its limits do not matter.                        *)
OneVersion == {"v1"}
Strict == [uses |-> 1, labels |-> 1, percent |-> 50, negative |-> 1, window |-> 1,
           feedback |-> 1, groups |-> 1, decisions |-> 1, count |-> 2, ops |-> 6]
StoreInstances ==
    {[ids |-> {1, 2}, versions |-> {"v1", "old"}, usable |-> OneVersion,
      groups |-> [id \in {1, 2} |-> "greeting"], sizes |-> [id \in {1, 2} |-> 1],
      dynamic |-> 1, bytes |-> 9, metadata |-> 0, time |-> 0, edits |-> 1,
      policy |-> Strict],
     [ids |-> {1, 2, 3}, versions |-> OneVersion, usable |-> OneVersion,
      groups |-> [id \in {1, 2, 3} |-> "greeting"], sizes |-> [id \in {1, 2, 3} |-> 1],
      dynamic |-> 2, bytes |-> 2, metadata |-> 0, time |-> 0, edits |-> 0,
      policy |-> Strict]}
EngineInstances ==
    {[ids |-> {1, 2}, versions |-> OneVersion, usable |-> OneVersion,
      groups |-> [id \in {1, 2} |-> IF id = 1 THEN "greeting" ELSE "farewell"],
      sizes |-> [id \in {1, 2} |-> 1],
      dynamic |-> 1, bytes |-> 9, metadata |-> 1, time |-> 0, edits |-> 1,
      policy |-> Strict]}
Kept(c) == INSTANCE AdaptationEngine WITH
    Ids <- c.ids, Versions <- c.versions, Usable <- c.usable, GroupOf <- c.groups,
    SizeOf <- c.sizes, MaxDynamic <- c.dynamic, MaxBytes <- c.bytes,
    MaxMetadata <- c.metadata, MaxTime <- c.time, MaxEdits <- c.edits,
    MinUses <- c.policy.uses, MinLabels <- c.policy.labels,
    MinPercent <- c.policy.percent, MaxNegative <- c.policy.negative,
    Window <- c.policy.window, MaxFeedback <- c.policy.feedback,
    MaxGroups <- c.policy.groups, MaxDecisions <- c.policy.decisions,
    MaxCount <- c.policy.count, MaxOps <- c.policy.ops
ASSUME KeptAssumption ==
    \A c \in StoreLimits \cup EngineLimits :
        Kept(c)!StoreAssumption /\ Kept(c)!PolicyAssumption

(* Where nothing of the store moves.                                       *)
Idle == CHOOSE c \in StoreLimits : TRUE

----------------------------------------------------------------------------
Init ==
    /\ part \in {"links", "views", "store", "engine"}
    /\ Links!Init
    /\ \E c \in CASE part = "store" -> StoreLimits
                  [] part = "engine" -> EngineLimits
                  [] OTHER -> {Idle} :
          limits = c /\ Kept(c)!Init

Next ==
    /\ UNCHANGED <<part, limits>>
    /\ \/ part = "links" /\ Links!Next
          /\ UNCHANGED <<storeVars, engineVars>>
       \/ part = "views" /\ Views!Next
          /\ UNCHANGED <<storeVars, engineVars>>
       \/ part = "store" /\ (\E c \in StoreLimits : c = limits /\ Kept(c)!StoreNext)
          /\ UNCHANGED <<memoryVars, engineVars>>
       \/ part = "engine" /\ (\E c \in EngineLimits : c = limits /\ Kept(c)!Next)
          /\ UNCHANGED memoryVars

Spec == Init /\ [][Next]_<<part, limits, memoryVars, storeVars, engineVars>>

----------------------------------------------------------------------------
\* Links connect retained entries only and stay within their bounds, the
\* evidence of a write lasts, and what admission decides on is what is stored;
\* a walk over links stays inside the scope it was asked for, and the views
\* of the memory agree (adaptation/src/lib.rs).
MemorySound ==
    /\ part = "links" => /\ Links!LinkStoreSound /\ Links!EvidenceLasts
                         /\ Links!ProjectionExact /\ Links!SpineFollowsTime
    /\ part = "views" => /\ Views!LinkStoreSound /\ Views!EvidenceLasts
                         /\ Views!ProjectionExact
                         /\ Views!LinkedScoped /\ Views!ViewsAgree

\* The store that moves, and what it is limited to.
Moving == {c \in StoreLimits \cup EngineLimits : part \in {"store", "engine"} /\ c = limits}

\* The cache holds what the index says, the index what was on disk, an
\* invalidated asset does not come back and a selection resolves, with an
\* engine and without (asset-store/src/lib.rs).
StoreSound ==
    \A c \in Moving :
        /\ Kept(c)!HotMatchesIndex /\ Kept(c)!IndexBacked
        /\ Kept(c)!NoResurrection /\ Kept(c)!SelectionResolves

\* Feedback is kept for what is recent, and counts belong to the current
\* asset of an id (adaptation/src/lib.rs).
EngineSound ==
    \A c \in Moving : Kept(c)!RecentHasFeedback /\ Kept(c)!FeedbackIsCurrent

\* Generated assets push each other out, never a static one, and an asset
\* rejected often enough leaves the store (asset-store/src/lib.rs,
\* adaptation/src/lib.rs).
RightOnesGo ==
    [][\A c \in Moving : Kept(c)!StaticStep /\ Kept(c)!RejectedStep
      ]_<<part, limits, storeVars, engineVars>>
=============================================================================
