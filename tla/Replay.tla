------------------------------- MODULE Replay -------------------------------
(***************************************************************************)
(* The replay harness of crates/scheduler/src/replay.rs: it orders a       *)
(* recorded trace, drives a Scheduler that retains everything, and turns   *)
(* what was scheduled into the commands of an audio and an avatar sink.    *)
(*                                                                         *)
(* The scheduler is the module of that name, step by step; between its     *)
(* calls the harness decides.  A variation drawn from the seed and the     *)
(* sequence number of an event is the start delay the event carries.       *)
(***************************************************************************)
EXTENDS Integers, Sequences, FiniteSets, SequencesExt, FiniteSetsExt

CONSTANTS
    Recordings, \* the traces replayed, in any order
    AudioAvailable, AvatarAvailable,
    Events, Assets, Channels, TimeMax, Spacing, Length, None

VARIABLES
    recording,  \* the trace as it was given
    position,   \* steps done
    phase,      \* "validate", "advance", "direct", "record", "complete", "done" or "failed"
    steps,      \* the ReplaySteps
    \* the scheduler
    items, liveGen, liveEvent, history, cooldowns, generation, lastRejection, now,
    lastTerminal, evicted, exported, pc, op, at, cur, idx, pass

harness == <<recording, position, phase, steps>>
scheduler == <<items, liveGen, liveEvent, history, cooldowns, generation, lastRejection, now,
               lastTerminal, evicted, exported, pc, op, at, cur, idx, pass>>
vars == <<harness, scheduler>>

\* Every terminal item is retained.
S == INSTANCE Scheduler WITH
    HistoryCapacity <- 0, RetainAll <- TRUE, Plans <- {}, CallTimes <- {}, AllowLate <- TRUE,
    MaxGeneration <- Length

ReplayAssumption ==
    /\ {AudioAvailable, AvatarAvailable} \subseteq BOOLEAN
    /\ \A r \in Recordings : Len(r) <= Length /\ \A i \in DOMAIN r : r[i].at \in 0 .. TimeMax

-----------------------------------------------------------------------------
(* The trace.                                                              *)

PriorityFor(kind) ==
    CASE kind = "operator" -> 0 [] kind = "donation" -> 1 [] kind = "game" -> 2
      [] kind \in {"chat", "speech"} -> 3 [] kind = "stream" -> 4 [] OTHER -> 5

ControlRank(e) == IF e.kind = "operator" THEN 0 ELSE 1

Key(e) == <<e.at, ControlRank(e), e.sequence, e.id>>
Smaller(a, b) == \E i \in 1 .. 4 : a[i] < b[i] /\ \A j \in 1 .. i - 1 : a[j] = b[j]
\* The sort is stable: entries with the same key keep their order.
Ordered(r) ==
    LET before(i, j) == Smaller(Key(r[i]), Key(r[j])) \/ (Key(r[i]) = Key(r[j]) /\ i < j)
        order == SetToSortSeq(DOMAIN r, before)
    IN  [k \in DOMAIN order |-> r[order[k]]]

\* An operator stops, nobody else does.
DirectiveValid(e) == (e.kind = "operator") <=> (e.directive = "stop")

Input == Ordered(recording)[position + 1]

\* The plan of a performance; the scheduler takes its start from the request.
Plan(e) ==
    [event |-> e.id, asset |-> e.asset.name, rank |-> PriorityFor(e.kind),
     interruptible |-> e.asset.interruptible, points |-> e.asset.points, start |-> e.delay,
     duration |-> e.asset.duration, gen |-> 0, exclusive |-> e.asset.exclusive,
     channels |-> e.asset.channels]

-----------------------------------------------------------------------------
(* The harness.                                                            *)

Init ==
    /\ recording \in Recordings
    /\ position = 0 /\ phase = "validate" /\ steps = <<>>
    /\ S!Init

Validate ==
    /\ phase = "validate"
    /\ phase' = IF \A i \in DOMAIN recording : DirectiveValid(recording[i])
                THEN "advance" ELSE "failed"
    /\ UNCHANGED <<recording, position, steps>> /\ UNCHANGED scheduler

Advance ==
    /\ phase = "advance" /\ position < Len(recording)
    /\ S!CallAdvance(Input.at)
    /\ phase' = "direct"
    /\ UNCHANGED <<recording, position, steps>>

Record(outcome, gen) ==
    /\ steps' = Append(steps, [at |-> Input.at, id |-> Input.id, outcome |-> outcome, gen |-> gen])
    /\ position' = position + 1
    /\ UNCHANGED recording

Stop ==
    /\ phase = "direct" /\ pc = "idle" /\ Input.directive = "stop"
    /\ S!CallStopAll(Input.at)
    /\ Record("operator_stop", generation)
    /\ phase' = "advance"

Fallback ==
    /\ phase = "direct" /\ pc = "idle" /\ Input.directive = "fallback"
    /\ Record("fallback", generation)
    /\ phase' = "advance"
    /\ UNCHANGED scheduler

\* A name, and a variation that is neither negative nor infinite.
AssetValid(asset) == asset.valid

\* An invalid asset ends the replay when it is reached.
Perform ==
    /\ phase = "direct" /\ pc = "idle" /\ Input.directive = "performance"
    /\ IF AssetValid(Input.asset)
       THEN S!CallSchedule(Input.at, Plan(Input)) /\ phase' = "record"
       ELSE phase' = "failed" /\ UNCHANGED scheduler
    /\ UNCHANGED <<recording, position, steps>>

Outcome ==
    /\ phase = "record" /\ pc = "idle"
    /\ Record(IF lastRejection = None THEN "scheduled" ELSE lastRejection, generation)
    /\ phase' = "advance"
    /\ UNCHANGED scheduler

Complete ==
    /\ phase = "advance" /\ position = Len(recording)
    /\ S!CallCompleteAll
    /\ phase' = "complete"
    /\ UNCHANGED <<recording, position, steps>>

Finish ==
    /\ phase = "complete" /\ pc = "idle"
    /\ phase' = "done"
    /\ UNCHANGED <<recording, position, steps>> /\ UNCHANGED scheduler

\* A call of the scheduler runs to its end before the harness goes on.
Step == S!Run /\ UNCHANGED harness

Next ==
    \/ Validate \/ Advance \/ Stop \/ Fallback \/ Perform \/ Outcome \/ Complete \/ Finish
    \/ Step

Spec == Init /\ [][Next]_vars

-----------------------------------------------------------------------------
(* The result.                                                             *)

\* The drained history by start and generation, and what is still live.
ScheduledItems ==
    LET by(a, b) == \/ a.item.plan.start < b.item.plan.start
                    \/ a.item.plan.start = b.item.plan.start /\ a.item.plan.gen < b.item.plan.gen
        sorted == SortSeq(history, by)
    IN  [k \in DOMAIN sorted |-> sorted[k].item] \o items

Relevant(item, target) ==
    IF target = "audio" THEN "audio" \in item.plan.channels
    ELSE item.plan.channels \cap {"face", "body", "gaze"} # {}

CancelledBeforeStart(item) == item.cancel # None /\ item.cancel < item.plan.start

\* The commands of one item: a start, or a degraded one, and a stop when it was
\* cut short and the sink is there.
ItemActions(item, available) ==
    LET action(t, kind) == [at |-> t, gen |-> item.plan.gen, id |-> item.plan.event, kind |-> kind]
    IN  <<action(item.plan.start, IF available THEN "start" ELSE "degraded_start")>>
        \o (IF available /\ item.status = "cancelled" /\ item.cancel # None
              THEN <<action(item.cancel, "stop")>> ELSE <<>>)

ActionRank(kind) == IF kind = "stop" THEN 1 ELSE 0

BuildSinkActions(all, available, target) ==
    LET sent == SelectSeq(all, LAMBDA i : Relevant(i, target) /\ ~CancelledBeforeStart(i))
        actions == FlattenSeq([k \in DOMAIN sent |-> ItemActions(sent[k], available)])
        by(a, b) == Smaller(<<a.at, a.gen, ActionRank(a.kind), 0>>,
                            <<b.at, b.gen, ActionRank(b.kind), 0>>)
    IN  SortSeq(actions, by)

-----------------------------------------------------------------------------
Audio == BuildSinkActions(ScheduledItems, AudioAvailable, "audio")
Avatar == BuildSinkActions(ScheduledItems, AvatarAvailable, "avatar")
ItemOf(gen) == CHOOSE i \in ToSet(ScheduledItems) : i.plan.gen = gen

\* The expected trace is complete: every input is one step, every scheduled step
\* one item of the result and no other, none of them live, and what was
\* rejected left nothing behind (replay.rs:152-228).
ReplayComplete ==
    phase = "done" =>
        LET accepted == {i \in DOMAIN steps : steps[i].outcome = "scheduled"}
            all == ScheduledItems
        IN  /\ Len(steps) = Len(recording) /\ items = <<>>
            /\ Len(all) = Cardinality(accepted)
            /\ \A i \in accepted : \E k \in DOMAIN all :
                  all[k].plan.gen = steps[i].gen /\ all[k].plan.event = steps[i].id
            /\ \A k \in DOMAIN all : all[k].status \in {"completed", "cancelled"}

\* A recording whose events can be told apart replays in one order, however
\* its entries are listed, and an operator comes first in his millisecond.
OrderOfListingIrrelevant ==
    phase = "validate" =>
        LET one == Ordered(recording)
            distinct == \A i, j \in DOMAIN recording :
                            Key(recording[i]) = Key(recording[j]) => i = j
        IN  /\ distinct => Ordered(Reverse(recording)) = one
            /\ \A i, j \in DOMAIN one :
                  one[i].at = one[j].at /\ ControlRank(one[i]) < ControlRank(one[j]) => i < j

\* After an operator stop nothing accepted before it plays on, and the audio
\* sink has been told to stop whatever had started and not ended by itself.
StopSilences ==
    phase = "done" =>
        \A s \in DOMAIN steps : steps[s].outcome = "operator_stop" =>
            \A i \in ToSet(ScheduledItems) : i.plan.gen <= steps[s].gen =>
                /\ S!EffectiveEnd(i) <= steps[s].at
                   \/ (i.cancel # None /\ i.cancel <= steps[s].at)
                /\ (AudioAvailable /\ Relevant(i, "audio") /\ ~CancelledBeforeStart(i)
                      /\ S!EndAt(i.plan) > steps[s].at) =>
                      \E a \in ToSet(Audio) :
                          a.kind = "stop" /\ a.gen = i.plan.gen /\ a.at <= steps[s].at

\* A sink plays one of two performances that exclude each other: when the later
\* one starts, the earlier one has been stopped or has ended.
SinksAlternate ==
    phase = "done" =>
        \A actions \in {Audio, Avatar} : \A i, j \in DOMAIN actions :
            LET a == ItemOf(actions[i].gen)
                b == ItemOf(actions[j].gen)
            IN  (/\ i < j /\ a # b /\ S!PlansConflict(a.plan, b.plan)
                 /\ actions[i].kind # "stop" /\ actions[j].kind # "stop")
                => \/ S!EndAt(a.plan) <= actions[j].at
                   \/ actions[i].kind = "degraded_start" /\ S!EffectiveEnd(a) <= actions[j].at
                   \/ \E k \in i .. j : actions[k].kind = "stop" /\ actions[k].gen = a.plan.gen
=============================================================================
