------------------------------ MODULE Scheduler ------------------------------
(***************************************************************************)
(* The deterministic performance scheduler of crates/scheduler/src/lib.rs: *)
(* logical time, the live items and their two position indexes, safe-point *)
(* preemption, resolution of future reservations, cooldowns, the operator  *)
(* stop and the bounded terminal history.                                  *)
(*                                                                         *)
(* The scheduler is owned by one thread (`&mut self`), so calls do not     *)
(* overlap.  The loops that compact `items` while they walk it are the     *)
(* delicate part: each of their iterations is a step, `pc` says which loop *)
(* is running, and no call starts before `pc` is "idle" again.             *)
(*                                                                         *)
(* Interrupt points are a set, so the sort and the dedup of                *)
(* normalize_interrupt_points need no counterpart; the two cooldown        *)
(* telemetry counters are left out.                                        *)
(***************************************************************************)
EXTENDS Integers, Sequences, FiniteSets, FiniteSetsExt

CONSTANTS
    Events,           \* logical event ids
    Assets,           \* asset ids, the cooldown keys
    Channels,         \* blendable resources (enum BlendChannel)
    TimeMax,          \* u64::MAX: every time saturates here
    Spacing,          \* config.min_reaction_spacing_ms
    HistoryCapacity,  \* config.history_capacity
    RetainAll,        \* config.history_policy = RetainAll
    Plans,            \* the plans a caller may submit; start is relative to the request
    CallTimes,        \* the times callers may pass
    AllowLate,        \* may a caller pass a time before now_ms?
    MaxGeneration,    \* bound on accepted schedules
    None              \* Option::None

Times == 0..TimeMax

\* Priority::rank, from Operator to Background
Operator   == 0
Background == 5
Ranks      == Operator..Background

PlanType ==
    [event : Events, asset : Assets, rank : Ranks, interruptible : BOOLEAN,
     points : SUBSET Times, start : Times, duration : Times, gen : Nat,
     exclusive : BOOLEAN, channels : SUBSET Channels]

ItemType ==
    [plan : PlanType,
     status : {"queued", "playing", "completed", "cancelled"},
     cancel : Times \cup {None}]

HistoryType == [terminalAt : Times, item : ItemType]

ASSUME TimeAssumption ==
    /\ TimeMax \in Nat
    /\ Spacing \in Times
    /\ CallTimes \subseteq Times
    /\ None \notin Nat

ASSUME ConfigAssumption ==
    /\ HistoryCapacity \in Nat
    /\ RetainAll \in BOOLEAN
    /\ AllowLate \in BOOLEAN
    /\ MaxGeneration \in Nat

ASSUME PlansAssumption == Plans \subseteq PlanType

VARIABLES
    items,          \* Vec<ScheduledItem>: the live items
    liveGen,        \* live_by_generation: generation -> position
    liveEvent,      \* live_by_event: event id -> position
    history,        \* VecDeque<HistoryEntry>
    cooldowns,      \* asset -> time, None for an absent key
    generation,     \* generations issued so far
    lastRejection,  \* last_rejection
    now,            \* now_ms
    lastTerminal,   \* last_terminal_at
    evicted,        \* terminal_evicted
    exported,       \* entries handed out by drain_history (a history variable)
    pc,             \* the loop or phase that is running
    op,             \* the public operation that is running
    at,             \* its time argument
    cur,            \* the plan that schedule_at is placing
    idx,            \* index of the loops over items
    pass            \* the positions one resolve pass has still to visit

state == <<items, liveGen, liveEvent, history, cooldowns, generation,
           lastRejection, now, lastTerminal, evicted, exported>>
frame == <<op, at, cur, idx, pass>>
vars  == <<items, liveGen, liveEvent, history, cooldowns, generation,
           lastRejection, now, lastTerminal, evicted, exported,
           pc, op, at, cur, idx, pass>>

-----------------------------------------------------------------------------
(* Arithmetic and intervals.                                               *)

SatAdd(a, b) == IF a + b > TimeMax THEN TimeMax ELSE a + b
Later(a, b)  == IF a >= b THEN a ELSE b
Earlier(a, b) == IF a <= b THEN a ELSE b

EndAt(p) == SatAdd(p.start, p.duration)

EffectiveEnd(item) ==
    IF item.cancel = None THEN EndAt(item.plan)
                          ELSE Earlier(item.cancel, EndAt(item.plan))

PlansConflict(a, b) ==
    a.exclusive \/ b.exclusive \/ a.channels \cap b.channels # {}

IntervalsOverlap(aStart, aEnd, bStart, bEnd) == aStart < bEnd /\ bStart < aEnd

PlannedCooldown(p) == SatAdd(EndAt(p), Spacing)

\* The boundaries at or after the request at which a plan may be left early.
SafeBoundaries(p, request) ==
    {b \in {SatAdd(p.start, offset) : offset \in p.points} :
        b >= request /\ b < EndAt(p)}

NextSafeBoundary(p, request) ==
    IF SafeBoundaries(p, request) = {} THEN EndAt(p)
                                       ELSE Min(SafeBoundaries(p, request))

\* Mutant: preemption cuts at the request instead of at a safe point.
CutAtRequest(item, request) ==
    IF item.plan.interruptible THEN Earlier(request, EndAt(item.plan))
                               ELSE EndAt(item.plan)

Boundary(item, request) ==
    IF item.plan.interruptible THEN NextSafeBoundary(item.plan, request)
                               ELSE EndAt(item.plan)

-----------------------------------------------------------------------------
(* The live collection and its indexes.                                    *)

\* Mutant: pop instead of swap_remove.
PopLast(s, k) == [j \in 1..(Len(s) - 1) |-> s[j]]

\* Vec::swap_remove: the last element takes the place of the removed one.
SwapRemove(s, k) ==
    [j \in 1..(Len(s) - 1) |-> IF j = k THEN s[Len(s)] ELSE s[j]]

Drop(f, key)      == [x \in DOMAIN f \ {key} |-> f[x]]
Put(f, key, value) == [x \in DOMAIN f \cup {key} |-> IF x = key THEN value ELSE f[x]]

\* The keys of the two indexes, position by position.
Gens(s)     == [k \in DOMAIN s |-> s[k].plan.gen]
EventIds(s) == [k \in DOMAIN s |-> s[k].plan.event]

\* Mutant: the item that moved keeps its old position in the index.
ForgetMoved(f, keys, k) == Drop(f, keys[k])

\* The key at k goes; the last item moved to k, so its key is indexed again.
Reindex(f, keys, k) ==
    IF k < Len(keys) THEN Put(Drop(f, keys[k]), keys[Len(keys)], k)
                     ELSE Drop(f, keys[k])

TrimHistory(h) ==
    IF RetainAll \/ Len(h) <= HistoryCapacity
    THEN h ELSE SubSeq(h, Len(h) - HistoryCapacity + 1, Len(h))

\* Slot k, already in its terminal form `item`, leaves the live collection.
Retire(k, item, t) ==
    /\ items' = SwapRemove(items, k)
    /\ liveGen' = Reindex(liveGen, Gens(items), k)
    /\ liveEvent' = Reindex(liveEvent, EventIds(items), k)
    /\ history' = TrimHistory(Append(history, [terminalAt |-> t, item |-> item]))
    /\ evicted' = evicted + (Len(history) + 1 - Len(history'))

\* A cancelled reservation gives back the cooldown it had planned.
CancelQueued(k, t) ==
    LET p == items[k].plan
    IN  /\ Retire(k, [items[k] EXCEPT !.status = "cancelled", !.cancel = t], t)
        /\ cooldowns' = IF cooldowns[p.asset] = PlannedCooldown(p)
                        THEN [cooldowns EXCEPT ![p.asset] = None] ELSE cooldowns

StopPlaying(k, t) ==
    /\ Retire(k, [items[k] EXCEPT !.status = "cancelled", !.cancel = t], t)
    /\ lastTerminal' = IF lastTerminal = None THEN t ELSE Later(lastTerminal, t)
    /\ UNCHANGED cooldowns

-----------------------------------------------------------------------------
(* The public operations: each starts by advancing logical time.           *)

Target == Later(at, now)

\* No call is running; the frame holds no leftovers.
IdleFrame == op' = "none" /\ at' = 0 /\ cur' = None /\ idx' = 1 /\ pass' = {}

OnTime(t) == AllowLate \/ t >= now

\* The head of advance_to: drop the cooldowns the new time has passed.
PruneCooldowns(t) ==
    cooldowns' = [a \in Assets |->
        IF cooldowns[a] # None /\ cooldowns[a] > Later(t, now)
        THEN cooldowns[a] ELSE None]

Begin(name, t, p) ==
    /\ pc = "idle"
    /\ pc' = "advance"
    /\ op' = name /\ at' = t /\ cur' = p /\ idx' = 1 /\ pass' = {}
    /\ PruneCooldowns(t)
    /\ UNCHANGED <<items, liveGen, liveEvent, history, generation, now,
                   lastTerminal, evicted, exported>>

CallAdvance(t) ==
    OnTime(t) /\ Begin("advance", t, None) /\ UNCHANGED lastRejection

CallSchedule(t, p) ==
    /\ OnTime(t)
    /\ generation < MaxGeneration
    /\ Begin("schedule", t, [p EXCEPT !.start = SatAdd(t, p.start)])
    /\ lastRejection' = None

CallStopAll(t) ==
    OnTime(t) /\ Begin("stop_all", t, None) /\ UNCHANGED lastRejection

CallStopCurrent(t) ==
    OnTime(t) /\ Begin("stop_current", t, None) /\ UNCHANGED lastRejection

\* complete_all advances to the end of the last reservation.
LastEnd == IF Len(items) = 0 THEN now
           ELSE Max({EffectiveEnd(items[k]) : k \in DOMAIN items})

CallCompleteAll ==
    Begin("complete_all", LastEnd, None) /\ UNCHANGED lastRejection

DrainHistory ==
    /\ pc = "idle"
    /\ history # <<>>
    /\ exported' = exported + Len(history)
    /\ history' = <<>>
    /\ UNCHANGED <<items, liveGen, liveEvent, cooldowns, generation,
                   lastRejection, now, lastTerminal, evicted, pc, frame>>

-----------------------------------------------------------------------------
(* advance_to: one step per slot.  Queued items carry no cancellation      *)
(* (CancelAtSafePoint), so the branch for one is never taken.              *)

Due(item)   == item.plan.start <= Target
Ended(item) == (item.status = "playing" \/ Due(item)) /\ EffectiveEnd(item) <= Target

\* Mutant: everything that ends counts as completed.
AlwaysCompleted(item) == "completed"

TerminalStatus(item) ==
    IF item.cancel # None /\ item.cancel < EndAt(item.plan)
    THEN "cancelled" ELSE "completed"

\* Mutant: the index moves on after a retirement (the swapped-in slot is skipped).
SkipSwappedIn == idx + 1

\* After a retirement the same slot is visited again.
IndexAfterRetire == idx

AdvanceRetire ==
    /\ pc = "advance" /\ idx <= Len(items)
    /\ Ended(items[idx])
    /\ LET end == EffectiveEnd(items[idx])
       IN  /\ Retire(idx, [items[idx] EXCEPT !.status = TerminalStatus(items[idx])], end)
           /\ lastTerminal' = IF lastTerminal = None THEN end
                              ELSE Later(lastTerminal, end)
    /\ idx' = IndexAfterRetire
    /\ UNCHANGED <<cooldowns, generation, lastRejection, now, exported,
                   pc, op, at, cur, pass>>

AdvanceKeep ==
    /\ pc = "advance" /\ idx <= Len(items)
    /\ ~Ended(items[idx])
    /\ items' = IF Due(items[idx])
                THEN [items EXCEPT ![idx].status = "playing"] ELSE items
    /\ idx' = idx + 1
    /\ UNCHANGED <<liveGen, liveEvent, history, cooldowns, generation,
                   lastRejection, now, lastTerminal, evicted, exported,
                   pc, op, at, cur, pass>>

\* The walk is over: time moves, and the operation that advanced goes on.
AdvanceDone ==
    /\ pc = "advance" /\ idx > Len(items)
    /\ now' = Target
    /\ IF op \in {"advance", "complete_all"}
       THEN pc' = "idle" /\ IdleFrame
       ELSE pc' = op /\ idx' = 1 /\ UNCHANGED <<op, at, cur, pass>>
    /\ UNCHANGED <<items, liveGen, liveEvent, history, cooldowns, generation,
                   lastRejection, lastTerminal, evicted, exported>>

-----------------------------------------------------------------------------
(* schedule_at.                                                            *)

Duplicate(p) == \E k \in DOMAIN items : items[k].plan.event = p.event

\* The requested start, never before the request or before logical time.
RequestedStart(p) == Later(Later(p.start, at), now)

InCooldown(p) == cooldowns[p.asset] # None /\ RequestedStart(p) < cooldowns[p.asset]

\* Positions of the playing items the plan competes with.
Rivals(p) == {k \in DOMAIN items :
                 items[k].status = "playing" /\ PlansConflict(items[k].plan, p)}

Outranked(p) == \E k \in Rivals(p) : p.rank > items[k].plan.rank

Reject(reason) ==
    /\ lastRejection' = reason
    /\ pc' = "idle" /\ IdleFrame
    /\ UNCHANGED <<items, liveGen, liveEvent, history, cooldowns, generation,
                   now, lastTerminal, evicted, exported>>

RejectDuplicate ==
    pc = "schedule" /\ Duplicate(cur) /\ Reject("duplicate_event")

RejectCooldown ==
    /\ pc = "schedule" /\ ~Duplicate(cur) /\ InCooldown(cur)
    /\ Reject("cooldown")

RejectPriority ==
    /\ pc = "schedule" /\ ~Duplicate(cur) /\ ~InCooldown(cur) /\ Outranked(cur)
    /\ Reject("priority")

\* When the rivals give way, at the latest; meaningful if there are rivals.
Handoff(p) == Max({Boundary(items[k], at) : k \in Rivals(p)})

\* An earlier cancellation is never moved later.
CancelBy(item, t) == IF item.cancel = None THEN t ELSE Earlier(item.cancel, t)

\* Mutant: a rival is started over at the request instead of being cut short.
StartOver(p) ==
    [k \in DOMAIN items |->
        IF k \in Rivals(p) THEN [items[k] EXCEPT !.plan.start = at] ELSE items[k]]

\* Each rival is left at its next safe boundary, or plays to its end.
GiveWay(p) ==
    [k \in DOMAIN items |->
        IF k \in Rivals(p) /\ Boundary(items[k], at) < EndAt(items[k].plan)
        THEN [items[k] EXCEPT !.cancel = CancelBy(items[k], Boundary(items[k], at))]
        ELSE items[k]]

\* Mutant: no spacing.
Unspaced(p, t) == t

\* Minimum spacing after the handoff, else after the last terminal item.
SpacedAfter(p, t) == IF p.rank = Operator THEN t ELSE SatAdd(t, Spacing)

CandidateStart(p) ==
    IF Rivals(p) # {}
    THEN Later(RequestedStart(p), SpacedAfter(p, Handoff(p)))
    ELSE IF p.rank # Operator /\ lastTerminal # None
    THEN Later(RequestedStart(p), SatAdd(lastTerminal, Spacing))
    ELSE RequestedStart(p)

Arbitrate ==
    /\ pc = "schedule"
    /\ ~Duplicate(cur) /\ ~InCooldown(cur) /\ ~Outranked(cur)
    /\ items' = GiveWay(cur)
    /\ cur' = [cur EXCEPT !.start = CandidateStart(cur),
                          !.points = {o \in cur.points : o <= cur.duration}]
    /\ pc' = "resolve"
    /\ UNCHANGED <<liveGen, liveEvent, history, cooldowns, generation,
                   lastRejection, now, lastTerminal, evicted, exported,
                   op, at, idx, pass>>

\* Positions of the reservations that the plan would overlap.
Overlapped(p) ==
    {k \in DOMAIN items :
        /\ items[k].status = "queued"
        /\ PlansConflict(items[k].plan, p)
        /\ IntervalsOverlap(p.start, EndAt(p),
                            items[k].plan.start, EffectiveEnd(items[k]))}

StartPass ==
    /\ pc = "resolve" /\ Overlapped(cur) # {}
    /\ pass' = Overlapped(cur)
    /\ pc' = "pass"
    /\ UNCHANGED <<state, op, at, cur, idx>>

\* Mutant: equal priority supersedes a reservation.
SupersedesEqual(p, item) == p.rank <= item.plan.rank

Supersedes(p, item) == p.rank < item.plan.rank

\* Positions are visited from the last to the first, because a retirement
\* moves the last item.
Visiting == Max(pass)

Supersede ==
    /\ pc = "pass" /\ pass # {}
    /\ Supersedes(cur, items[Visiting])
    /\ CancelQueued(Visiting, at)
    /\ pass' = pass \ {Visiting}
    /\ UNCHANGED <<generation, lastRejection, now, lastTerminal, exported,
                   pc, op, at, cur, idx>>

\* Mutant: the plan stays where it overlaps.
NotPushedBack(p, item) == p.start

PushedBack(p, item) == SpacedAfter(p, Later(p.start, EffectiveEnd(item)))

PushBack ==
    /\ pc = "pass" /\ pass # {}
    /\ ~Supersedes(cur, items[Visiting])
    /\ cur' = [cur EXCEPT !.start = PushedBack(cur, items[Visiting])]
    /\ pass' = pass \ {Visiting}
    /\ UNCHANGED <<state, pc, op, at, idx>>

EndPass ==
    pc = "pass" /\ pass = {} /\ pc' = "resolve" /\ UNCHANGED <<state, frame>>

Accept ==
    /\ pc = "resolve" /\ Overlapped(cur) = {}
    /\ LET p == [cur EXCEPT !.gen = generation + 1]
       IN  /\ items' = Append(items,
                  [plan |-> p, cancel |-> None,
                   status |-> IF p.start <= now THEN "playing" ELSE "queued"])
           /\ liveGen' = Put(liveGen, p.gen, Len(items) + 1)
           /\ liveEvent' = Put(liveEvent, p.event, Len(items) + 1)
           /\ cooldowns' = [cooldowns EXCEPT ![p.asset] = PlannedCooldown(p)]
    /\ generation' = generation + 1
    /\ pc' = "idle" /\ IdleFrame
    /\ UNCHANGED <<history, lastRejection, now, lastTerminal, evicted, exported>>

-----------------------------------------------------------------------------
(* stop_all retires the first slot until none is left; stop_current        *)
(* retires the first playing slot.                                         *)

StopSlot ==
    /\ pc = "stop_all" /\ idx <= Len(items)
    /\ \/ items[idx].status = "playing" /\ StopPlaying(idx, at)
       \/ /\ items[idx].status = "queued" /\ CancelQueued(idx, at)
          /\ UNCHANGED lastTerminal
    /\ idx' = IndexAfterRetire
    /\ UNCHANGED <<generation, lastRejection, now, exported, pc, op, at, cur, pass>>

StopDone ==
    /\ pc = "stop_all" /\ idx > Len(items)
    /\ pc' = "idle" /\ IdleFrame /\ UNCHANGED state

PlayingSlots == {k \in DOMAIN items : items[k].status = "playing"}

StopCurrent ==
    /\ pc = "stop_current"
    /\ IF PlayingSlots = {} THEN UNCHANGED state
       ELSE /\ StopPlaying(Min(PlayingSlots), at)
            /\ UNCHANGED <<generation, lastRejection, now, exported>>
    /\ pc' = "idle" /\ IdleFrame

-----------------------------------------------------------------------------
Init ==
    /\ items = <<>> /\ history = <<>>
    /\ liveGen = [g \in {} |-> 0] /\ liveEvent = [e \in {} |-> 0]
    /\ cooldowns = [a \in Assets |-> None]
    /\ generation = 0 /\ now = 0 /\ evicted = 0 /\ exported = 0
    /\ lastRejection = None /\ lastTerminal = None
    /\ pc = "idle" /\ op = "none" /\ at = 0 /\ cur = None /\ idx = 1 /\ pass = {}

Call ==
    \/ \E t \in CallTimes : CallAdvance(t) \/ CallStopAll(t) \/ CallStopCurrent(t)
    \/ \E t \in CallTimes, p \in Plans : CallSchedule(t, p)
    \/ CallCompleteAll
    \/ DrainHistory

\* The steps of the call that is running.
Run ==
    \/ AdvanceRetire \/ AdvanceKeep \/ AdvanceDone
    \/ RejectDuplicate \/ RejectCooldown \/ RejectPriority \/ Arbitrate
    \/ StartPass \/ Supersede \/ PushBack \/ EndPass \/ Accept
    \/ StopSlot \/ StopDone \/ StopCurrent

Next == Call \/ Run

\* A call runs to its end: the thread that made it does nothing else.
Spec == Init /\ [][Next]_vars /\ WF_vars(Run)

-----------------------------------------------------------------------------
(* Properties.                                                             *)

\* The types of the state; in particular no time leaves the u64 range.
TypeOK ==
    /\ items \in Seq(ItemType)
    /\ history \in Seq(HistoryType)
    /\ \A g \in DOMAIN liveGen : g \in Nat /\ liveGen[g] \in Nat
    /\ \A e \in DOMAIN liveEvent : e \in Events /\ liveEvent[e] \in Nat
    /\ cooldowns \in [Assets -> Times \cup {None}]
    /\ generation \in 0..MaxGeneration
    /\ lastRejection \in {None, "duplicate_event", "cooldown", "priority"}
    /\ now \in Times
    /\ lastTerminal \in Times \cup {None}
    /\ evicted \in Nat /\ exported \in Nat
    /\ pc \in {"idle", "advance", "schedule", "resolve", "pass",
               "stop_all", "stop_current"}
    /\ op \in {"none", "advance", "complete_all", "schedule",
               "stop_all", "stop_current"}
    /\ at \in Times
    /\ cur \in PlanType \cup {None}
    /\ idx \in Nat \ {0}
    /\ pass \subseteq Nat

\* f resolves exactly the given keys, each to its own position.
Indexes(f, keys) ==
    /\ DOMAIN f = {keys[k] : k \in DOMAIN keys}
    /\ \A k \in DOMAIN keys : f[keys[k]] = k

\* Both liveness indexes resolve exactly the live items, each to its own
\* position, whatever compaction has moved: an index entry never survives its
\* item and never points at another, and no generation or event id is live
\* twice (`retire`).
IndexConsistent ==
    Indexes(liveGen, Gens(items)) /\ Indexes(liveEvent, EventIds(items))

\* Two live items that share a channel, or of which one is exclusive, never
\* hold overlapping intervals of the timeline.
Exclusivity ==
    \A j, k \in DOMAIN items :
        LET a == items[j].plan
            b == items[k].plan
        IN  (j # k /\ (a.exclusive \/ b.exclusive \/ a.channels \cap b.channels # {}))
            => \/ EffectiveEnd(items[j]) <= b.start
               \/ EffectiveEnd(items[k]) <= a.start

\* Every accepted schedule is accounted for once: live, retained, evicted or
\* exported; no retained entry is still live (`retire`, `trim_history`).
Conservation ==
    /\ generation = Len(items) + Len(history) + evicted + exported
    /\ \A h \in DOMAIN history, k \in DOMAIN items :
           history[h].item.plan.gen # items[k].plan.gen
    /\ RetainAll \/ Len(history) <= HistoryCapacity

\* A pending cancellation is only on a playing, interruptible item and only
\* at one of its interrupt points inside its interval: preemption never cuts a
\* phrase.  Queued items carry none, which leaves advance_to's branch for a
\* cancelled reservation without work.
CancelAtSafePoint ==
    \A k \in DOMAIN items : items[k].cancel # None =>
        LET p == items[k].plan
        IN  /\ items[k].status = "playing" /\ p.interruptible
            /\ items[k].cancel < EndAt(p)
            /\ \E o \in p.points : items[k].cancel = SatAdd(p.start, o)

\* A retained record tells the truth: a completed item ran to its natural
\* end, a cancelled one says when, and nothing live was retired.
TerminalTruth ==
    \A h \in DOMAIN history :
        LET item == history[h].item
        IN  \/ /\ item.status = "completed"
               /\ item.cancel = None /\ history[h].terminalAt = EndAt(item.plan)
            \/ /\ item.status = "cancelled"
               /\ item.cancel # None /\ history[h].terminalAt = item.cancel

\* Between calls that come in time order, an item plays exactly while its
\* interval contains logical time.
StatusMatchesTime ==
    (pc = "idle" /\ ~AllowLate) =>
        \A k \in DOMAIN items :
            /\ items[k].status = "playing" <=> items[k].plan.start <= now
            /\ items[k].status = "queued" <=> items[k].plan.start > now
            /\ items[k].status = "playing" => now <= EffectiveEnd(items[k])

\* advance_to leaves no slot behind: at its end every item that is over has
\* been retired and every item that is due is playing, although retirements
\* moved items under the loop (issue #52).
AdvanceSettles ==
    [][(pc = "advance" /\ pc' # "advance") =>
          \A k \in DOMAIN items' :
              IF items'[k].plan.start <= now'
              THEN items'[k].status = "playing" /\ EffectiveEnd(items'[k]) > now'
              ELSE items'[k].status = "queued"]_vars

\* When stop_all returns nothing is live and nothing is indexed.
StopLeavesNothing ==
    [][(pc = "stop_all" /\ pc' = "idle") =>
          items' = <<>> /\ DOMAIN liveGen' = {} /\ DOMAIN liveEvent' = {}]_vars

\* A schedule request displaces only what it outranks: the reservations it
\* removes have strictly lower priority, the playing items it shortens have
\* no higher priority, and a cancellation once set is never moved later.
PriorityRespected ==
    [][(pc \in {"schedule", "resolve", "pass"}) =>
          \A k \in DOMAIN items :
              LET item  == items[k]
                  after == {j \in DOMAIN items' : items'[j].plan.gen = item.plan.gen}
              IN  /\ after = {} => /\ item.status = "queued"
                                   /\ cur.rank < item.plan.rank
                  /\ \A j \in after : items'[j].cancel # item.cancel =>
                         /\ item.status = "playing" /\ cur.rank <= item.plan.rank
                         /\ item.cancel = None \/ items'[j].cancel < item.cancel]_vars

\* An accepted non-operator plan keeps the minimum spacing from every playing
\* item it competes with and, for calls in time order, from the last item
\* that ended.
HandoffSpacing ==
    [][(pc = "resolve" /\ pc' = "idle" /\ cur.rank # Operator) =>
          /\ \A k \in DOMAIN items :
                (items[k].status = "playing" /\ PlansConflict(items[k].plan, cur))
                => cur.start >= SatAdd(EffectiveEnd(items[k]), Spacing)
          /\ (lastTerminal # None /\ ~AllowLate)
                => cur.start >= SatAdd(lastTerminal, Spacing)]_vars

\* Every call returns: the compacting walks and the resolve loop, which starts
\* over after every pass, come to an end.
CallReturns == (pc # "idle") ~> (pc = "idle")

\* The frame of the call that is running fits its phase: the plan being placed
\* is a plan whose event is not live, it is already behind every playing item
\* it competes with, and a pass visits positions that exist.
FrameOK ==
    /\ pc = "advance" => op # "none"
    /\ op = "schedule" => cur \in PlanType /\ generation < MaxGeneration
    /\ pc \in {"schedule", "resolve", "pass"} => op = "schedule"
    /\ pc = "stop_all" => idx = 1
    /\ pass \subseteq DOMAIN items
    /\ pc # "pass" => pass = {}

PlacedBehindPlaying ==
    pc \in {"resolve", "pass"} =>
        \A k \in DOMAIN items :
            /\ items[k].plan.event # cur.event
            /\ (items[k].status = "playing" /\ PlansConflict(items[k].plan, cur))
               => EffectiveEnd(items[k]) <= cur.start

\* Live items are queued or playing, what plays has started, and generations
\* are those issued so far.
LiveOK ==
    /\ \A k \in DOMAIN items :
           /\ items[k].status \in {"queued", "playing"}
           /\ items[k].status = "playing" =>
                  items[k].plan.start <= (IF pc = "advance" THEN Target ELSE now)
           /\ items[k].plan.gen \in 1..generation
    /\ \A h \in DOMAIN history : history[h].item.plan.gen \in 1..generation

\* The walk of advance_to has settled every slot it has passed.
WalkSettled ==
    pc = "advance" =>
        \A k \in DOMAIN items : k < idx =>
            IF items[k].plan.start <= Target
            THEN items[k].status = "playing" /\ EffectiveEnd(items[k]) > Target
            ELSE items[k].status = "queued"

\* The part of the invariant that no phase weakens.
Core ==
    /\ IndexConsistent /\ Exclusivity /\ Conservation
    /\ CancelAtSafePoint /\ TerminalTruth

\* The inductive invariant behind the theorems of SchedulerProofs.
IndInv ==
    TypeOK /\ FrameOK /\ LiveOK /\ PlacedBehindPlaying /\ WalkSettled /\ Core

\* What docs/architecture.adoc asks of the scheduler under "cooldowns": an
\* asset that began to play is not scheduled again before the cooldown its
\* performance had reserved.
CooldownHonoured ==
    \A h \in DOMAIN history, k \in DOMAIN items :
        LET old == history[h].item
            new == items[k].plan
        IN  (old.plan.asset = new.asset /\ history[h].terminalAt >= old.plan.start)
            => new.start >= PlannedCooldown(old.plan)

\* What docs/architecture.adoc asks under "minimum reaction spacing": two
\* reactions of ordinary priority that compete for a channel are apart by at
\* least the spacing.
ReactionsSpaced ==
    \A j, k \in DOMAIN items :
        (/\ items[j].plan.start < items[k].plan.start
         /\ items[j].plan.rank # Operator /\ items[k].plan.rank # Operator
         /\ PlansConflict(items[j].plan, items[k].plan))
        => items[k].plan.start >= SatAdd(EffectiveEnd(items[j]), Spacing)

-----------------------------------------------------------------------------
(* Refinement.                                                             *)

\* The windows of the live generations, found through the liveness index.
LiveWindows ==
    [g \in DOMAIN liveGen |->
        [from |-> items[liveGen[g]].plan.start, until |-> EffectiveEnd(items[liveGen[g]])]]

Promise == INSTANCE Timeline WITH issued <- generation, window <- LiveWindows

\* Whatever compaction, preemption, supersession and stops do, the scheduler
\* keeps the promise of Timeline: generations are issued one at a time, a window
\* never moves or grows, and a retired generation stays retired.
KeepsPromise == Promise!TimelineSpec
=============================================================================
