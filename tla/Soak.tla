-------------------------------- MODULE Soak --------------------------------
(***************************************************************************)
(* The core soak of crates/hardening/src/soak.rs: the rules that accept a  *)
(* configuration, the loop that drives every retained store, the report on *)
(* their growth, and the content flood with its emergency control.         *)
(*                                                                         *)
(* The stores are the ones of their own modules, reduced to what the soak  *)
(* reads: how much each retains.  The memory is kept in full, because the  *)
(* configuration rules predict its explicit links by a formula.  Numbers   *)
(* saturate at Word.                                                       *)
(***************************************************************************)
EXTENDS Integers, Sequences, FiniteSets, SequencesExt, FiniteSetsExt

CONSTANTS
    Configs,    \* the configurations tried, refused ones included
    Word,       \* u64::MAX and usize::MAX
    PerWrite,   \* WorkingMemoryConfig::default().max_links_per_memory
    Pace,       \* the window is paced in sixteenths: 16
    Slack,      \* growth of no more than this is not material: 8
    Burst       \* content_burst of the probe's security runtime

SoakAssumption ==
    /\ {Word, PerWrite, Pace, Slack, Burst} \subseteq Nat \ {0}
    /\ \A c \in Configs : \A f \in DOMAIN c : c[f] \in 0 .. Word

VARIABLES
    config, stage,  \* "validate", "run", "flood", "control", "done", "refused", "aborted"
    index,          \* the next event
    entries, links, \* working memory: oldest first
    high,           \* memory_links_high_water
    explicit,       \* history: the most supersession links held at once
    previous,       \* previous_durable, 0 before the first
    counts,         \* what each other store retains
    midpoint,       \* the snapshot at half the events, or NoSnapshot
    flood           \* the FloodReport so far

vars == <<config, stage, index, entries, links, high, explicit, previous, counts, midpoint, flood>>

Plus(a, b) == Min({Word, a + b})
Times(a, b) == Min({Word, a * b})

-----------------------------------------------------------------------------
(* The configuration.                                                      *)

LogicalDuration(c) == Times(c.events, c.interval)

\* A durable claim every this many events.
DurableEvery(c) ==
    LET byWindow == c.window \div Pace
        byLinks == Plus(c.window, c.links) \div Plus(c.links, 1)
    IN  Max({byWindow, byLinks - 1, 1})

MaxRetainedChain(c) ==
    LET every == DurableEvery(c)
        byWindow == Plus(c.window, every) \div Plus(every, 1)
        byRun == (c.events - 1) \div every
    IN  Min({Max({byWindow - 1, 0}), byRun})

Validate(c) == c.events >= 2 /\ \A f \in DOMAIN c : c[f] > 0

\* validate_link_probe without its last rule, and with it.
ProbeRules(c) ==
    /\ Validate(c)
    /\ c.window + c.links <= Word /\ c.links + 1 <= Word
    /\ c.events * c.interval <= Word
    /\ c.links >= PerWrite
    /\ c.window >= 3
    /\ c.events > DurableEvery(c)
ValidateLinkProbe(c) == ProbeRules(c) /\ MaxRetainedChain(c) <= c.links

-----------------------------------------------------------------------------
(* The memory.                                                             *)

LastN(s, n) == SubSeq(s, IF Len(s) > n THEN Len(s) - n + 1 ELSE 1, Len(s))
Live(es, at) == SelectSeq(es, LAMBDA e : e.exp > at)
Compact(es, at) == LastN(Live(es, at), config.window)
Ids(es) == {e.id : e \in ToSet(es)}
Prune(ls, es) == SelectSeq(ls, LAMBDA l : {l.from, l.to} \subseteq Ids(es))

At(i) == Times(i, config.interval)
Entry(id, at, durable) ==
    [id |-> id, durable |-> durable, exp |-> Plus(at, Plus(LogicalDuration(config), 1))]
Push(es, e, at) == Compact(Append(Compact(es, at), e), at)

\* Only derived links are shed, oldest first.
Shed(ls) ==
    LET excess == Len(ls) - config.links
        derived == {i \in DOMAIN ls : ls[i].kind = "before"}
        gone == {i \in derived : Cardinality({j \in derived : j < i}) < excess}
        kept == SetToSortSeq(DOMAIN ls \ gone, <)
    IN  [i \in DOMAIN kept |-> ls[kept[i]]]

\* The links of durable entry id: the claim it supersedes, then the newest
\* durable entries of the topic within the budget of a write.
NewLinks(es, id, superseded) ==
    LET others == SetToSortSeq({e.id : e \in {x \in ToSet(es) : x.durable /\ x.id # id}}, >)
        room == Min({Len(others), PerWrite - (IF superseded = 0 THEN 0 ELSE 1)})
        own == IF superseded = 0 THEN <<>>
               ELSE <<[from |-> id, to |-> superseded, kind |-> "supersedes"]>>
    IN  own \o [i \in 1 .. room |-> [from |-> others[i], to |-> id, kind |-> "before"]]

Explicit(ls) == {l \in ToSet(ls) : l.kind = "supersedes"}

\* A durable write is refused when its target is gone or the explicit links
\* that would be retained do not fit.
DurableFits(es, ls, target, at) ==
    LET survivors == Ids(LastN(Live(es, at), config.window - 1))
        kept == {l \in Explicit(ls) : {l.from, l.to} \subseteq survivors}
        fresh == IF target \in survivors THEN 1 ELSE 0
    IN  target # 0 => /\ target \in {e.id : e \in {x \in ToSet(Live(es, at)) : x.durable}}
                      /\ Cardinality(kept) + fresh <= config.links

-----------------------------------------------------------------------------
(* The loop.                                                               *)

NoSnapshot == [history |-> -1]
NoCounts == [history |-> 0, audit |-> 0, telemetry |-> 0, compactions |-> 0, assets |-> 0]
NoFlood == [attempted |-> 0, queued |-> 0, dropped |-> 0, cancelled |-> 0, muted |-> FALSE]
Limits(c) ==
    [history |-> c.history, audit |-> c.audit, telemetry |-> c.telemetry,
     compactions |-> c.compactions, assets |-> c.assets, entries |-> c.window,
     links |-> c.links, high |-> c.links]

Snapshot(n, es, ls, top) ==
    [s \in DOMAIN Limits(config) |->
        CASE s = "entries" -> Len(es) [] s = "links" -> Len(ls) [] s = "high" -> top
          [] OTHER -> n[s]]

Init ==
    /\ config \in Configs
    /\ stage = "validate"
    /\ index = 0 /\ entries = <<>> /\ links = <<>> /\ high = 0 /\ explicit = 0
    /\ previous = 0
    /\ counts = NoCounts /\ midpoint = NoSnapshot /\ flood = NoFlood

Start ==
    /\ stage = "validate"
    /\ stage' = IF ValidateLinkProbe(config) THEN "run" ELSE "refused"
    /\ UNCHANGED <<config, index, entries, links, high, explicit, previous, counts, midpoint, flood>>

\* One event: admitted and popped, performed or stopped, remembered, now and
\* then as a durable claim that supersedes the previous one, observed, and now
\* and then an asset is inserted.  Entry ids are numbered as they are written.
Event ==
    LET at == At(index)
        durable == index % DurableEvery(config) = 0
        id == IF entries = <<>> THEN 1 ELSE Last(entries).id + 1
        working == Push(entries, Entry(id, at, FALSE), at)
        after == IF durable THEN Push(working, Entry(id + 1, at, TRUE), at) ELSE working
        pruned == Prune(Prune(links, working), after)
        linked == IF durable
                  THEN Shed(Prune(pruned \o NewLinks(after, id + 1, previous), after))
                  ELSE pruned
        lost(es, new) == IF Len(es) = config.window /\ Len(new) = config.window THEN 1 ELSE 0
        compacted == lost(entries, working) + (IF durable THEN lost(working, after) ELSE 0)
        grown(f, n) == Min({Limits(config)[f], counts[f] + n})
        insert == index % config.every = 0
    IN  /\ stage = "run" /\ index < config.events
        /\ index' = index + 1
        /\ entries' = after /\ links' = linked
        /\ high' = Max({high, Len(linked)})
        /\ explicit' = Max({explicit, Cardinality(Explicit(linked))})
        /\ previous' = IF durable THEN id + 1 ELSE previous
        /\ counts' = [history |-> grown("history", 1),
                      audit |-> grown("audit", IF durable THEN 2 ELSE 1),
                      telemetry |-> grown("telemetry", 1),
                      compactions |-> grown("compactions", compacted),
                      assets |-> grown("assets", IF insert THEN 1 ELSE 0)]
        /\ midpoint' = IF index + 1 = config.events \div 2
                       THEN Snapshot(counts', after, linked, high') ELSE midpoint
        /\ stage' = IF durable /\ ~DurableFits(working, Prune(links, working), previous, at)
                    THEN "aborted" ELSE stage
        /\ UNCHANGED <<config, flood>>

RunEnds ==
    /\ stage = "run" /\ index = config.events
    /\ stage' = IF midpoint = NoSnapshot THEN "aborted" ELSE "flood"
    /\ UNCHANGED <<config, index, entries, links, high, explicit, previous, counts, midpoint, flood>>

\* One event of the flood, all of them at time 0: queued, or dropped by
\* backpressure; one that finds no token ends the run with an error.
FloodEvent ==
    /\ stage = "flood" /\ flood.attempted < Times(config.queue, 3)
    /\ IF flood.attempted >= Burst
       THEN stage' = "aborted" /\ UNCHANGED flood
       ELSE /\ flood' = [flood EXCEPT !.attempted = @ + 1,
                            !.queued = IF @ < config.queue THEN @ + 1 ELSE @,
                            !.dropped = IF flood.queued < config.queue THEN @ ELSE @ + 1]
            /\ UNCHANGED stage
    /\ UNCHANGED <<config, index, entries, links, high, explicit, previous, counts, midpoint>>

\* A performance is started, then an operator stops and mutes.
FloodControl ==
    /\ stage = "flood" /\ flood.attempted = Times(config.queue, 3)
    /\ flood' = [flood EXCEPT !.cancelled = 1, !.muted = TRUE]
    /\ stage' = "done"
    /\ UNCHANGED <<config, index, entries, links, high, explicit, previous, counts, midpoint>>

Next == Start \/ Event \/ RunEnds \/ FloodEvent \/ FloodControl

Spec == Init /\ [][Next]_vars

-----------------------------------------------------------------------------
(* The report.                                                             *)

Final == Snapshot(counts, entries, links, high)
Exceeded == {s \in DOMAIN Limits(config) : Final[s] > Limits(config)[s]}
Growing(mid, final) == final > mid /\ final - mid > Max({Slack, mid \div 4})
NonPlateau == {s \in DOMAIN Limits(config) : Growing(midpoint[s], Final[s])}

\* What the benchmark result states and what the command line exits with.
Invariants ==
    [retention_bound_violation_count |-> Cardinality(Exceeded),
     non_plateau_state_count |-> Cardinality(NonPlateau)]
ExitsClean == Exceeded = {} /\ flood.cancelled # 0 /\ flood.muted

-----------------------------------------------------------------------------
\* "An accepted configuration must run to completion" (soak.rs:435): no
\* configuration that validate_link_probe accepts aborts, neither at a durable
\* write whose target is gone or whose link does not fit, nor without a
\* midpoint, nor in the flood.
AcceptedCompletes == stage # "aborted"

\* The formula of max_retained_supersession_chain is "the exact maximum" of
\* what the store holds over the whole run, and the pace that durable_every
\* chooses makes it fit whatever the window, so that the last rule of
\* validate_link_probe never refuses.
ChainExact ==
    /\ stage = "done" => explicit = MaxRetainedChain(config)
    /\ stage = "refused" => ~ProbeRules(config)

\* A report never claims link checks that were not exercised (soak.rs:412):
\* every completed run has minted a link, and never held more than the bound.
LinksExercised ==
    stage \in {"flood", "done"} => explicit >= 1 /\ high \in 1 .. config.links

\* What the run reports of its stores: none is over its limit, so the command
\* exits clean, and a store that was full at half time is not reported as
\* growing.
BoundsHold ==
    stage = "done" =>
        /\ ExitsClean /\ Invariants.retention_bound_violation_count = 0
        /\ \A s \in NonPlateau : midpoint[s] < Limits(config)[s]
        /\ \A l \in ToSet(links) : {l.from, l.to} \subseteq Ids(entries)

\* Every event of a flood is queued or counted, the queue ends at its limit,
\* and stop and mute work although it is full.
FloodAccounted ==
    stage = "done" =>
        /\ flood.queued + flood.dropped = flood.attempted
        /\ flood.queued = config.queue /\ flood.dropped = 2 * config.queue
=============================================================================
