---------------------------- MODULE WorkingMemory ----------------------------
(***************************************************************************)
(* The retained episodic memory of crates/adaptation/src/lib.rs: bounded   *)
(* entries with a time to live, links between durable entries              *)
(* (supersession and causation declared by the caller, a temporal spine    *)
(* derived from the timeline), and the retrieval functions over them.      *)
(*                                                                         *)
(* Claim text, its normalisation and truncation, and the pseudonym of an   *)
(* actor are data: an entry carries its source event, source class, actor, *)
(* topic and times.  A write may be backfilled: its record time may lie    *)
(* before the clock.  The retention metrics and the log of compactions are *)
(* left out (nothing reads them back); a refused write changes nothing.    *)
(***************************************************************************)
EXTENDS Integers, Sequences, FiniteSets, SequencesExt

CONSTANTS
    EventIds, Topics, \* source event ids; topics, NoTopic excluded
    Sources,          \* [class, actor] of the events that are written
    MaxEntries, WorkingTtl, DurableTtl, MaxLinks, MaxLinksPerMemory,
    MaxEvidence,      \* bound on the targets a write declares per relation
    MaxBackfill,      \* bound on how far a record time lies before the clock
    MaxTime, MaxWrites

NoTopic == "none"
NoActor == "none"

\* source_class_is_shared is per class; the classes that behave alike are one.
SharedClasses == {"system", "speech"}
Classes == SharedClasses \cup {"chat", "operator"}

\* WorkingMemory::new
ConfigAssumption ==
    /\ {MaxEntries, WorkingTtl, DurableTtl, MaxLinks, MaxLinksPerMemory} \subseteq Nat \ {0}
    /\ MaxLinks >= MaxLinksPerMemory

BoundAssumption ==
    /\ {MaxEvidence, MaxBackfill, MaxTime, MaxWrites} \subseteq Nat
    /\ \A s \in Sources : s.class \in Classes
    /\ NoTopic \notin Topics

Kinds == {"supersedes", "caused_by", "before"}
Explicit == {"supersedes", "caused_by"}

VARIABLES
    clock,
    entries,   \* oldest insertion first
    links,     \* oldest first
    nextId,    \* next_memory_id
    declared   \* history: the explicit links of every accepted write

vars == <<clock, entries, links, nextId, declared>>

Init == clock = 0 /\ entries = <<>> /\ links = <<>> /\ nextId = 1 /\ declared = {}

-----------------------------------------------------------------------------
(* Retention                                                               *)

Ids(es) == {e.id : e \in ToSet(es)}
Entry(id) == CHOOSE e \in ToSet(entries) : e.id = id

LastN(seq, n) == SubSeq(seq, IF Len(seq) > n THEN Len(seq) - n + 1 ELSE 1, Len(seq))

\* The node part of compact: expired entries go, then the oldest insertions.
Compact(es, at) ==
    LastN(SelectSeq(es, LAMBDA e : e.exp > at), MaxEntries)

\* prune_links: no link outlives either endpoint.
Prune(ls, es) ==
    SelectSeq(ls, LAMBDA l : l.from \in Ids(es) /\ l.to \in Ids(es))

\* push_bounded
Push(es, e) == Compact(Append(Compact(es, e.at), e), e.at)

\* Mutant: the entry that this insertion evicts is counted as retained.
SurvivorsKeepOldest(at) ==
    Ids(LastN(SelectSeq(entries, LAMBDA e : e.exp > at), MaxEntries))

\* projected_survivors: the nodes a write at `at` would leave retained.
Survivors(at) ==
    Ids(LastN(SelectSeq(entries, LAMBDA e : e.exp > at), MaxEntries - 1))

-----------------------------------------------------------------------------
(* Links                                                                   *)

Link(from, to, kind, at) == [from |-> from, to |-> to, kind |-> kind, at |-> at]

\* push_link: the same edge is stored once.
AddLink(ls, l) ==
    IF \E m \in ToSet(ls) : m.kind = l.kind /\ m.from = l.from /\ m.to = l.to
    THEN ls ELSE Append(ls, l)

AddLinks(ls, new) == FoldLeft(AddLink, ls, new)

Durable(event) == {e \in ToSet(entries) : e.event = event /\ e.durable}

\* resolve_declared_target succeeds: exactly one live durable node, and it
\* was not recorded in the write's future.
Resolvable(event, at) ==
    LET live == {e \in Durable(event) : e.exp > at}
    IN Cardinality(live) = 1 /\ \A e \in live : e.at <= at

Resolve(event, at) == (CHOOSE e \in Durable(event) : e.exp > at).id

Targets(events, at) == {Resolve(v, at) : v \in events}

\* The explicit links already stored that survive this write.
ExplicitRetained(at) ==
    Cardinality({l \in ToSet(links) : /\ l.kind \in Explicit
                                      /\ l.from \in Survivors(at)
                                      /\ l.to \in Survivors(at)})

\* The checks of remember_durable_with_evidence before anything is stored:
\* one budget for both relations, and room for all explicit evidence.
Fits(supersedes, causes, at) ==
    /\ Cardinality(supersedes) + Cardinality(causes) <= MaxLinksPerMemory
    /\ LET fresh(events) == Cardinality(Targets(events, at) \cap Survivors(at))
       IN ExplicitRetained(at) + fresh(supersedes) + fresh(causes) <= MaxLinks

\* a newer record first, the higher node id at equal times
Newer(a, b) == a.at > b.at \/ (a.at = b.at /\ a.id > b.id)

Ascending(ids) == SetToSortSeq(ids, <)

\* The temporal spine: links from the newest durable entries of the topic
\* that were recorded no later than this one, within what is left of the
\* per-write budget.
Spine(es, e, budget) ==
    LET older == {x \in ToSet(es) : /\ x.durable /\ x.id # e.id
                                    /\ x.topic = e.topic /\ x.at <= e.at}
        ranked == SetToSortSeq(older, Newer)
    IN IF e.topic = NoTopic THEN <<>>
       ELSE [i \in 1..(IF Len(ranked) < budget THEN Len(ranked) ELSE budget) |->
                Link(ranked[i].id, e.id, "before", e.at)]

\* enforce_link_bound: derived links are shed, oldest first, never evidence.
Shed(ls) ==
    LET excess == Len(ls) - MaxLinks
        derived == {i \in DOMAIN ls : ls[i].kind = "before"}
        gone == {i \in derived : Cardinality({j \in derived : j < i}) < excess}
        kept == SetToSortSeq(DOMAIN ls \ gone, <)
    IN [i \in DOMAIN kept |-> ls[kept[i]]]

\* link_new_memory
LinkNew(ls, es, e, supersedes, causes) ==
    LET explicit(ids, kind) ==
            LET s == Ascending(ids)
            IN [i \in DOMAIN s |-> Link(e.id, s[i], kind, e.at)]
        new == explicit(supersedes, "supersedes") \o explicit(causes, "caused_by")
    IN Shed(Prune(AddLinks(AddLinks(ls, new),
                           Spine(es, e, MaxLinksPerMemory - Len(new))), es))

-----------------------------------------------------------------------------
(* Writes                                                                  *)

WriteTimes == {t \in 0..clock : t + MaxBackfill >= clock}

NewEntry(event, source, topic, at, durable) ==
    [id |-> nextId, event |-> event, class |-> source.class,
     actor |-> source.actor, topic |-> topic, at |-> at,
     exp |-> at + (IF durable THEN DurableTtl ELSE WorkingTtl),
     durable |-> durable]

\* remember_working
RememberWorking(event, source, topic, at) ==
    LET e == NewEntry(event, source, topic, at, FALSE)
        es == Push(entries, e)
    IN /\ nextId <= MaxWrites
       /\ entries' = es
       /\ links' = Prune(links, es)
       /\ nextId' = nextId + 1
       /\ UNCHANGED <<clock, declared>>

\* remember_durable_with_evidence, for a write that authorize_memory_write
\* has permitted
RememberDurable(event, source, topic, at, supersedes, causes) ==
    LET e == NewEntry(event, source, topic, at, TRUE)
        es == Push(entries, e)
        old == Targets(supersedes, at)
        why == Targets(causes, at)
    IN /\ nextId <= MaxWrites
       /\ \A v \in supersedes \cup causes : Resolvable(v, at)
       /\ Fits(supersedes, causes, at)
       /\ entries' = es
       /\ links' = LinkNew(Prune(links, es), es, e, old, why)
       /\ nextId' = nextId + 1
       /\ declared' = declared
            \cup {[from |-> e.id, to |-> t, kind |-> "supersedes"] : t \in old}
            \cup {[from |-> e.id, to |-> t, kind |-> "caused_by"] : t \in why}
       /\ UNCHANGED clock

\* compact, called on its own
CompactNow ==
    /\ entries' = Compact(entries, clock)
    /\ links' = Prune(links, entries')
    /\ UNCHANGED <<clock, nextId, declared>>

Tick == clock < MaxTime /\ clock' = clock + 1 /\ UNCHANGED <<entries, links, nextId, declared>>

EvidenceSets == {s \in SUBSET EventIds : Cardinality(s) <= MaxEvidence}

Write ==
    \E event \in EventIds, source \in Sources, topic \in Topics \cup {NoTopic},
       at \in WriteTimes :
        \/ RememberWorking(event, source, topic, at)
        \/ \E supersedes \in EvidenceSets, causes \in EvidenceSets :
              RememberDurable(event, source, topic, at, supersedes, causes)

Next == Write \/ CompactNow \/ Tick

Spec == Init /\ [][Next]_vars

-----------------------------------------------------------------------------
(* Retrieval                                                               *)

Visible(now) == {e \in ToSet(entries) : e.exp > now /\ e.at <= now}

Take(seq, n) == SubSeq(seq, 1, IF Len(seq) < n THEN Len(seq) ELSE n)

\* relevant: actor matches, then topic matches, then the newest; an actor
\* or a topic of the query that is NoActor or NoTopic is no filter.
Relevant(actor, topic, limit, now) ==
    LET am(e) == IF actor # NoActor /\ e.actor = actor THEN 1 ELSE 0
        tm(e) == IF topic # NoTopic /\ e.topic = topic THEN 1 ELSE 0
        hits == {e \in Visible(now) : \/ actor = NoActor /\ topic = NoTopic
                                      \/ am(e) + tm(e) > 0}
        better(a, b) == \/ am(a) > am(b)
                        \/ am(a) = am(b) /\ tm(a) > tm(b)
                        \/ am(a) = am(b) /\ tm(a) = tm(b) /\ Newer(a, b)
    IN Take(SetToSortSeq(hits, better), limit)

\* The links of a view: both endpoints visible, recorded by now.
Incident(id, now) ==
    SelectSeq(links, LAMBDA l : /\ l.from = id \/ l.to = id
                                /\ l.at <= now
                                /\ {l.from, l.to} \subseteq {e.id : e \in Visible(now)})

StaleIn(id, now) ==
    \E l \in ToSet(Incident(id, now)) : l.kind = "supersedes" /\ l.to = id

\* link_view: supersessions, then causes, both newest first, then the spine.
LinkView(id, now) ==
    LET newest(a, b) == \/ a.at > b.at
                        \/ a.at = b.at /\ a.from > b.from
                        \/ a.at = b.at /\ a.from = b.from /\ a.to > b.to
        of(kind) == SelectSeq(Incident(id, now), LAMBDA l : l.kind = kind)
        sorted(kind) == SetToSortSeq(ToSet(of(kind)), newest)
    IN Take(sorted("supersedes") \o sorted("caused_by") \o of("before"),
            MaxLinksPerMemory)

InActorScope(e, actor) == actor = NoActor \/ e.actor = actor

\* relevant_linked, the hop: the nodes one link away from the matches, in
\* order, once each, within the actor's scope.
Hop(matched, actor, room, now) ==
    LET ends(e) == LET v == LinkView(e.id, now)
                   IN [i \in DOMAIN v |-> IF v[i].from = e.id THEN v[i].to ELSE v[i].from]
        flat == FlattenSeq([i \in DOMAIN matched |-> ends(matched[i])])
        fresh == SelectSeq(flat, LAMBDA id : /\ id \notin Ids(matched)
                                             /\ InActorScope(Entry(id), actor))
        first == {i \in DOMAIN fresh : \A j \in 1..(i - 1) : fresh[j] # fresh[i]}
        order == SetToSortSeq(first, <)
    IN Take([i \in DOMAIN order |-> Entry(fresh[order[i]])], room)

\* relevant_linked: the direct matches in the actor's scope, then the hop.
Direct(actor, topic, limit, now) ==
    SelectSeq(Relevant(actor, topic, limit, now), LAMBDA e : InActorScope(e, actor))

RelevantLinked(actor, topic, limit, now) ==
    LET matched == Direct(actor, topic, limit, now)
    IN matched \o Hop(matched, actor, limit - Len(matched), now)

\* context_for: the links that replace a claim, one correction per claim.
Corrections(now) ==
    {l \in ToSet(links) : /\ l.kind = "supersedes" /\ l.at <= now
                          /\ l.from \in {e.id : e \in Visible(now)}}

Replaced(now) == {l.to : l \in Corrections(now)}

\* correction_of keeps the first link to a claim.
CorrectionOf(id) ==
    LET i == CHOOSE i \in DOMAIN links :
                /\ links[i].kind = "supersedes" /\ links[i].to = id
                /\ \A j \in 1..(i - 1) : ~(links[j].kind = "supersedes" /\ links[j].to = id)
    IN links[i].from

\* A claim is in scope when it is the speaker's own, or shared by its class
\* and not attributed to somebody else.
InScope(e, actor) ==
    \/ actor # NoActor /\ e.actor = actor
    \/ e.class \in SharedClasses /\ e.actor = NoActor

\* Does the claim lead: by its topic, or promoted as a correction of one that does?
Leads(e, topic, now) ==
    \/ topic # NoTopic /\ e.topic = topic
    \/ \E x \in Visible(now) : /\ topic # NoTopic /\ x.topic = topic
                               /\ x.id \in Replaced(now)
                               /\ CorrectionOf(x.id) = e.id

ContextFor(actor, topic, limit, now) ==
    LET hits == {e \in Visible(now) : e.id \notin Replaced(now) /\ InScope(e, actor)}
        better(a, b) == \/ Leads(a, topic, now) /\ ~Leads(b, topic, now)
                        \/ Leads(a, topic, now) = Leads(b, topic, now) /\ Newer(a, b)
    IN Take(SetToSortSeq(hits, better), limit)

-----------------------------------------------------------------------------
(* Properties                                                              *)

Actors == {s.actor : s \in Sources} \cup {NoActor}
QueryTopics == Topics \cup {NoTopic}

\* Every variable has its type and the stores keep their bounds.
TypeOK ==
    /\ clock \in 0..MaxTime /\ nextId \in 1..(MaxWrites + 1)
    /\ Len(entries) <= MaxEntries
    /\ \A e \in ToSet(entries) : e.id \in 1..(nextId - 1) /\ e.exp > e.at
    /\ \A l \in ToSet(links) : l.kind \in Kinds

\* The link store stays within max_links although explicit evidence is never
\* shed, and no link outlives an endpoint or is stored twice
\* (enforce_link_bound's "unreachable" branch, prune_links).
LinkStoreSound ==
    /\ Len(links) <= MaxLinks
    /\ \A l \in ToSet(links) : {l.from, l.to} \subseteq Ids(entries)
    /\ \A i, j \in DOMAIN links : i # j =>
         <<links[i].from, links[i].to, links[i].kind>> #
         <<links[j].from, links[j].to, links[j].kind>>

\* Accepted evidence lasts: while both endpoints are retained the link is
\* stored; and a replaced claim never outlives the claim that replaced it,
\* so that it cannot become current again (the #105 rule in
\* remember_durable_with_evidence).
EvidenceLasts ==
    \A d \in declared :
        /\ {d.from, d.to} \subseteq Ids(entries) =>
             \E l \in ToSet(links) : l.kind = d.kind /\ l.from = d.from /\ l.to = d.to
        /\ d.kind = "supersedes" /\ d.to \in Ids(entries) => d.from \in Ids(entries)

\* The projection that judges a write before it is stored predicts exactly
\* what the write's own compaction retains (projected_survivors mirrors
\* push_bounded).
ProjectionExact ==
    \A at \in WriteTimes :
        LET e == [id |-> nextId, at |-> at, exp |-> at + DurableTtl]
        IN Survivors(at) = Ids(Push(entries, e)) \ {nextId}

\* The derived spine never contradicts the timeline that retrieval ranks by:
\* a TemporalBefore link leads from an older to a newer record, also when
\* writes are backfilled.
SpineFollowsTime ==
    \A l \in ToSet(links) : l.kind = "before" => Newer(Entry(l.to), Entry(l.from))

\* An actor's query is answered from that actor's claims only, hop included,
\* and filtering after the cut loses nothing: every in-scope match is
\* returned up to the limit (relevant_linked).
LinkedScoped ==
    \A actor \in Actors \ {NoActor}, topic \in QueryTopics, limit \in 1..2 :
        LET r == RelevantLinked(actor, topic, limit, clock)
            own == {e \in Visible(clock) : e.actor = actor}
        IN /\ Len(r) <= limit
           /\ \A e \in ToSet(r) : e.actor = actor
           /\ Cardinality(own) <= limit => own \subseteq ToSet(r)

\* The two retrieval paths agree: a visible claim in the generation scope is
\* left out of an unbounded context exactly when its link view says it is
\* stale (context_for and link_view).
ViewsAgree ==
    \A actor \in Actors :
        LET context == ToSet(ContextFor(actor, NoTopic, MaxEntries, clock))
        IN \A e \in Visible(clock) :
              InScope(e, actor) => (e \in context <=> ~StaleIn(e.id, clock))

\* The claims that replaced x, directly or through other corrections.
Chain(id) ==
    LET step(ids) == ids \cup {l.from : l \in {m \in Corrections(clock) : m.to \in ids}}
    IN FoldFunction(LAMBDA x, ids : step(ids), {id}, [i \in 1..MaxEntries |-> i]) \ {id}

\* "the superseded node is dropped and its live correction is promoted into
\* the same rank bucket": the current correction of a claim on the topic
\* precedes every claim that has nothing to do with the topic (context_for).
CorrectionLeads ==
    \A topic \in Topics, x \in Visible(clock) :
        x.topic = topic =>
          \A c \in ToSet(ContextFor(NoActor, topic, MaxEntries, clock)) :
              c.id \in Chain(x.id) => Leads(c, topic, clock)
==============================================================================
