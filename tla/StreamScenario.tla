--------------------------- MODULE StreamScenario ---------------------------
(***************************************************************************)
(* The synthetic stream workloads of crates/domain/src/scenario.rs: the    *)
(* rules that accept a scenario, its calendar arithmetic, and the          *)
(* generator that turns it into a trace, one event at a time.              *)
(*                                                                         *)
(* The seeded generator SplitMix64 is any source of words.  Instants are   *)
(* kept as a day and a millisecond of it.  Band, priority and topic of an  *)
(* event are checked in the document and left out of the trace: the words  *)
(* they take are those of any source.                                      *)
(***************************************************************************)
EXTENDS Integers, Sequences, FiniteSets, SequencesExt, FiniteSetsExt

CONSTANTS
    Scenarios,  \* the documents tried, refused ones included
    Words,      \* 2^64, the number of words next_u64 can return
    Minute,     \* 60_000, which is MAX_EVENTS_PER_MINUTE too
    Milli,      \* milliseconds of a second: 1000
    MaxActors,  \* u32::MAX
    MaxEvents   \* MAX_TRACE_EVENTS

\* A phase gives its repeat probability in tenths.
ScenarioAssumption ==
    /\ {Words, Minute, Milli, MaxActors, MaxEvents} \subseteq Nat \ {0}
    /\ \A s \in Scenarios : \A i \in DOMAIN s.phases :
          {s.phases[i].duration, s.phases[i].rate, s.phases[i].actors} \subseteq 0 .. Words - 1

VARIABLES
    scenario,
    stage,      \* "validate", "refused", "generate", "done" or "failed"
    phase,      \* the phase being generated
    elapsed,    \* phase_start_ms
    floor,      \* actor_base
    arriving,   \* next_actor
    previous,   \* previous_actor, -1 for none
    trace       \* the events so far

vars == <<scenario, stage, phase, elapsed, floor, arriving, previous, trace>>

-----------------------------------------------------------------------------
(* The calendar.                                                           *)

DaysFromCivil(y, m, d) ==
    LET year == IF m <= 2 THEN y - 1 ELSE y
        era == year \div 400
        ofEra == year - era * 400
        shifted == IF m > 2 THEN m - 3 ELSE m + 9
        ofYear == (153 * shifted + 2) \div 5 + d - 1
    IN  era * 146097 + ofEra * 365 + ofEra \div 4 - ofEra \div 100 + ofYear - 719468

CivilFromDays(days) ==
    LET shifted == days + 719468
        era == shifted \div 146097
        ofEra == shifted - era * 146097
        year == (ofEra - ofEra \div 1460 + ofEra \div 36524 - ofEra \div 146096) \div 365
        ofYear == ofEra - (365 * year + year \div 4 - year \div 100)
        month == (5 * ofYear + 2) \div 153
        m == IF month < 10 THEN month + 3 ELSE month - 9
    IN  <<year + era * 400 + (IF m <= 2 THEN 1 ELSE 0), m,
          ofYear - (153 * month + 2) \div 5 + 1>>

\* What parse_logical_start and scenario_instant_ms accept of the numbers of a
\* timestamp: four digits of year, a date that comes back from its day number,
\* a time of day, and an instant that is not before the epoch.
InstantValid(t) ==
    /\ t.y \in 0 .. 9999 /\ t.mo \in 1 .. 12 /\ t.d \in 1 .. 31
    /\ t.h <= 23 /\ t.mi <= 59 /\ t.s <= 59
    /\ CivilFromDays(DaysFromCivil(t.y, t.mo, t.d)) = <<t.y, t.mo, t.d>>
    /\ DaysFromCivil(t.y, t.mo, t.d) >= 0

DayMs == 86400 * Milli
\* An instant: a day and the milliseconds of it.
Instant(t) ==
    [day |-> DaysFromCivil(t.y, t.mo, t.d),
     ms |-> (t.h * 3600 + t.mi * 60 + t.s) * Milli + t.ms]
Later(i, ms) == [day |-> i.day + (i.ms + ms) \div DayMs, ms |-> (i.ms + ms) % DayMs]
Since(i, j) == (i.day - j.day) * DayMs + (i.ms - j.ms)

FormatRfc3339(i) ==
    LET civil == CivilFromDays(i.day)
        second == i.ms \div Milli
    IN  [y |-> civil[1], mo |-> civil[2], d |-> civil[3], h |-> second \div 3600,
         mi |-> (second % 3600) \div 60, s |-> second % 60, ms |-> i.ms % Milli]

-----------------------------------------------------------------------------
(* Words.                                                                  *)

\* The words below keeps: all but the first -bound mod bound.
Kept(bound) == ((Words - bound) % bound) .. (Words - 1)
Below(bound) == IF bound = 0 THEN {0} ELSE {w % bound : w \in Kept(bound)}

\* pick_weighted, for a word of the generator (unit keeps its upper bits): walk
\* the keys in order until the weights use up word / Words of their total, or
\* take the last.
Weight(mix) == FoldFunction(LAMBDA e, n : n + e.weight, 0, mix)
PickWeighted(mix, word) ==
    LET used == {i \in DOMAIN mix : word * Weight(mix) <= Words * Weight(SubSeq(mix, 1, i))}
    IN  mix[IF used = {} THEN Len(mix) ELSE Min(used)].key

-----------------------------------------------------------------------------
(* Query embeddings, in hundredths.                                        *)

Intents == <<"reaction.agree", "reaction.surprise", "filler.thinking">>
Bands == {"hit", "near_miss", "miss"}
Signal(band) == CASE band = "hit" -> 100 [] band = "near_miss" -> 65 [] band = "miss" -> 0

\* payload_intent_axis: a known family has its own axis, if there are so many;
\* any other is spread over all.  An axis is given in shares of dimension.
Axis(intent, dimension) ==
    [i \in 1 .. dimension |->
        IF \E k \in 1 .. dimension \cap DOMAIN Intents : Intents[k] = intent
        THEN IF i \in DOMAIN Intents /\ Intents[i] = intent THEN dimension ELSE 0
        ELSE 1]
Project(band, axis) == [i \in DOMAIN axis |-> axis[i] * Signal(band) + (100 - Signal(band))]

-----------------------------------------------------------------------------
(* The document.                                                           *)

EventCount(p) == (2 * p.rate * p.duration + Minute) \div (2 * Minute)
Total(ps) == FoldFunction(LAMBDA p, n : n + EventCount(p), 0, ps)
Span(ps) == FoldFunction(LAMBDA p, n : n + p.duration, 0, ps)
Actors(ps) == FoldFunction(LAMBDA p, n : n + p.actors, 0, ps)

MixValid(mix) == mix # <<>> /\ \A i \in DOMAIN mix : mix[i].weight > 0

PhaseValid(p) ==
    /\ p.name # "" /\ p.duration > 0 /\ p.rate <= Minute /\ p.repeat \in 0 .. 10
    /\ p.actors > 0 /\ p.topics > 0
    /\ MixValid(p.kinds) /\ MixValid(p.semantic) /\ MixValid(p.priority)
    /\ \A i \in DOMAIN p.kinds : p.kinds[i].key # "operator"
    /\ EventCount(p) <= p.duration

Accepted(s) ==
    /\ s.header = "sound" /\ s.duration > 0 /\ s.phases # <<>>
    /\ \A i \in DOMAIN s.phases : PhaseValid(s.phases[i])
    /\ \A i, j \in DOMAIN s.phases : s.phases[i].name = s.phases[j].name => i = j
    /\ Actors(s.phases) <= MaxActors
    /\ Span(s.phases) = s.duration
    /\ Total(s.phases) \in 1 .. MaxEvents
    /\ InstantValid(s.start)

RepeatQuota(count, tenths) == Min({(count * tenths) \div 10, Max({count - 1, 0})})

RepeatsAt(ordinal, count, quota) ==
    /\ quota > 0 /\ count > 0
    /\ ((ordinal + 1) * quota) \div count > (ordinal * quota) \div count

PlaneFor(kind) ==
    CASE kind \in {"stream", "timer", "health"} -> "system"
      [] kind = "operator" -> "control"
      [] OTHER -> "content"

-----------------------------------------------------------------------------
(* The generator.                                                          *)

Phase == scenario.phases[phase]
Ordinal == Cardinality({i \in DOMAIN trace : trace[i].phase = phase})
Origin == Instant(scenario.start)

Init ==
    /\ scenario \in Scenarios
    /\ stage = "validate"
    /\ phase = 1 /\ elapsed = 0 /\ floor = 0 /\ arriving = 0 /\ previous = -1
    /\ trace = <<>>

Validate ==
    /\ stage = "validate"
    /\ stage' = IF Accepted(scenario) THEN "generate" ELSE "refused"
    /\ UNCHANGED <<scenario, phase, elapsed, floor, arriving, previous, trace>>

\* The first millisecond of the slot of an event, and the length of the slot.
Base(ordinal, count) == (ordinal * Phase.duration) \div count
Slot(ordinal, count) ==
    Max({1, (IF ordinal + 1 < count THEN Base(ordinal + 1, count) ELSE Phase.duration)
              - Base(ordinal, count)})

\* One event: a kind, a place in its slot, and a viewer: the previous one, the
\* next of the pool, or when the pool is used up any of it.
Draw ==
    LET count == EventCount(Phase)
        ordinal == Ordinal
        repeat == previous # -1
                  /\ RepeatsAt(ordinal, count, RepeatQuota(count, Phase.repeat))
        fresh == ~repeat /\ arriving < floor + Phase.actors
    IN  /\ stage = "generate" /\ phase <= Len(scenario.phases) /\ ordinal < count
        /\ \E kind \in {PickWeighted(Phase.kinds, w) : w \in 0 .. Words - 1},
              jitter \in Below(Slot(ordinal, count)),
              sampled \in Below(Phase.actors) :
              LET actor == IF repeat THEN previous
                           ELSE IF fresh THEN arriving ELSE floor + sampled
                  at == Later(Origin, elapsed + Base(ordinal, count) + jitter)
              IN  /\ trace' = Append(trace, [at |-> FormatRfc3339(at), kind |-> kind,
                                             plane |-> PlaneFor(kind), actor |-> actor,
                                             phase |-> phase, repeat |-> repeat])
                  /\ previous' = actor
        /\ arriving' = IF fresh THEN arriving + 1 ELSE arriving
        /\ UNCHANGED <<scenario, stage, phase, elapsed, floor>>

\* The next phase continues the viewers where this one stopped.
PhaseEnds ==
    /\ stage = "generate" /\ phase <= Len(scenario.phases) /\ Ordinal = EventCount(Phase)
    /\ phase' = phase + 1
    /\ elapsed' = elapsed + Phase.duration
    /\ floor' = floor + Phase.actors /\ arriving' = floor'
    /\ previous' = -1
    /\ UNCHANGED <<scenario, stage, trace>>

\* scenario_to_benchmark_fixture reads every instant back.
Render ==
    /\ stage = "generate" /\ phase > Len(scenario.phases)
    /\ stage' = IF \A i \in DOMAIN trace : InstantValid(trace[i].at) THEN "done" ELSE "failed"
    /\ UNCHANGED <<scenario, phase, elapsed, floor, arriving, previous, trace>>

Next == Validate \/ Draw \/ PhaseEnds \/ Render

Spec == Init /\ [][Next]_vars

-----------------------------------------------------------------------------
(* The calendar as it is taught.                                           *)
Leap(y) == y % 4 = 0 /\ (y % 100 = 0 => y % 400 = 0)
MonthDays(y, m) ==
    CASE m = 2 -> IF Leap(y) THEN 29 ELSE 28 [] m \in {4, 6, 9, 11} -> 30 [] OTHER -> 31
InCalendar(t) == t.mo \in 1 .. 12 /\ t.d \in 1 .. MonthDays(t.y, t.mo)
DayBefore(t) ==
    IF t.d > 1 THEN <<t.y, t.mo, t.d - 1>>
    ELSE IF t.mo > 1 THEN <<t.y, t.mo - 1, MonthDays(t.y, t.mo - 1)>> ELSE <<t.y - 1, 12, 31>>
Digits(t) == <<t.y, t.mo, t.d, t.h, t.mi, t.s, t.ms>>
Precedes(a, b) ==
    \E i \in 1 .. 7 : a[i] < b[i] /\ \A j \in 1 .. i - 1 : a[j] = b[j]
OfPhase(n) == {i \in DOMAIN trace : trace[i].phase = n}
PhaseStart(n) == Span(SubSeq(scenario.phases, 1, n - 1))

\* A logical start is accepted exactly when the calendar has its date, leap
\* days of centuries included, from 1970 on, and consecutive dates have
\* consecutive day numbers (days_from_civil, civil_from_days, the round trip of
\* parse_logical_start).
DatesReal ==
    LET t == scenario.start
    IN  /\ InstantValid(t) <=>
              InCalendar(t) /\ t.y \in 1970 .. 9999 /\ t.h < 24 /\ t.mi < 60 /\ t.s < 60
        /\ InCalendar(t) => /\ CivilFromDays(DaysFromCivil(t.y, t.mo, t.d)) = <<t.y, t.mo, t.d>>
                            /\ LET b == DayBefore(t)
                               IN  DaysFromCivil(t.y, t.mo, t.d)
                                     = DaysFromCivil(b[1], b[2], b[3]) + 1
        /\ DaysFromCivil(1970, 1, 1) = 0

\* Every event owns a millisecond of its phase, whatever the jitter: instants
\* strictly increase, as times and as the text consumers sort by, across phases
\* and midnight too (generate_scenario_trace, format_rfc3339).
TraceOrdered ==
    /\ \A i \in 1 .. Len(trace) - 1 :
          /\ Precedes(Digits(trace[i].at), Digits(trace[i + 1].at))
          /\ Since(Instant(trace[i + 1].at), Instant(trace[i].at)) > 0
    /\ \A i \in DOMAIN trace :
          LET n == trace[i].phase
              from == Since(Instant(trace[i].at), Origin)
          IN  from \in PhaseStart(n) .. PhaseStart(n) + scenario.phases[n].duration - 1

\* What a document check can predict of a trace: each phase repeats the
\* previous viewer exactly quota times, never at its first event, reaches as
\* many distinct viewers as it has fresh draws or as its pool holds, and shares
\* none with another phase.
ViewersPredicted ==
    stage = "done" =>
        \A n \in DOMAIN scenario.phases :
            LET p == scenario.phases[n]
                count == EventCount(p)
                quota == RepeatQuota(count, p.repeat)
                here == OfPhase(n)
                viewers == {trace[i].actor : i \in here}
            IN  /\ Cardinality({i \in here : trace[i].repeat}) = quota
                /\ here # {} => ~trace[Min(here)].repeat
                /\ \A i \in here : trace[i].repeat => trace[i].actor = trace[i - 1].actor
                /\ Cardinality(viewers) = Min({p.actors, count - quota})
                /\ \A i \in DOMAIN trace \ here : trace[i].actor \notin viewers

\* An accepted scenario is generated and rendered to the end, with as many
\* events as it announces, all within the namespace of viewers, and none of
\* them privileged.
AcceptedRenders ==
    /\ stage # "failed"
    /\ stage = "done" => Len(trace) = Total(scenario.phases)
    /\ \A i \in DOMAIN trace : trace[i].actor < MaxActors /\ trace[i].plane # "control"

\* The generator is fair: with the words it rejects, every value of below has
\* equally many, and pick_weighted gives every key of a mix its share of the
\* words, but for the one on each border.
Unbiased ==
    /\ \A bound \in 1 .. Words - 1 :
          /\ Below(bound) = 0 .. bound - 1
          /\ \A v \in Below(bound) :
                Cardinality({w \in Kept(bound) : w % bound = v}) * bound = Cardinality(Kept(bound))
    /\ stage = "generate" =>
          \A n \in DOMAIN scenario.phases : LET mix == scenario.phases[n].kinds
                                            IN  \A i \in DOMAIN mix :
              LET drawn == {w \in 0 .. Words - 1 : PickWeighted(mix, w) = mix[i].key}
                  share == Words * mix[i].weight
              IN  /\ Cardinality(drawn) * Weight(mix) <= share + Weight(mix)
                  /\ Cardinality(drawn) * Weight(mix) >= share - Weight(mix)

\* A band is how strongly an embedding names its intent: the mass of every
\* band is the same, a hit and a near miss lean to the intent's own axis, the
\* hit more, and a miss tells no intent from another, known or not.
BandsGraded ==
    \A dimension \in 1 .. 4 : \A k \in DOMAIN Intents \cap 1 .. dimension :
        LET axis == Axis(Intents[k], dimension)
            mass(v) == FoldFunction(+, 0, v)
            lean(band) == Project(band, axis)[k]
        IN  /\ \A band \in Bands : mass(Project(band, axis)) = 100 * dimension
            /\ dimension > 1 => lean("hit") > lean("near_miss") /\ lean("near_miss") > lean("miss")
            /\ \A i \in DOMAIN axis \ {k} : lean("near_miss") > Project("near_miss", axis)[i]
            /\ Project("miss", axis) = Project("hit", Axis("other", dimension))
=============================================================================
