--------------------------- MODULE SecurityRuntime ---------------------------
(***************************************************************************)
(* The security boundary of crates/runtime/src/lib.rs: admission of public *)
(* content through size limits, a token bucket per source and a bounded    *)
(* queue; authenticated control beside it; the memory-write gate; the      *)
(* output gate; and the bounded audit log and correlation registry.        *)
(*                                                                         *)
(* It is owned by the composition thread, so every call is one step.  The  *)
(* f64 tokens are counted in parts of a token: Scale parts make a token    *)
(* and every time unit adds Rate parts, which is exact for the rates the   *)
(* configuration gives.  Envelopes are their source, correlation id and    *)
(* the first check they would fail.                                        *)
(***************************************************************************)
EXTENDS Integers, Sequences, FiniteSets, SequencesExt

CONSTANTS
    Sources,          \* event.source
    Correlations,     \* event.correlation_id
    Rate,             \* content_rate_per_second: parts of a token per time unit
    Scale,            \* parts of a token (1000 for milliseconds)
    Burst,            \* content_burst
    QueueLimit,       \* content_queue_limit
    AuditLimit,       \* max_audit_records
    MaxSources,       \* max_rate_limit_sources
    SourceTtl,        \* rate_limit_source_ttl_ms
    CorrelationLimit, \* MAX_CORRELATION_REFS
    MaxTime,          \* bound on time
    MaxEvents         \* bound on audited operations

\* validate_config
ConfigAssumption ==
    /\ {Rate, Scale, Burst, QueueLimit, AuditLimit, MaxSources, SourceTtl,
        CorrelationLimit} \subseteq Nat \ {0}
    /\ MaxTime \in Nat /\ MaxEvents \in Nat

\* A source that is forgotten comes back with a full bucket.  That is no gain
\* when the bucket would have filled up by then; the defaults (600 s at 20
\* tokens per second against a burst of 40) are far from it.
TtlAssumption == SourceTtl * Rate >= Burst * Scale

Faults == {"none", "envelope bytes", "malformed", "not content", "payload bytes"}
Event  == [source : Sources, correlation : Correlations, fault : Faults]

VARIABLES
    now,          \* now_ms of the next call: never earlier than the last one
    buckets,      \* source -> [tokens, at]; the domain is the known sources
    queue,        \* content_queue
    muted,        \* muted
    audit,        \* audit: the numbers of the retained records
    evicted,      \* audit_evicted
    order,        \* correlation_order
    registry,     \* correlations: correlation -> sequence number of the event
    admitted,     \* <<source, time>> of every token spent (history variable)
    audited       \* operations that were audited (history variable)

vars == <<now, buckets, queue, muted, audit, evicted, order, registry,
          admitted, audited>>
admission == <<buckets, queue, order, registry, admitted>>

Init ==
    /\ now = 0
    /\ buckets = [s \in {} |-> [tokens |-> 0, at |-> 0]]
    /\ queue = <<>> /\ muted = FALSE
    /\ audit = <<>> /\ evicted = 0
    /\ order = <<>> /\ registry = [c \in {} |-> 0]
    /\ admitted = <<>> /\ audited = 0

-----------------------------------------------------------------------------
(* Audit log                                                               *)

\* push_audit: append, then drain the oldest beyond the limit.
PushAudit ==
    LET all    == Append(audit, audited + 1)
        remove == IF Len(all) > AuditLimit THEN Len(all) - AuditLimit ELSE 0
    IN /\ audited < MaxEvents
       /\ audit' = SubSeq(all, remove + 1, Len(all))
       /\ evicted' = evicted + remove
       /\ audited' = audited + 1

-----------------------------------------------------------------------------
(* Token buckets                                                           *)

Minimum(a, b) == IF a <= b THEN a ELSE b

\* expire_rate_limit_sources
Unexpired == {s \in DOMAIN buckets : now - buckets[s].at < SourceTtl}

\* The tokens of a known source at this time.
Refilled(s) ==
    Minimum(buckets[s].tokens + (now - buckets[s].at) * Rate, Burst * Scale)

\* consume_token on a known source.
ConsumeKnown(s, granted) ==
    /\ s \in DOMAIN buckets
    /\ granted = (Refilled(s) >= Scale)
    /\ buckets' = [buckets EXCEPT ![s] =
                      [tokens |-> Refilled(s) - IF granted THEN Scale ELSE 0,
                       at |-> now]]

\* Mutant: a full table forgets its sources to make room.
ConsumeNewEvicting(s, granted) ==
    /\ s \notin DOMAIN buckets
    /\ granted
    /\ buckets' = [x \in {s} |-> [tokens |-> Burst * Scale - Scale, at |-> now]]

\* consume_token on a new source: idle sources are forgotten first, and the
\* table may still be full.
ConsumeNew(s, granted) ==
    /\ s \notin DOMAIN buckets
    /\ granted = (Cardinality(Unexpired) < MaxSources)
    /\ buckets' = [x \in Unexpired \cup (IF granted THEN {s} ELSE {}) |->
                      IF x = s THEN [tokens |-> Burst * Scale - Scale, at |-> now]
                               ELSE buckets[x]]

ConsumeToken(s, granted) == ConsumeKnown(s, granted) \/ ConsumeNew(s, granted)

-----------------------------------------------------------------------------
(* Content admission                                                       *)

\* retain on the order, in which an id stands at most once.
Without(s, c) ==
    LET at == {i \in DOMAIN s : s[i] = c}
    IN IF at = {} THEN s ELSE RemoveAt(s, CHOOSE i \in at : TRUE)

\* record_correlation: the newest at the end, the oldest dropped beyond the limit.
RecordCorrelation(c) ==
    LET longer == Append(Without(order, c), c)
        over   == Cardinality(DOMAIN registry \cup {c}) > CorrelationLimit
        gone   == IF over THEN {Head(longer)} ELSE {}
    IN /\ order' = IF over THEN Tail(longer) ELSE longer
       /\ registry' = [x \in (DOMAIN registry \cup {c}) \ gone |->
                          IF x = c THEN audited + 1 ELSE registry[x]]

\* An envelope that cannot be parsed or validated is an error and leaves no trace.
AdmitInvalid(e) ==
    /\ e.fault = "malformed"
    /\ UNCHANGED vars

\* Too large, or not content at all: audited and dropped before any token.
AdmitRefused(e) ==
    /\ e.fault \in {"envelope bytes", "not content", "payload bytes"}
    /\ PushAudit
    /\ UNCHANGED <<now, admission, muted>>

AdmitDroppedRate(e) ==
    /\ e.fault = "none"
    /\ ConsumeToken(e.source, FALSE)
    /\ PushAudit
    /\ UNCHANGED <<now, queue, order, registry, admitted, muted>>

\* A token is spent although the queue has no room.
AdmitBackpressure(e) ==
    /\ e.fault = "none"
    /\ Len(queue) >= QueueLimit
    /\ ConsumeToken(e.source, TRUE)
    /\ admitted' = Append(admitted, <<e.source, now>>)
    /\ PushAudit
    /\ UNCHANGED <<now, queue, order, registry, muted>>

AdmitQueued(e) ==
    /\ e.fault = "none"
    /\ Len(queue) < QueueLimit
    /\ ConsumeToken(e.source, TRUE)
    /\ admitted' = Append(admitted, <<e.source, now>>)
    /\ PushAudit
    /\ RecordCorrelation(e.correlation)
    /\ queue' = Append(queue, e)
    /\ UNCHANGED <<now, muted>>

PopContent ==
    /\ queue # <<>>
    /\ queue' = Tail(queue)
    /\ UNCHANGED <<now, buckets, muted, audit, evicted, order, registry,
                   admitted, audited>>

-----------------------------------------------------------------------------
(* Control, memory and output                                              *)

\* handle_control and handle_control_with_scheduler.  A command whose claim
\* does not match its authority, or that lacks the capability, is an error
\* without an effect; "other" is audited and does nothing.
HandleControl(action, claimMatches, capable) ==
    /\ claimMatches
    /\ action \in {"stop", "mute"} => capable
    /\ muted' = (muted \/ action = "mute")
    /\ PushAudit
    /\ UNCHANGED <<now, admission>>

\* authorize_memory_write, record_public_output_decision, record_generation_call
\* and push_external_audit: one audit record each, whatever was decided.
AuditedDecision ==
    /\ PushAudit
    /\ UNCHANGED <<now, admission, muted>>

TimePasses ==
    /\ now < MaxTime
    /\ now' = now + 1
    /\ UNCHANGED <<admission, muted, audit, evicted, audited>>

Next ==
    \/ \E e \in Event :
          \/ AdmitInvalid(e) \/ AdmitRefused(e) \/ AdmitDroppedRate(e)
          \/ AdmitBackpressure(e) \/ AdmitQueued(e)
    \/ PopContent
    \/ \E action \in {"stop", "mute", "other"}, claim, capable \in BOOLEAN :
          HandleControl(action, claim, capable)
    \/ AuditedDecision
    \/ TimePasses

Spec == Init /\ [][Next]_vars

-----------------------------------------------------------------------------
(* Properties                                                              *)

TypeOK ==
    /\ now \in 0..MaxTime
    /\ DOMAIN buckets \subseteq Sources
    /\ \A s \in DOMAIN buckets :
          buckets[s].tokens \in 0..(Burst * Scale) /\ buckets[s].at \in 0..now
    /\ queue \in Seq(Event) /\ muted \in BOOLEAN
    /\ Len(audit) <= AuditLimit
    /\ evicted \in 0..MaxEvents /\ audited \in 0..MaxEvents

\* The rate a source can get: in any window of time it spends at most the burst
\* and what the rate adds, also across being forgotten and seen again, and the
\* table of sources never outgrows its limit.
RateBounded ==
    /\ Cardinality(DOMAIN buckets) <= MaxSources
    /\ \A i, j \in DOMAIN admitted :
          (i <= j /\ admitted[i][1] = admitted[j][1]) =>
              Cardinality({k \in i..j : admitted[k][1] = admitted[i][1]}) * Scale
                 <= Burst * Scale + (admitted[j][2] - admitted[i][2]) * Rate

\* correlations and correlation_order describe the same bounded set: the
\* support bundle's "recent" list has no repetition and misses no entry, and
\* its order is the order of the last admissions.
RegistryConsistent ==
    /\ Cardinality(DOMAIN registry) <= CorrelationLimit
    /\ {order[i] : i \in DOMAIN order} = DOMAIN registry
    /\ \A i, j \in DOMAIN order : i < j => registry[order[i]] < registry[order[j]]

\* Every audited operation is retained or counted as evicted, and the retained
\* ones are the newest, in order.
AuditAccounted ==
    /\ Len(audit) + evicted = audited
    /\ \A i \in DOMAIN audit : audit[i] = evicted + i
=============================================================================
