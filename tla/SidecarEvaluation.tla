-------------------------- MODULE SidecarEvaluation --------------------------
(***************************************************************************)
(* One case of the long-range memory evaluation measured against an        *)
(* external memory service: the runner (crates/app/src/                    *)
(* memory_sidecar_eval.rs) over the adapter (crates/adapters/src/          *)
(* hindsight.rs), one step per request to the service, and the same case   *)
(* on the runtime's own store (memory_eval.rs over WorkingMemory).         *)
(*                                                                         *)
(* The service is external: it may keep a claim as several facts, rewrite  *)
(* their text, lose their metadata, ignore the scope and the retirement,   *)
(* repeat itself, and fail any request before or after carrying it out.    *)
(* It does delete a scope when it says so.  A run that failed may be       *)
(* started again on the same scope.  Texts are byte counts; the token of a *)
(* scope is an injective encoding of the case id and so the case itself.   *)
(***************************************************************************)
EXTENDS Integers, Sequences, FiniteSets, SequencesExt

CONSTANTS
    Cases,              \* cases of a fixture that validates
    MaxEntries, DurableTtl,         \* their MemoryEvalConfig
    MaxItems, MaxText, MaxContext,  \* MAX_THINKING_...
    Limit,              \* MAX_SIDECAR_RECALL_ITEMS
    MaxAnswer,          \* bound of the model: items of an answer
    MaxRuns             \* bound of the model: measurements of the case

SidecarAssumption ==
    /\ {MaxItems, MaxText, MaxContext, Limit, MaxAnswer, MaxRuns} \subseteq Nat
    /\ {MaxEntries, DurableTtl} \subseteq Nat \ {0}
    /\ \A c \in Cases : c.claims # <<>>

NoClaim == "none"
NoActor == "none"
Rewritten == 1      \* bytes of a text the service has rewritten

VARIABLES
    case,       \* the case being measured
    run,        \* which measurement of it this is
    pc,         \* the next request
    next,       \* the next claim of the case
    todo,       \* claims whose retirement is due at the service
    handles,    \* claims whose handle the runner holds
    retired,    \* claims the service was told to forget
    high,       \* entries_high_water
    exists,     \* service: the scope exists
    bank,       \* service: the facts in it
    delivered, refused,     \* what was made of the answer
    result      \* of the measurement

runner == <<case, run, next, todo, handles, retired, high, delivered, refused, result>>
vars == <<runner, pc, exists, bank>>

Start ==
    /\ pc = "clear" /\ next = 1 /\ todo = <<>> /\ handles = {} /\ retired = {}
    /\ high = 0 /\ delivered = <<>> /\ refused = <<>> /\ result = "none"

Init == case \in Cases /\ run = 1 /\ exists = FALSE /\ bank = {} /\ Start

-----------------------------------------------------------------------------
(* The case                                                                *)

Claim(id) == CHOOSE c \in ToSet(case.claims) : c.id = id
Admitted == {case.claims[i].id : i \in 1..(next - 1)}
Expired(c, now) == c.at + DurableTtl <= now

\* claim_in_scope; every claim of a fixture is public chat, which
\* source_class_is_shared does not share.
ClaimInScope(c) == case.actor # NoActor /\ c.actor = case.actor

\* bounded_prefix
Taking(st, item) ==
    IF st.full \/ item.bytes > MaxText THEN st
    ELSE IF Len(st.items) >= MaxItems \/ st.used + item.bytes > MaxContext
         THEN [st EXCEPT !.full = TRUE]
    ELSE [st EXCEPT !.items = Append(@, item), !.used = @ + item.bytes]
BoundedPrefix(items, charged) ==
    FoldLeft(Taking, [items |-> <<>>, used |-> charged, full |-> FALSE], items).items

-----------------------------------------------------------------------------
(* Requests that fail                                                      *)

\* The measurement stops with an error and the scope is closed.
Abort ==
    /\ pc' = "close" /\ result' = "failed" /\ todo' = <<>>
    /\ UNCHANGED <<case, run, next, handles, retired, high, delivered, refused>>

\* A status the adapter does not allow, or no answer in time: the service
\* may have carried the request out.
Fails(existsAfter, bankAfter) ==
    \/ UNCHANGED <<exists, bank>>
    \/ exists' = existsAfter /\ bank' = bankAfter

\* open_scope fails: run_sidecar_case returns before it opens anything.
OpenFails ==
    /\ pc' = "done" /\ result' = "open"
    /\ UNCHANGED <<case, run, next, todo, handles, retired, high, delivered, refused>>

\* HindsightSidecar::open_scope, DELETE: 404 is the one tolerated failure.
Clear ==
    /\ pc = "clear"
    /\ \/ exists' = FALSE /\ bank' = {} /\ pc' = "create" /\ UNCHANGED runner
       \/ Fails(FALSE, {}) /\ OpenFails

\* open_scope, PUT
Create ==
    /\ pc = "create"
    /\ \/ exists' = TRUE /\ UNCHANGED <<bank, runner>> /\ pc' = "claim"
       \/ Fails(TRUE, bank) /\ OpenFails

-----------------------------------------------------------------------------
(* Claims                                                                  *)

\* retire_expired, and the claims it has to name to the service
ExpiredAt(now) == SelectSeq(case.claims, LAMBDA c : c.id \in Admitted /\ Expired(c, now))
Due(seq) == SelectSeq([i \in DOMAIN seq |-> seq[i].id], LAMBDA id : id \in handles)

\* The next claim: what has expired at its record time is retired first.
NextClaim ==
    /\ pc = "claim" /\ next <= Len(case.claims)
    /\ LET gone == ExpiredAt(case.claims[next].at)
       IN  todo' = Due(gone) /\ retired' = retired \cup {c.id : c \in ToSet(gone)}
    /\ pc' = "retain"
    /\ UNCHANGED <<case, run, next, handles, high, exists, bank, delivered, refused, result>>

Fact(id, part, live) == [claim |-> id, part |-> part, run |-> run, live |-> live]

\* HindsightSidecar::retire: the fact the handle names is invalidated.
Invalidated(id) ==
    {IF f.claim = id /\ f.part = 1 THEN [f EXCEPT !.live = FALSE] ELSE f : f \in bank}

Retire ==
    /\ todo # <<>>
    /\ \/ /\ bank' = Invalidated(Head(todo)) /\ exists' = exists
          /\ todo' = Tail(todo)
          /\ handles' = handles \ {Head(todo)} /\ retired' = retired \cup {Head(todo)}
          /\ UNCHANGED <<case, run, next, high, delivered, refused, result, pc>>
       \/ Fails(exists, Invalidated(Head(todo))) /\ Abort

\* HindsightSidecar::retain: POST, then the first fact of the document is
\* the handle.  The POST and the listing may fail.
Retain ==
    /\ pc = "retain" /\ todo = <<>>
    /\ LET id == case.claims[next].id
       IN  \E parts \in {1, 2} :
             LET kept == bank \cup {Fact(id, k, TRUE) : k \in 1..parts}
             IN  \/ /\ bank' = kept /\ exists' = exists
                    /\ handles' = handles \cup {id}
                    /\ next' = next + 1 /\ pc' = "supersede"
                    /\ UNCHANGED <<case, run, todo, retired, high, delivered, refused, result>>
                 \/ Fails(exists, kept) /\ Abort

\* The claim that this one replaces, whether it has been admitted or not.
Supersede ==
    /\ pc = "supersede"
    /\ LET target == case.claims[next - 1].supersedes
       IN  /\ todo' = IF target \in handles THEN <<target>> ELSE <<>>
           /\ retired' = retired \cup ({target} \ {NoClaim})
    /\ pc' = "evict"
    /\ UNCHANGED <<case, run, next, handles, high, exists, bank, delivered, refused, result>>

\* while handles.len() > max_entries: the oldest held claim goes.
Evict ==
    /\ pc = "evict" /\ todo = <<>>
    /\ LET held == SelectSeq(case.claims, LAMBDA c : c.id \in handles)
           over == Len(held) > MaxEntries
       IN  /\ todo' = IF over THEN <<held[1].id>> ELSE <<>>
           /\ pc' = IF over THEN "evict" ELSE "claim"
           /\ high' = IF over \/ high > Len(held) THEN high ELSE Len(held)
    /\ UNCHANGED <<case, run, next, handles, retired, exists, bank, delivered, refused, result>>

\* All claims are in: what is expired, or recorded later than the query, is
\* retired before it is asked.
Settle ==
    /\ pc = "claim" /\ next > Len(case.claims)
    /\ LET gone == ExpiredAt(case.now)
           future == SelectSeq(case.claims, LAMBDA c : c.at > case.now)
       IN  /\ todo' = Due(gone \o future)
           /\ retired' = retired \cup {c.id : c \in ToSet(gone \o future)}
    /\ pc' = "recall"
    /\ UNCHANGED <<case, run, next, handles, high, exists, bank, delivered, refused, result>>

-----------------------------------------------------------------------------
(* Recall                                                                  *)

\* What the service may answer with: a fact of the scope, whole or
\* rewritten, with the actor or without, or something of its own.
Answers ==
    LET of(f) == {[claim |-> f.claim, run |-> f.run, bytes |-> b, actor |-> a] :
                    b \in {Claim(f.claim).bytes, Rewritten},
                    a \in {Claim(f.claim).actor, NoActor}}
    IN  UNION {of(f) : f \in bank}
            \cup {[claim |-> NoClaim, run |-> run, bytes |-> Rewritten, actor |-> NoActor]}

\* narrow_to_scope: an item that names no actor passes every query.
NarrowToScope(items) ==
    LET own == SelectSeq(items, LAMBDA i : i.actor = NoActor \/ i.actor = case.actor)
    IN  SubSeq(own, 1, IF Len(own) < Limit THEN Len(own) ELSE Limit)

\* The loop over the items of an answer, for the first item of a claim.
Verdict(item) ==
    CASE item.claim \notin Admitted -> "unknown"
      [] item.claim \in retired -> "removed"
      [] ~ClaimInScope(Claim(item.claim)) -> "out_of_scope"
      [] OTHER -> "accepted"

First(items) ==
    LET fresh == {i \in DOMAIN items : \A j \in 1..(i - 1) : items[j].claim # items[i].claim}
        order == SetToSortSeq(fresh, <)
    IN  [k \in DOMAIN order |-> items[order[k]]]

Recall ==
    /\ pc = "recall" /\ todo = <<>> /\ UNCHANGED <<exists, bank>>
    /\ \/ \E items \in SeqOf(Answers, MaxAnswer) :
            LET once == First(NarrowToScope(items))
                accepted == SelectSeq(once, LAMBDA i : Verdict(i) = "accepted")
            IN  /\ delivered' = BoundedPrefix(accepted, case.charged)
                /\ refused' = SelectSeq(once, LAMBDA i : Verdict(i) # "accepted")
                /\ pc' = "close" /\ result' = "measured"
                /\ UNCHANGED <<case, run, next, todo, handles, retired, high>>
       \/ Abort

\* close_scope, and the four ways run_sidecar_case reports
Close ==
    /\ pc = "close" /\ pc' = "done"
    /\ \/ exists' = FALSE /\ bank' = {} /\ result' = result
       \/ /\ Fails(FALSE, {})
          /\ result' = IF result = "measured" THEN "close" ELSE "cleanup"
    /\ UNCHANGED <<case, run, next, todo, handles, retired, high, delivered, refused>>

\* The same case is measured again, on whatever the service still holds.
Rerun ==
    /\ pc = "done" /\ run < MaxRuns /\ run' = run + 1
    /\ pc' = "clear" /\ next' = 1 /\ todo' = <<>> /\ handles' = {} /\ retired' = {}
    /\ high' = 0 /\ delivered' = <<>> /\ refused' = <<>> /\ result' = "none"
    /\ UNCHANGED <<case, exists, bank>>

Next ==
    \/ Clear \/ Create \/ NextClaim \/ Retire \/ Retain \/ Supersede \/ Evict
    \/ Settle \/ Recall \/ Close \/ Rerun

Spec == Init /\ [][Next]_vars

-----------------------------------------------------------------------------
(* The runtime's side: write_case_claims and run_case                      *)

Mem(s) == INSTANCE WorkingMemory WITH
    entries <- s.entries, links <- s.links, nextId <- s.nextId, clock <- 0, declared <- {},
    EventIds <- {}, Topics <- {}, Sources <- {}, WorkingTtl <- 1,
    MaxLinks <- 9, MaxLinksPerMemory <- 3, MaxEvidence <- 1,
    MaxBackfill <- 0, MaxTime <- 0, MaxWrites <- 9

Declared(id) == {id} \ {NoClaim}

\* write_case_claims: the first write that the store refuses ends the case.
Writing(s, claim) ==
    LET old == Declared(claim.supersedes)
        why == Declared(claim.cause)
        e == Mem(s)!NewEntry(claim.id, [class |-> "chat", actor |-> claim.actor],
                                claim.topic, claim.at, TRUE)
        es == Mem(s)!Push(s.entries, e)
    IN  IF ~s.ok \/ ~(\A v \in old \cup why : Mem(s)!Resolvable(v, claim.at))
        THEN [s EXCEPT !.ok = FALSE]
        ELSE IF ~Mem(s)!Fits(old, why, claim.at) THEN [s EXCEPT !.ok = FALSE]
        ELSE [s EXCEPT
                !.entries = es,
                !.links = Mem(s)!LinkNew(Mem(s)!Prune(s.links, es), es, e,
                                            Mem(s)!Targets(old, claim.at),
                                            Mem(s)!Targets(why, claim.at)),
                !.nextId = @ + 1]

WriteCaseClaims(c) ==
    FoldLeft(Writing, [entries |-> <<>>, links |-> <<>>, nextId |-> 1, ok |-> TRUE], c.claims)

\* run_case: the context the runtime would hand to generation
RunCase(c) ==
    LET s == WriteCaseClaims(c)
        hits == Mem(s)!ContextFor(c.actor, c.topic, MaxItems, c.now)
        item(e) == [claim |-> e.event,
                    bytes |-> (CHOOSE x \in ToSet(c.claims) : x.id = e.event).bytes]
    IN  BoundedPrefix([i \in DOMAIN hits |-> item(hits[i])], c.charged)

\* retained_causal_edges: the stored edges between claims live at the query
RetainedCausalEdges(c) ==
    LET s == WriteCaseClaims(c)
        live == {e \in ToSet(s.entries) : e.exp > c.now /\ e.at <= c.now}
        name(id) == (CHOOSE e \in live : e.id = id).event
    IN  {<<name(l.from), name(l.to)>> :
            l \in {l \in ToSet(s.links) :
                     /\ l.kind = "caused_by" /\ l.at <= c.now
                     /\ {l.from, l.to} \subseteq {e.id : e \in live}}}

-----------------------------------------------------------------------------
(* Properties                                                              *)

Live == Admitted \ retired

TypeOK ==
    /\ pc \in {"clear", "create", "claim", "retain", "supersede", "evict", "recall",
               "close", "done"}
    /\ handles \subseteq Admitted
    /\ result \in {"none", "open", "failed", "measured", "close", "cleanup"}

\* Whatever the service answers - facts it was told to forget, other
\* viewers' claims, repeats, rewrites - what reaches the measured delivery
\* are claims admitted in this very run, live at the query, the asker's own,
\* once each, within the request's budget; everything else is on record as
\* refused (the acceptance loop of measure_case_in_scope).
Accountable ==
    pc \in {"close", "done"} =>
        /\ \A i \in DOMAIN delivered :
             LET c == Claim(delivered[i].claim)
             IN  /\ delivered[i].claim \in Live /\ delivered[i].run = run
                 /\ c.actor = case.actor /\ c.at <= case.now /\ ~Expired(c, case.now)
                 /\ \A j \in DOMAIN delivered : i # j => delivered[i].claim # delivered[j].claim
        /\ \A i \in DOMAIN refused :
             \A j \in DOMAIN delivered : refused[i].claim # delivered[j].claim

\* When the query is made the service has been told everything: the fact it
\* named for a claim is live exactly when the runner still holds that
\* claim's handle, and no more handles are held than the store would keep.
\* A claim that was superseded before it was admitted keeps its handle.
ServiceTold ==
    pc = "recall" /\ todo = <<>> =>
        /\ {f.claim : f \in {f \in bank : f.part = 1 /\ f.live}} = handles
        /\ Cardinality(handles) <= MaxEntries /\ high <= MaxEntries
        /\ \A id \in handles : Claim(id).at <= case.now /\ ~Expired(Claim(id), case.now)

\* A scope that still holds claims after a measurement is reported: the
\* outcome is never a plain measurement or a plain failure
\* (run_sidecar_case).
NothingLeftSilently ==
    pc = "done" /\ bank # {} => result \in {"open", "close", "cleanup"}

\* A measurement never starts on, nor sees, what an earlier run left in the
\* scope: opening clears it or stops (HindsightSidecar::open_scope).
FreshScope ==
    pc \notin {"clear", "done"} => \A f \in bank : f.run = run

\* The service is never told to forget what the runtime's store still
\* delivers, when the case records nothing after the query; and without
\* supersessions both sides hold the same claims ("the sidecar is told to
\* forget what the store would already have removed").
KeepsStoreLive ==
    pc = "recall" /\ todo = <<>> /\ WriteCaseClaims(case).ok =>
        LET store == {e.event : e \in {e \in ToSet(WriteCaseClaims(case).entries) :
                                          e.exp > case.now /\ e.at <= case.now}}
            shown == {i.claim : i \in ToSet(RunCase(case))}
        IN  /\ (\A c \in ToSet(case.claims) : c.at <= case.now) => shown \subseteq Live
            /\ (\A c \in ToSet(case.claims) : c.supersedes = NoClaim) => Live = store

\* Both sides always hold the same claims.  It fails in two ways: the store
\* counts a superseded claim against max_entries and the runner does not,
\* and a correction recorded after the query already retires its target at
\* the service while the store still delivers it.
ViewsAgree ==
    pc = "recall" /\ todo = <<>> /\ WriteCaseClaims(case).ok =>
        {i.claim : i \in ToSet(RunCase(case))}
            = {id \in Live : ClaimInScope(Claim(id)) /\ Claim(id).bytes <= MaxText}

\* A claim without an actor "is shared with every viewer" for the adapter
\* (hindsight.rs:324-326).  It fails: the runner refuses it as out of scope.
SharedRecalled ==
    \A i \in DOMAIN refused : refused[i].claim \in Live => Claim(refused[i].claim).actor # NoActor

\* Every explicit cause the runtime keeps was declared by the case, so that
\* a report of it stays within what validate_case allows.
EdgesDeclared ==
    pc = "recall" /\ WriteCaseClaims(case).ok =>
        \A e \in RetainedCausalEdges(case) : Claim(e[1]).cause = e[2]
=============================================================================
