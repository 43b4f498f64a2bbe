---------------------------- MODULE MCGenerative ----------------------------
(***************************************************************************)
(* Small instances of what surrounds generation, side by side: the budget  *)
(* governor, the shadow orchestrator, the shadow evidence, the making of a  *)
(* request, the search for the candidates offered with it and the          *)
(* compiling of streamed speech.  In a behaviour one part moves: the       *)
(* states are the sum of theirs.                                           *)
(***************************************************************************)
EXTENDS Integers, Sequences, FiniteSets

CONSTANTS
    Parts,   \* the parts that may move
    \* BudgetGovernor
    Reservations, MaxConcurrent, CallLimit, AmountLimit, Interval, ReservePercent,
    ChargeShadow, Amounts, BudgetTime, MaxDenials,
    \* ShadowOrchestrator
    Keys, Workers, QueueCapacity, ShadowEvents,
    \* SpeechCompiler
    Refs, Durations, Kinds, MaxChunks

VARIABLES
    part,
    \* BudgetGovernor
    now, place, slot, charged, inFlight, calls, chars, degraded, denied,
    grants, spent,
    \* ShadowOrchestrator
    keyOf, newest, staged, comp, queue, closed, lock, live, cancelled, wpc,
    wjob, wrecord, mailbox, shuttingDown, pending, running, awaiting,
    submitted, completed, lost,
    \* ShadowEvidence, in two instances
    batch,
    \* RoutePlanning
    memory, event, route, fallback,
    \* the search of a semantic index
    assets, query, topK, found,
    \* SpeechCompiler
    sent, progress, session, ended, outcome

budgetVars == <<now, place, slot, charged, inFlight, calls, chars,
                degraded, denied, grants, spent>>
shadowVars == <<keyOf, newest, staged, comp, queue, closed, lock, live,
                cancelled, wpc, wjob, wrecord, mailbox, shuttingDown,
                pending, running, awaiting, submitted, completed, lost>>
evidenceVars == <<batch>>
routeVars == <<memory, event, route, fallback>>
retrievalVars == <<assets, query, topK, found>>
speechVars == <<sent, progress, session, ended, outcome>>

----------------------------------------------------------------------------
ASSUME PartsAssumption ==
    Parts \subseteq {"budget", "shadow", "evidence", "joins", "route", "offers", "speech"}

Budget == INSTANCE BudgetGovernor WITH MaxTime <- BudgetTime
ASSUME BudgetAssumption == Budget!PolicyAssumption /\ Budget!BoundAssumption

Shadow == INSTANCE ShadowOrchestrator WITH
    MaxEvents <- ShadowEvents, inFlight <- running
ASSUME ShadowAssumption == Shadow!ConfigAssumption /\ Shadow!BoundAssumption

(* Every pair of decisions, and an active decision whose shadow failed,    *)
(* in batches of up to two; one pair of each kind, in batches of mixed     *)
(* version, stamp and policy of up to three.                               *)
Made == INSTANCE ShadowEvidence WITH
    Outcomes <- {}, Configs <- {}, Keys <- {}, Versions <- {}, CaseLimit <- 0, MaxRecords <- 0
Decisions ==
    {Made!ActiveDecision(r, t, p) : r \in Made!PlannerRoutes,
        t \in {Made!None, "template_missing"}, p \in {Made!None, "timeout"}}
AllOutcomes == (Decisions \X Decisions) \cup (Decisions \X {Made!Failed})
FewOutcomes ==
    LET decision(r, t) == Made!ActiveDecision(r, Made!None, t)
    IN  {<<decision("silent", Made!None), decision("silent", Made!None)>>,
         <<decision("asset_a", Made!None), decision("asset_a", "timeout")>>,
         <<decision("generate", Made!None), Made!Failed>>}
Every == INSTANCE ShadowEvidence WITH
    Outcomes <- AllOutcomes, Configs <- {}, Keys <- {"k"}, Versions <- {"current"},
    CaseLimit <- 1, MaxRecords <- 2
Mixed == INSTANCE ShadowEvidence WITH
    Outcomes <- FewOutcomes, Configs <- {"one", "two"}, Keys <- {"k", "l"},
    Versions <- {"current", "older"}, CaseLimit <- 1, MaxRecords <- 3
ASSUME EvidenceAssumption == Every!ShadowEvidenceAssumption /\ Mixed!ShadowEvidenceAssumption

(* Templates filled with fields of every kind, requests at the edge of     *)
(* their bounds with up to three claims, one of them too large and one     *)
(* under an event id that is no label.                                     *)
Pack ==
    [t \in {"thanks", "greet"} |->
        IF t = "thanks"
        THEN [text |-> <<"{", "n", "}", "x", "{", "c", "}">>, slots |-> <<"n", "c">>]
        ELSE [text |-> <<"x", "_">>, slots |-> <<>>]]
Names == {<<>>, <<"x">>, <<"_", "x">>, <<"^", "_">>, <<"{", "c", "}">>, <<"}", "{">>,
          <<"x", "x", "x", "x">>}
Payloads ==
    {[f \in {"n", "c"} |-> IF f = "n" THEN n ELSE c] :
        n \in Names, c \in {<<"x">>, <<"{", "n", "}">>}}
      \cup {[f \in {"n"} |-> <<"x">>], [f \in {"c"} |-> <<"x">>]}
Asked(action, template, payload, id, source, text) ==
    [id |-> id, source |-> source, action |-> action, template |-> template,
     payload |-> payload, text |-> text, label |-> <<1, 1>>]
SomeEvents ==
    {Asked("template", "thanks", p, 1, "donation", <<>>) : p \in Payloads}
      \cup {Asked("template", t, <<>>, 1, "donation", <<>>) : t \in {"greet", "lost"}}
      \cup {Asked("llm", "none", <<>>, id, s, text) : id \in {1, 3},
              s \in {"public_chat", "operator", "game"}, text \in {<<>>, <<2, 3>>, <<3, 3, 1>>}}
      \cup {Asked("silent", "none", <<>>, 1, "game", <<>>)}
Claim(id, bytes, source, trust, bound) ==
    [id |-> id, bytes |-> bytes, source |-> source, trust |-> trust, bound |-> bound]
SomeClaims ==
    {Claim(1, 2, "public_chat", "untrusted", TRUE), Claim(2, 3, "system", "trusted", TRUE),
     Claim(2, 3, "speech", "trusted", FALSE), Claim(1, 6, "operator", "trusted", TRUE),
     Claim(3, 1, "game", "untrusted", TRUE)}
Route == INSTANCE RoutePlanning WITH
    Templates <- Pack, Events <- SomeEvents, Claims <- SomeClaims, MaxSlots <- 2,
    MaxSlotBytes <- 3, MaxRender <- 4, MaxText <- 5, MaxContext <- 9, MaxItems <- 2,
    MaxLabel <- 2, MaxClaims <- 3
ASSUME RouteAssumption == Route!RouteAssumption

Index == INSTANCE Retrieval WITH Bits <- 9, Unit <- 65536

Speech == INSTANCE SpeechCompiler
ASSUME SpeechAssumption == Speech!SpeechAssumption

----------------------------------------------------------------------------
(* The semantic index, one search per behaviour: every index of up to two  *)
(* assets in three dimensions, equal ids included (unequal payloads stand  *)
(* behind them: asset is the position it had), and one query of each       *)
(* shape, the others being their mirror images.                            *)
Vectors == {v \in [1 .. 3 -> -1 .. 1] : Index!ValidVector(v, 3)}

NoSearch == assets = <<>> /\ query = <<1, 0, 0>> /\ topK = 1 /\ found = <<>>

SearchInit ==
    /\ \E n \in 1 .. 2 : \E ids \in [1 .. n -> {1, 2}], embeddings \in [1 .. n -> Vectors] :
          assets = [i \in 1 .. n |-> [id |-> ids[i], asset |-> i, embedding |-> embeddings[i]]]
    /\ query \in {<<1, 0, 0>>, <<1, 1, 0>>, <<1, 1, 1>>}
    /\ topK \in 1 .. 2
    /\ found = <<>>

SearchNext ==
    /\ found = <<>>
    /\ found' = Index!Search(assets, query, topK)
    /\ UNCHANGED <<assets, query, topK>>

----------------------------------------------------------------------------
Init ==
    /\ part \in Parts
    /\ Budget!Init
    /\ Shadow!Init
    /\ Every!Init
    /\ Route!Init
    /\ IF part = "offers" THEN SearchInit ELSE NoSearch
    /\ Speech!Init

Next ==
    /\ UNCHANGED part
    /\ \/ part = "budget" /\ Budget!Next
          /\ UNCHANGED <<shadowVars, evidenceVars, routeVars, retrievalVars, speechVars>>
       \/ part = "shadow" /\ Shadow!Next
          /\ UNCHANGED <<budgetVars, evidenceVars, routeVars, retrievalVars, speechVars>>
       \/ part = "evidence" /\ Every!Next
          /\ UNCHANGED <<budgetVars, shadowVars, routeVars, retrievalVars, speechVars>>
       \/ part = "joins" /\ Mixed!Next
          /\ UNCHANGED <<budgetVars, shadowVars, routeVars, retrievalVars, speechVars>>
       \/ part = "route" /\ Route!Next
          /\ UNCHANGED <<budgetVars, shadowVars, evidenceVars, retrievalVars, speechVars>>
       \/ part = "offers" /\ SearchNext
          /\ UNCHANGED <<budgetVars, shadowVars, evidenceVars, routeVars, speechVars>>
       \/ part = "speech" /\ Speech!Next
          /\ UNCHANGED <<budgetVars, shadowVars, evidenceVars, routeVars, retrievalVars>>

Spec == Init /\ [][Next]_<<part, budgetVars, shadowVars, evidenceVars, routeVars,
                           retrievalVars, speechVars>>

----------------------------------------------------------------------------
(* What an offer promises, said without sorting: the assets offered are the   *)
(* first of their id in the input; nothing left out is more similar than the  *)
(* last one offered, and as many are offered as there are, up to topK; the    *)
(* more similar comes first and equal ones come by id (the tie break rule     *)
(* the index states in its metadata).                                         *)
OfferSound ==
    LET score(i) == Index!Similarity(query, assets[i].embedding)
        first == {i \in DOMAIN assets : \A j \in 1 .. i - 1 : assets[j].id # assets[i].id}
        offered == {found[r].asset : r \in DOMAIN found}
    IN  found # <<>> =>
           /\ offered \subseteq first
           /\ Cardinality(offered) = Len(found)
           /\ Len(found) = topK \/ (Len(found) < topK /\ offered = first)
           /\ \A i \in offered, j \in first \ offered :
                 \/ score(i) > score(j)
                 \/ score(i) = score(j) /\ assets[i].id < assets[j].id
           /\ \A r \in 1 .. Len(found) - 1 :
                 \/ found[r].similarity > found[r + 1].similarity
                 \/ /\ found[r].similarity = found[r + 1].similarity
                    /\ found[r].id < found[r + 1].id

(* Rounding never turns a match around: an asset that points the same way as  *)
(* the query is more similar than one at an acute or wider angle that the     *)
(* coordinates can express, and an opposite one is the least similar.         *)
Parallel(v, w) == \A i, j \in 1 .. 3 : v[i] * w[j] = v[j] * w[i]
DirectionKept ==
    \A r, s \in DOMAIN found :
        LET v == assets[found[r].asset].embedding
            w == assets[found[s].asset].embedding
        IN  Parallel(query, v) /\ ~Parallel(query, w) =>
               IF Index!Dot(query, v) > 0 THEN r < s ELSE s < r

(* The check of the request (context.rs:102) that every similarity the index  *)
(* reports lies between -1 and 1.                                             *)
OfferAccepted == found # <<>> => Index!SnapshotValid(found, 2)

\* A reservation's slot is returned exactly once, whoever ends it, and calls
\* leave the window when their interval is over (budget.rs).
BudgetSound ==
    part = "budget" => /\ Budget!SlotsExact /\ Budget!ConcurrencyBounded
                       /\ Budget!CallsRoll

\* The ledger of characters rolls like the ledger of calls.
CharsRoll == part = "budget" => Budget!CharsRoll

\* The gauges count what there is, a chain's newest job keeps its entry, and
\* a shutdown leaves no job behind (shadow_orchestrator.rs).
ShadowSound ==
    part = "shadow" => /\ Shadow!GaugesExact /\ Shadow!RegistryLive
                       /\ Shadow!CurrentKeepsEntry /\ Shadow!ShutdownLeavesNothing

\* What was superseded is never drained as evidence (shadow_orchestrator.rs).
NoStaleEvidence == [][part = "shadow" => Shadow!PublishesFresh]_shadowVars

\* Agreement needs evidence on both sides, classification takes no side, what
\* cannot be compared does not move the rate, and batches of two bounds or
\* identities are never joined (shadow_evidence.rs).
EvidenceSound ==
    /\ part = "evidence" => /\ Every!ClassSymmetric /\ Every!AgreementIsEvidenced
                            /\ Every!RateOverComparable
    /\ part = "joins" => Mixed!JoinRefused

\* What is sent to a provider fits its bounds with whole claims in rank order,
\* no placeholder is spoken (routing.rs, memory_context.rs), the candidates
\* offered are the best there are, what points the query's way first
\* (retrieval.rs), and an asset is made only of speech that was announced to
\* its end, whoever checks the stream (generative/src/lib.rs).
RequestsSound ==
    /\ part = "route" => /\ Route!NoPlaceholderSpoken /\ Route!SlotsIndependent
                         /\ Route!ContextFits /\ Route!CutWhole
    /\ part = "offers" => OfferSound /\ DirectionKept
    /\ part = "speech" => /\ Speech!CheckersAgree /\ Speech!SpeechAnnounced
                          /\ Speech!PartialNeverAsset
=============================================================================
