----------------------------- MODULE MCLiveness -----------------------------
(***************************************************************************)
(* What must happen in the end, side by side: the operator's answer, the   *)
(* shadow job, the reflex call and the deferred event, each under the      *)
(* fairness of its module.  In a behaviour one part moves; the fairness of *)
(* a part is asked of it alone.                                            *)
(***************************************************************************)
EXTENDS Integers, Sequences

CONSTANTS k1, k2, Nobody, w1, w2

VARIABLES
    part,
    \* RuntimeLoop
    input, raw, conn, senders, dispatch, tokens, loopClock, loopPc, muted,
    granted, loopRequest, reply,
    \* ShadowOrchestrator
    keyOf, newest, staged, comp, queue, closed, lock, live, cancelled, wpc,
    wjob, wrecord, mailbox, shuttingDown, pending, running, awaiting,
    submitted, completed, lost,
    \* Reflex
    clock, request, pc, started, attempts, until, status, answer, naps,
    token, result, future, slot, waker, scheduled, executed, posts, late,
    \* EventPath
    planner, deferred, finished, telemetry, traces, audioError, fate

loopVars == <<input, raw, conn, senders, dispatch, tokens, loopClock,
              loopPc, muted, granted, loopRequest, reply>>
shadowVars == <<keyOf, newest, staged, comp, queue, closed, lock, live,
                cancelled, wpc, wjob, wrecord, mailbox, shuttingDown,
                pending, running, awaiting, submitted, completed, lost>>
reflexVars == <<clock, request, pc, started, attempts, until, status,
                answer, naps, token, result, future, slot, waker,
                scheduled, executed, posts, late>>
pathVars == <<planner, deferred, finished, telemetry, traces, audioError,
              fate>>

----------------------------------------------------------------------------
(* Two clients compete for one place in line, blank records in between.    *)
TwoClients == {k1, k2}
Asked(action, secret) == [action |-> action, secret |-> secret, wellFormed |-> TRUE]
TwoRequests == {Asked("mute", TRUE), Asked("stop", FALSE)}
Loop == INSTANCE RuntimeLoop WITH None <- Nobody,
    Connections <- TwoClients, Records <- {"blank", "content"}, Requests <- TwoRequests,
    Uptimes <- {0}, RawCapacity <- 1, DispatchCapacity <- 1, RateCapacity <- 1,
    clock <- loopClock, pc <- loopPc, request <- loopRequest
ASSUME Loop!RequestsAssumption /\ Loop!CapacityAssumption

(* Two workers on the jobs of one chain.                                   *)
OneKey == {k1}
TwoWorkers == {w1, w2}
Shadow == INSTANCE ShadowOrchestrator WITH
    Keys <- OneKey, Workers <- TwoWorkers, QueueCapacity <- 1, MaxEvents <- 2,
    inFlight <- running
ASSUME Shadow!ConfigAssumption /\ Shadow!BoundAssumption

(* Two attempts with a pause between them, called both ways.               *)
Silence == [given |-> {}, route |-> "silent", confidence |-> 0, reuse |-> 0, pick |-> "none"]
Complete ==
    [given |-> {"response_route", "reaction_family", "gesture_family", "attention_target",
                "interrupt", "cache_reuse", "importance", "emotion_intensity",
                "selected_candidate"},
     route |-> "cached", confidence |-> 2, reuse |-> 2, pick |-> "a"]
Bodies == {Silence, Complete}
Call == INSTANCE Reflex WITH
    MaxAttempts <- 2, Deadline <- 3, MaxCandidates <- 1, Backoffs <- {0, 1},
    Budgets <- {0, 2, 9}, Rankings <- {<<"a">>}, ReuseThreshold <- 2, MinConfidence <- 1,
    MaxClock <- 3
ASSUME Call!ConfigAssumption

(* Two events, one answer of the worker at a time.                         *)
Path == INSTANCE EventPath WITH
    MaxInputs <- 2, MaxEvents <- 1, MaxTraces <- 2, QueueCapacity <- 2
ASSUME Path!EventPathAssumption

(* Where no call is made.                                                  *)
NoRequest ==
    [caller |-> "pipeline", sound |-> TRUE, ranking |-> <<"a">>, budget |-> 0, backoff |-> 0]

----------------------------------------------------------------------------
Init ==
    /\ part \in {"loop", "shadow", "reflex", "events"}
    /\ Loop!Init
    /\ Shadow!Init
    /\ Call!Init
    /\ part = "reflex" \/ request = NoRequest
    /\ Path!Init

Next ==
    /\ UNCHANGED part
    /\ \/ part = "loop" /\ Loop!Next
          /\ UNCHANGED <<shadowVars, reflexVars, pathVars>>
       \/ part = "shadow" /\ Shadow!Next
          /\ UNCHANGED <<loopVars, reflexVars, pathVars>>
       \/ part = "reflex" /\ Call!Next
          /\ UNCHANGED <<loopVars, shadowVars, pathVars>>
       \/ part = "events" /\ Path!Next
          /\ UNCHANGED <<loopVars, shadowVars, reflexVars>>

Spec == Init /\ [][Next]_<<part, loopVars, shadowVars, reflexVars, pathVars>>

\* The threads of each component keep running (see Fairness of RuntimeLoop and
\* ShadowOrchestrator, LiveSpec of Reflex, FairSpec of EventPath).
Fairness ==
    /\ WF_loopVars(part = "loop" /\ Loop!LoopStep)
    /\ WF_loopVars(part = "loop" /\ Loop!Dispatch)
    /\ \A c \in TwoClients : WF_loopVars(part = "loop" /\ Loop!ConnectionLost(c))
    /\ \A w \in TwoWorkers : WF_shadowVars(part = "shadow" /\ Shadow!Worker(w))
    /\ WF_shadowVars(part = "shadow"
                       /\ (Shadow!Supersede \/ Shadow!CommitPush \/ Shadow!CommitNothing))
    /\ WF_shadowVars(part = "shadow" /\ (Shadow!DrainOne \/ Shadow!DrainEnd))
    /\ WF_shadowVars(part = "shadow"
                       /\ (Shadow!Close \/ Shadow!NotifyAll \/ Shadow!CancelAll \/ Shadow!Join))
    /\ WF_reflexVars(part = "reflex" /\ Call!Worker)
    /\ WF_reflexVars(part = "reflex" /\ Call!Poll)
    /\ WF_reflexVars(part = "reflex" /\ Call!Tick)
    /\ WF_pathVars(part = "events" /\ Path!WorkerCompletes)
    /\ WF_pathVars(part = "events" /\ Path!Tick)

FairSpec == Spec /\ Fairness

----------------------------------------------------------------------------
\* A request of an operator that waits for room or for the loop is answered,
\* or its connection closed, unless blank records keep the loop in its receive
\* for ever (main.rs).
OperatorAnswered == part = "loop" => Loop!OperatorAnswered

\* Every shadow job comes to its end; a reflex call returns and a future that
\* is kept becomes ready, no wake-up being lost (shadow_orchestrator.rs,
\* jev.rs).
WorkersFinish ==
    /\ part = "shadow" => Shadow!JobsFinish
    /\ part = "reflex" => Call!CallReturns /\ Call!FutureResolves

\* An event whose generation was deferred is recorded, or its commit failed
\* (app/src/lib.rs).
DeferredSettles == part = "events" => Path!DeferredSettles
=============================================================================
