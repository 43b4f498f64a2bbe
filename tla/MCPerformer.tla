---------------------------- MODULE MCPerformer -----------------------------
(***************************************************************************)
(* Small instances of what decides and performs, side by side: playback,   *)
(* the task plane and the reflex call, each in several instances.  In a    *)
(* behaviour one part moves.                                               *)
(***************************************************************************)
EXTENDS Integers, Sequences

CONSTANTS
    NoTrack,
    \* The limits and bounds of a module, one record per instance.
    PlayLimits, TaskLimits, CallLimits

VARIABLES
    part,
    limits,   \* the instance of the part that moves, where it has several
    \* Playback
    issued, window, now, pending, muted, recent, touched, plays, asked,
    plan, reach, sent, silenced,
    \* TaskPlane
    active, retained, tools, evidence, created,
    \* Reflex
    clock, request, pc, started, attempts, until, status, answer, naps,
    token, result, future, slot, waker, scheduled, executed, posts, late

playbackVars == <<issued, window, now, pending, muted, recent, touched,
                  plays, asked, plan, reach, sent, silenced>>
taskVars == <<active, retained, tools, evidence, created>>
reflexVars == <<clock, request, pc, started, attempts, until, status,
                answer, naps, token, result, future, slot, waker,
                scheduled, executed, posts, late>>

----------------------------------------------------------------------------
(* Speech with a cue at its end and an expression later than the speech:   *)
(* slowed down by half, the two roundings of the last cue differ from the  *)
(* rounding of the duration.  For the variants, short gestures of two      *)
(* groups, and an asset without any track.                                 *)
Talk == [id |-> "talk", group |-> "greet", speech |-> 1, length |-> 3, cues |-> {1, 3},
         expression |-> 2, gesture |-> NoTrack, gaze |-> 0, points |-> {2}]
Nod == [id |-> "nod", group |-> "greet", speech |-> NoTrack, length |-> 0, cues |-> {},
        expression |-> NoTrack, gesture |-> 0, gaze |-> NoTrack, points |-> {3}]
Short(id, group) ==
    [id |-> id, group |-> group, speech |-> NoTrack, length |-> 0, cues |-> {},
     expression |-> NoTrack, gesture |-> 0, gaze |-> NoTrack, points |-> {}]
Variants ==
    {Short("hi", "greet"), Short("hey", "greet"), Short("wave", "bye"),
     [Short("bare", "bye") EXCEPT !.gesture = NoTrack]}
PlayInstances ==
    {[assets |-> {Talk, Nod}, speeds |-> {150}, delays |-> {0}, slip |-> 1, lateness |-> 1,
      gap |-> 2, recent |-> 1, groups |-> 1, issued |-> 2, time |-> 6],
     [assets |-> Variants, speeds |-> {100}, delays |-> {0}, slip |-> 0, lateness |-> 1,
      gap |-> 1, recent |-> 1, groups |-> 1, issued |-> 4, time |-> 1]}
Player(c) == INSTANCE Playback WITH
    Assets <- c.assets, Speeds <- c.speeds, Delays <- c.delays, Slip <- c.slip,
    Lateness <- c.lateness, Gap <- c.gap, RecentWindow <- c.recent,
    MaxGroups <- c.groups, MaxIssued <- c.issued, TimeMax <- c.time
ASSUME PlayAssumption == \A c \in PlayLimits : Player(c)!PlaybackAssumption

(* One task with two tools in flight, of two steps that are replanned or   *)
(* of one that is retried too; two tasks that expire.                      *)
TaskInstances ==
    {[tasks |-> {1}, times |-> {0}, steps |-> 2, observations |-> 1, retries |-> 0,
      replans |-> 1, lifetime |-> 2, ttl |-> 1, active |-> 1, retained |-> 1,
      created |-> 1, tools |-> 2, reuse |-> FALSE],
     [tasks |-> {1}, times |-> {0}, steps |-> 1, observations |-> 1, retries |-> 1,
      replans |-> 1, lifetime |-> 2, ttl |-> 1, active |-> 1, retained |-> 1,
      created |-> 1, tools |-> 2, reuse |-> FALSE],
     [tasks |-> {1, 2}, times |-> 0..2, steps |-> 1, observations |-> 1, retries |-> 0,
      replans |-> 0, lifetime |-> 2, ttl |-> 1, active |-> 2, retained |-> 1,
      created |-> 2, tools |-> 0, reuse |-> TRUE]}
Plane(c) == INSTANCE TaskPlane WITH
    Tasks <- c.tasks, Times <- c.times, MaxSteps <- c.steps,
    MaxObservations <- c.observations, MaxRetries <- c.retries, MaxReplans <- c.replans,
    Lifetime <- c.lifetime, Ttl <- c.ttl, MaxActive <- c.active,
    MaxRetained <- c.retained, MaxCreated <- c.created, MaxTools <- c.tools,
    ReuseIds <- c.reuse
ASSUME TaskAssumption == \A c \in TaskLimits : Plane(c)!TaskAssumption

(* Retries up to the deadline with one answer; every answer, valid or not, *)
(* complete or not: 3 is outside the unit interval, "z" was never offered. *)
Silence == [given |-> {}, route |-> "silent", confidence |-> 0, reuse |-> 0, pick |-> "none"]
AllQuestions ==
    {"response_route", "reaction_family", "gesture_family", "attention_target", "interrupt",
     "cache_reuse", "importance", "emotion_intensity", "selected_candidate"}
OneBody ==
    {Silence, [given |-> AllQuestions, route |-> "cached", confidence |-> 2, reuse |-> 2,
               pick |-> "a"]}
ManyBodies ==
    {Silence} \cup
    [given : {AllQuestions, AllQuestions \ {"selected_candidate"}, AllQuestions \ {"interrupt"}},
     route : {"cached", "llm", "other"}, confidence : {0, 2, 3}, reuse : {1, 2},
     pick : {"none", "a", "b", "z"}]
CallInstances ==
    {[attempts |-> 3, deadline |-> 4, candidates |-> 1, backoffs |-> {0, 1},
      budgets |-> {0, 9}, rankings |-> {<<"a">>}, reuse |-> 2, confidence |-> 1,
      bodies |-> OneBody, clock |-> 5],
     [attempts |-> 1, deadline |-> 2, candidates |-> 1, backoffs |-> {0},
      budgets |-> {0, 9}, rankings |-> {<<>>, <<"a">>, <<"a", "b">>}, reuse |-> 2,
      confidence |-> 1, bodies |-> ManyBodies, clock |-> 2]}
Call(c) == INSTANCE Reflex WITH
    MaxAttempts <- c.attempts, Deadline <- c.deadline, MaxCandidates <- c.candidates,
    Backoffs <- c.backoffs, Budgets <- c.budgets, Rankings <- c.rankings,
    ReuseThreshold <- c.reuse, MinConfidence <- c.confidence, Bodies <- c.bodies,
    MaxClock <- c.clock
ASSUME CallAssumption == \A c \in CallLimits : Call(c)!ConfigAssumption

(* Where no call is made.                                                  *)
NoRequest ==
    [caller |-> "pipeline", sound |-> TRUE, ranking |-> <<"a">>, budget |-> 0, backoff |-> 0]

----------------------------------------------------------------------------
Init ==
    /\ part \in {"player", "tasks", "calls"}
    /\ \E c \in PlayLimits : Player(c)!Init /\ (part = "player" => limits = c)
    /\ \E c \in TaskLimits : Plane(c)!Init /\ (part = "tasks" => limits = c)
    /\ \E c \in CallLimits : Call(c)!Init /\ (part = "calls" => limits = c)
    /\ part # "calls" => request = NoRequest

Next ==
    /\ UNCHANGED <<part, limits>>
    /\ \/ part = "player" /\ (\E c \in PlayLimits : c = limits /\ Player(c)!Next)
          /\ UNCHANGED <<taskVars, reflexVars>>
       \/ part = "tasks" /\ (\E c \in TaskLimits : c = limits /\ Plane(c)!Next)
          /\ UNCHANGED <<playbackVars, reflexVars>>
       \/ part = "calls" /\ (\E c \in CallLimits : c = limits /\ Call(c)!Next)
          /\ UNCHANGED <<playbackVars, taskVars>>

Spec == Init /\ [][Next]_<<part, limits, playbackVars, taskVars, reflexVars>>

----------------------------------------------------------------------------
\* A command goes out once, in time, inside its performance, never for a
\* performance that is over and never from behind a mute; an intent does not
\* repeat its last variant (app/src/lib.rs, cached_playback.rs).
PlaybackSound ==
    part = "player" => \A c \in PlayLimits : c = limits =>
        /\ Player(c)!AtMostOnce /\ Player(c)!NoStale /\ Player(c)!NoBacklog
        /\ Player(c)!CommandsDelivered /\ Player(c)!InsidePerformance
        /\ Player(c)!NoImmediateRepeat

\* Evidence is of the plan it is attached to, steps fit the state, an id names
\* one task, and expire settles what it walks past (task.rs, task_plane.rs).
TasksSound ==
    part = "tasks" => \A c \in TaskLimits : c = limits =>
        /\ Plane(c)!OneTaskPerId /\ Plane(c)!StepsMatchState /\ Plane(c)!ExpireSettles
        /\ c.reuse \/ Plane(c)!EvidenceCurrent

\* A tool that returns for an attempt that was left is stale, attempts do not
\* share a generation, and after expire nothing is active that was over
\* (tool_execution.rs, task.rs, task_plane.rs).
ToolsFenced ==
    [][part = "tasks" => \A c \in TaskLimits : c = limits =>
          Plane(c)!FencedStep /\ Plane(c)!AttemptsStep /\ Plane(c)!ExpireStep]_<<part, taskVars>>

\* Retries are earned and spaced and end with the token, an action was earned
\* by an answer, and what was asked is enough to answer (jev.rs, pipeline.rs).
ReflexSound ==
    part = "calls" => \A c \in CallLimits : c = limits =>
        /\ Call(c)!RetriesJustified /\ Call(c)!DropStopsPosts
        /\ Call(c)!ActionEarned /\ Call(c)!AskedIsEnough
=============================================================================
