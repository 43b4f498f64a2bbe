---------------------------- MODULE MCScheduler ----------------------------
(***************************************************************************)
(* Small instances of Scheduler for TLC.  The plans are chosen so that     *)
(* every pair of them meets in some way: shared channels, exclusivity,     *)
(* a reused asset, a reused event, safe points and equal or unequal        *)
(* priority.                                                               *)
(***************************************************************************)
EXTENDS Scheduler

CONSTANTS audio, face, e1, e2, e3, e4, a1, a2, a3, a4

MCEvents   == {e1, e2, e3, e4}
MCAssets   == {a1, a2, a3, a4}
MCChannels == {audio, face}

Plan(event, asset, rank, points, delay, duration, exclusive, channels) ==
    [event |-> event, asset |-> asset, rank |-> rank,
     interruptible |-> points # {}, points |-> points, start |-> delay,
     duration |-> duration, gen |-> 0, exclusive |-> exclusive,
     channels |-> channels]

\* A talk that may be left after 1 or 2, a game reaction on both channels, a
\* background idle on the face, an operator cue and a delayed second talk.
MCPlans ==
    {Plan(e1, a1, 3, {1, 2}, 0, 3, FALSE, {audio}),
     Plan(e2, a2, 2, {}, 0, 2, FALSE, {audio, face}),
     Plan(e3, a3, 5, {}, 1, 1, FALSE, {face}),
     Plan(e4, a4, 0, {}, 0, 1, TRUE, {}),
     Plan(e3, a2, 3, {1}, 1, 2, FALSE, {audio})}

\* Two performances of one asset, the second one delayed.
MCPlansSameAsset ==
    {Plan(e1, a1, 3, {1, 2}, 0, 3, FALSE, {audio}),
     Plan(e3, a1, 3, {1}, 1, 2, FALSE, {audio})}

MCPlansFew ==
    {Plan(e1, a1, 3, {1, 2}, 0, 3, FALSE, {audio}),
     Plan(e2, a2, 2, {}, 0, 2, FALSE, {audio, face}),
     Plan(e3, a1, 5, {}, 1, 1, FALSE, {face})}

MCCallTimes == 0..4

\* Times for callers that may be late: early, adjacent and far apart.
MCCallTimesLate == {0, 1, 2, 4}
=============================================================================
