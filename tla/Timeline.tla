------------------------------ MODULE Timeline ------------------------------
(***************************************************************************)
(* What the scheduler promises to everything that plays what it accepts:   *)
(* every accepted performance has a generation of its own and a window of  *)
(* the timeline; the window is fixed at its start, may be cut short at any *)
(* time, and once a generation is retired it never comes back.  Scheduler  *)
(* implements this (KeepsPromise); Playback relies on it.                  *)
(***************************************************************************)
EXTENDS Integers, FiniteSets

CONSTANT TimeMax

VARIABLES
    issued,   \* generations issued so far
    window    \* live generation -> the interval it holds

Windows == [from : 0..TimeMax, until : 0..TimeMax]

TimelineInit == issued = 0 /\ window = [g \in {} |-> 0]

\* At most one generation is issued, the survivors keep their start and are
\* not extended, and nothing else becomes live.
TimelineStep ==
    /\ issued' \in {issued, issued + 1}
    /\ DOMAIN window' \subseteq DOMAIN window \cup ((issued + 1)..issued')
    /\ \A g \in DOMAIN window' : window'[g] \in Windows
    /\ \A g \in DOMAIN window \cap DOMAIN window' :
           window'[g].from = window[g].from /\ window'[g].until <= window[g].until

TimelineSpec == TimelineInit /\ [][TimelineStep]_<<issued, window>>
=============================================================================
