------------------------------ MODULE Playback ------------------------------
(***************************************************************************)
(* From an accepted performance to the devices: CachedPerformer turns an   *)
(* asset into timed audio and avatar commands, ProductionApp keeps them    *)
(* and hands each one out when it falls due, if its performance is still   *)
(* live.  The scheduler is what Timeline promises: this module may take    *)
(* any TimelineStep where the code calls it.                               *)
(***************************************************************************)
EXTENDS Timeline, FiniteSetsExt, Sequences

CONSTANTS
    Assets,        \* the resolved assets that may be played
    Speeds,        \* speed factors of a variation, in percent
    Delays,        \* start delays of a variation
    Slip,          \* how much later than asked the scheduler may start a plan
    Lateness,      \* max_dispatch_lateness_ms
    Gap,           \* longest time between two calls into the app
    RecentWindow,  \* recent_variant_window
    MaxGroups,     \* max_recent_variant_groups
    MaxIssued,     \* bound: performances accepted in a behaviour
    NoTrack        \* stands for an absent track of an asset

\* An asset as far as playback reads it; offsets are in its own timeline.
\* `speech` is the marker speech.start, `length` the speech's duration, `cues`
\* the viseme track, the others are the markers of the other tracks.
AssetType ==
    [id : STRING, group : STRING,
     speech : Nat \cup {NoTrack}, length : Nat, cues : SUBSET Nat,
     expression : Nat \cup {NoTrack}, gesture : Nat \cup {NoTrack},
     gaze : Nat \cup {NoTrack}, points : SUBSET Nat]

PlaybackAssumption ==
    /\ Assets \subseteq AssetType /\ IsFiniteSet(Assets)
    /\ \A a \in Assets : IsFiniteSet(a.points)
    /\ \A a \in Assets : \A cue \in a.cues : cue <= a.length   \* VisemeTrack::validate
    /\ Speeds \subseteq Nat \ {0} /\ Delays \subseteq Nat
    /\ Slip \in Nat /\ Lateness \in Nat /\ Gap \in Nat \ {0}
    /\ RecentWindow \in Nat /\ MaxGroups \in Nat /\ MaxIssued \in Nat /\ TimeMax \in Nat

VARIABLES
    now,        \* time of the last call
    pending,    \* pending_audio and pending_avatar
    muted,      \* SecurityRuntime::is_muted
    recent,     \* recent_by_group: group -> the last assets played in it
    touched,    \* recent_group_touch: group -> the performance it was last touched by
    plays,      \* accepted performances and how they were asked for (history)
    asked,      \* every command that was queued (history)
    plan,       \* generation -> the window the scheduler accepted (history)
    reach,      \* generation -> how far it was let play (history)
    sent,       \* commands handed to a device, with the time (history)
    silenced    \* audio commands that fell due while muted (history)

app == <<now, pending, muted, recent, touched, plays, asked, plan, reach, sent, silenced>>
vars == <<issued, window, app>>

Init ==
    /\ TimelineInit
    /\ now = 0 /\ pending = {} /\ muted = FALSE
    /\ recent = [g \in {} |-> <<>>] /\ touched = [g \in {} |-> 0]
    /\ plays = <<>>
    /\ plan = [g \in {} |-> 0] /\ reach = [g \in {} |-> 0]
    /\ asked = {} /\ sent = {} /\ silenced = {}

-----------------------------------------------------------------------------
(* From an asset to commands.                                              *)

\* Round half up: offsets are not negative.
ScaleOffset(offset, speed) == (offset * speed + 50) \div 100

\* Markers other than the tracks' own are not modelled: the timeline ends at
\* the last of these.
Markers(a) == {a.speech, a.expression, a.gesture, a.gaze} \ {NoTrack}

AssetBaseDuration(a) ==
    Max({0} \cup Markers(a) \cup a.points
        \cup (IF a.speech = NoTrack THEN {} ELSE {a.speech + a.length}))

Duration(a, speed) == Max({1, ScaleOffset(Max({1, AssetBaseDuration(a)}), speed)})

Channels(a) ==
    (IF a.speech # NoTrack THEN {"audio"} ELSE {})
    \cup (IF a.expression # NoTrack \/ a.cues # {} THEN {"face"} ELSE {})
    \cup (IF a.gesture # NoTrack THEN {"body"} ELSE {})
    \cup (IF a.gaze # NoTrack THEN {"gaze"} ELSE {})

\* One command per track of the asset, and one per viseme cue after the speech.
DispatchAsset(a, gen, start, speed) ==
    LET at(offset) == start + ScaleOffset(offset, speed)
        track(kind, offset) ==
            IF offset = NoTrack THEN {}
            ELSE {[gen |-> gen, device |-> "avatar", kind |-> kind, at |-> at(offset)]}
    IN  (IF a.speech = NoTrack THEN {}
         ELSE {[gen |-> gen, device |-> "audio", kind |-> "speech", at |-> at(a.speech)]}
              \cup {[gen |-> gen, device |-> "avatar", kind |-> "viseme",
                     at |-> at(a.speech) + ScaleOffset(c, speed)] : c \in a.cues})
        \cup track("expression", a.expression)
        \cup track("gesture", a.gesture)
        \cup track("gaze", a.gaze)

-----------------------------------------------------------------------------
(* record_recent: a bounded least-recently-touched map of short queues.    *)

\* The group touched longest ago; every touch has a number of its own.
Victim == CHOOSE g \in DOMAIN touched : \A h \in DOMAIN touched : touched[g] <= touched[h]

\* The id behind the old ones, of which no more than the window are kept.
Remembered(old, id) ==
    LET new == Append(old, id)
    IN  SubSeq(new, Max({1, Len(new) - RecentWindow + 1}), Len(new))

RecordRecent(group, id) ==
    IF RecentWindow = 0 \/ MaxGroups = 0 THEN UNCHANGED <<recent, touched>>
    ELSE LET known == DOMAIN recent
             kept  == IF group \in known \/ Cardinality(known) < MaxGroups THEN known
                      ELSE known \ {Victim}
             old   == IF group \in known THEN recent[group] ELSE <<>>
         IN  /\ recent' = [g \in kept \cup {group} |->
                              IF g = group THEN Remembered(old, id) ELSE recent[g]]
             /\ touched' = [g \in kept \cup {group} |->
                               IF g = group THEN Len(plays) + 1 ELSE touched[g]]

-----------------------------------------------------------------------------
(* tick: the scheduler advances first, then the due commands are handed    *)
(* out.  A device that fails is not asked again, so its answer changes     *)
(* nothing here.                                                           *)

\* What advance_to(t) leaves of the windows w.
Advanced(w, t) == [g \in {h \in DOMAIN w : w[h].until > t} |-> w[g]]

\* Mutant: only the age of a command decides.
LiveByAge(c, w, t) == t - c.at <= Lateness

\* command_is_live; an item with no cancellation counts its own end.
CommandIsLive(c, w, t) ==
    t - c.at <= Lateness /\ c.gen \in DOMAIN w /\ c.at < w[c.gen].until

Keep(cmds, t) == {c \in cmds : c.at > t}

\* The tick at t of an app whose scheduler holds w and whose sinks hold cmds;
\* mute is decided before it.
Tick(w, cmds, t) ==
    LET live == {c \in cmds : c.at <= t /\ CommandIsLive(c, Advanced(w, t), t)}
        mute == {c \in live : muted' /\ c.device = "audio"}
    IN  /\ window' = Advanced(w, t)
        /\ sent' = sent \cup {[cmd |-> c, time |-> t] : c \in live \ mute}
        /\ silenced' = silenced \cup mute
        /\ pending' = Keep(cmds, t)
        /\ now' = t

\* How far each performance is let play, when the scheduler leaves w at time t.
Reach(w, t) ==
    [g \in DOMAIN plan |->
        CASE g \in DOMAIN w               -> w[g].until
          [] g \notin DOMAIN w /\ g \in DOMAIN window /\ window[g].until > t -> t
          [] OTHER                        -> reach[g]]

OnTime(t) == now <= t /\ t <= now + Gap /\ t <= TimeMax

AppTick(t) ==
    /\ OnTime(t) /\ UNCHANGED <<issued, muted, recent, touched, plays, asked, plan>>
    /\ Tick(window, pending, t)
    /\ reach' = Reach(Advanced(window, t), t)

-----------------------------------------------------------------------------
(* A performance is asked for at t, by intent, by asset id, or by asset id *)
(* and identity; the call ends with a tick.                                *)

\* What accepting another plan at time t may do to the live windows: the
\* scheduler drops some and cuts others short, at t or later.
Yielded(t) ==
    UNION {{[g \in keep |-> [window[g] EXCEPT !.until = cut[g]]] :
                cut \in {f \in [keep -> t..TimeMax] :
                            \A g \in keep : f[g] <= window[g].until}} :
           keep \in SUBSET DOMAIN Advanced(window, t)}

\* The variants of an intent that were not played lately, or all of them.
Fresh(intent) ==
    LET all   == {a \in Assets : a.group = intent}
        fresh == {a \in all : intent \notin DOMAIN recent \/ a.id \notin Range(recent[intent])}
    IN  IF fresh = {} THEN all ELSE fresh

\* schedule_asset, accepted: commands are placed at the start the scheduler
\* gave, not at the one asked for.
ScheduleAsset(a, t, speed, delay, via, group) ==
    /\ OnTime(t) /\ issued < MaxIssued
    /\ Channels(a) # {} /\ UNCHANGED muted
    /\ \E w \in Yielded(t), slip \in 0..Slip :
           LET start == t + delay + slip
               end   == start + Duration(a, speed)
               gen   == issued + 1
               placed == [g \in DOMAIN w \cup {gen} |->
                             IF g = gen THEN [from |-> start, until |-> end] ELSE w[g]]
           IN  /\ end <= TimeMax
               /\ issued' = gen
               /\ plan' = [g \in DOMAIN plan \cup {gen} |->
                              IF g = gen THEN placed[gen] ELSE plan[g]]
               /\ asked' = asked \cup DispatchAsset(a, gen, start, speed)
               /\ Tick(placed, pending \cup DispatchAsset(a, gen, start, speed), t)
               /\ reach' = [g \in DOMAIN plan' |->
                               IF g = gen THEN end ELSE Reach(w, t)[g]]
    /\ RecordRecent(group, a.id)
    /\ plays' = Append(plays, [via |-> via, group |-> group, id |-> a.id])

\* handle_event: a fresh variant of the intent, remembered under the intent.
HandleEvent(t, intent, speed, delay) ==
    \E a \in Fresh(intent) : ScheduleAsset(a, t, speed, delay, "intent", intent)

\* handle_asset_id and handle_asset_identity: remembered under the variant group.
HandleAssetId(t, a, speed, delay) ==
    ScheduleAsset(a, t, speed, delay, "asset", a.group)

-----------------------------------------------------------------------------
(* Operator control and shutdown.                                          *)

\* purge_cancelled_pending: what is left of the queues when w is live.
Purged(w) == {c \in pending : c.gen \in DOMAIN w /\ c.at < w[c.gen].until}

\* stop, or shutdown: every performance ends, the queues are purged, then tick.
Stop(t) ==
    /\ OnTime(t) /\ UNCHANGED <<issued, muted, recent, touched, plays, asked, plan>>
    /\ LET none == [g \in {} |-> 0]
       IN  Tick(none, Purged(none), t) /\ reach' = Reach(none, t)

Mute(t, on) ==
    /\ OnTime(t) /\ muted' = on
    /\ UNCHANGED <<issued, recent, touched, plays, asked, plan>>
    /\ Tick(window, pending, t) /\ reach' = Reach(Advanced(window, t), t)

\* An intent names a variant group.
Intents == {a.group : a \in Assets}

Next ==
    \E t \in 0..TimeMax :
        \/ AppTick(t)
        \/ Stop(t)
        \/ \E on \in BOOLEAN : Mute(t, on)
        \/ \E s \in Speeds, d \in Delays :
              \/ \E i \in Intents : HandleEvent(t, i, s, d)
              \/ \E a \in Assets : HandleAssetId(t, a, s, d)

Spec == Init /\ [][Next]_vars

-----------------------------------------------------------------------------
(* Properties.                                                             *)

\* The queues hold commands of accepted performances, and the two maps of
\* record_recent have the same groups.
TypeOK ==
    /\ issued \in 0..MaxIssued /\ now \in 0..TimeMax /\ muted \in BOOLEAN
    /\ \A g \in DOMAIN window : window[g] \in Windows
    /\ DOMAIN window \subseteq DOMAIN plan /\ DOMAIN plan = 1..issued
    /\ DOMAIN reach = DOMAIN plan
    /\ \A c \in pending : c.gen \in DOMAIN plan
    /\ DOMAIN recent = DOMAIN touched

\* No command reaches a device twice, whatever ticks, stops and mutes come
\* between its due time and the end of its performance (dispatch_audio and
\* dispatch_avatar take a due command out of the queue before they try it).
AtMostOnce == \A s, r \in sent : s.cmd = r.cmd => s = r

\* Nothing is played from a performance that was stopped, superseded or cut
\* short before the command's time, and nothing later than the lateness bound
\* (command_is_live).
NoStale ==
    \A s \in sent :
        /\ s.time <= reach[s.cmd.gen]
        /\ s.cmd.at <= s.time /\ s.time - s.cmd.at <= Lateness

\* A mute leaves no backlog: audio that fell due while muted is not played
\* after the unmute (dispatch_audio drops it).
NoBacklog == \A c \in silenced : c \notin pending /\ \A s \in sent : s.cmd # c

\* While the app is called often enough for its lateness bound, a performance
\* that is let play to its end plays every command that is not in its last Gap
\* milliseconds.
CommandsDelivered ==
    \A g \in DOMAIN plan :
        (Gap <= Lateness + 1 /\ g \notin DOMAIN window /\ reach[g] = plan[g].until) =>
            \A c \in asked :
                (c.gen = g /\ c.at + Gap <= plan[g].until) =>
                    c \in silenced \/ \E s \in sent : s.cmd = c

\* Offsets and duration are scaled and rounded apart: a command still lies in
\* its performance, or at most one millisecond after it.
InsidePerformance ==
    \A c \in asked :
        plan[c.gen].from <= c.at /\ c.at <= plan[c.gen].until + 1

\* An intent does not repeat its last variant while it has others and fewer
\* than MaxGroups groups were played in between (handle_event asks for a variant
\* that record_recent does not remember).
NoImmediateRepeat ==
    \A i, j \in DOMAIN plays :
        (/\ RecentWindow > 0
         /\ i < j /\ plays[i].group = plays[j].group /\ plays[j].via = "intent"
         /\ \A k \in (i + 1)..(j - 1) : plays[k].group # plays[j].group
         /\ Cardinality({plays[k].group : k \in i..j}) <= MaxGroups
         /\ Cardinality({a.id : a \in {b \in Assets : b.group = plays[j].group}}) > RecentWindow)
            => plays[i].id # plays[j].id
=============================================================================
