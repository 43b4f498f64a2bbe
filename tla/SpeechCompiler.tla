--------------------------- MODULE SpeechCompiler ---------------------------
(***************************************************************************)
(* Streamed speech (generative/src/lib.rs): what a provider reports of its *)
(* synthesis, chunk by chunk, is checked by the pipeline's collector and   *)
(* by the incremental compiler session, and becomes an asset when it is    *)
(* complete.  The provider may go on after a refusal, stop early, or       *)
(* return an artifact that it never announced.                             *)
(***************************************************************************)
EXTENDS Integers, Sequences, SequencesExt

CONSTANTS
    Refs,         \* audio references; "" is blank
    Durations,    \* durations in ms; 0 is refused
    Kinds,        \* EngineErrorKind
    MaxChunks     \* bound of the model: chunks a provider sends

SpeechAssumption == Durations \subseteq Nat /\ MaxChunks \in Nat

VARIABLES
    sent,       \* the chunks the provider reported
    progress,   \* StreamingSpeechCollector.progress: the accepted ones
    session,    \* StreamingCompilationSession
    ended,      \* the provider's result, when it returned
    outcome     \* what the caller got

vars == <<sent, progress, session, ended, outcome>>

----------------------------------------------------------------------------
NoSpeech == [ref |-> "", ms |-> 0]
Artifact(c) == [ref |-> c.ref, ms |-> c.ms]
WellFormed(c) == c.ref # "" /\ c.ms > 0

\* Mutant: a chunk of another recording is accepted.
FollowsLoosely(c) ==
    progress = <<>> \/ (LET p == Last(progress) IN c.seq > p.seq /\ c.ms >= p.ms /\ ~p.final)

\* StreamingSpeechCollector::push.
Follows(c) ==
    progress = <<>> \/ (LET p == Last(progress)
                        IN  c.seq > p.seq /\ c.ref = p.ref /\ c.ms >= p.ms /\ ~p.final)
CollectorTakes(c) == WellFormed(c) /\ Follows(c)

\* StreamingSpeechCollector::validate_final.
FinalMatches(a) ==
    /\ progress # <<>>
    /\ Last(progress).final
    /\ Artifact(Last(progress)) = a

\* StreamingCompilationSession: ensure_active, push_speech_update, finalize.
Active == ~session.cancelled /\ ~session.final
SessionTakes(c) ==
    /\ Active /\ WellFormed(c)
    /\ session.speech # NoSpeech => c.ref = session.speech.ref /\ c.ms >= session.speech.ms
Updated(c) == [session EXCEPT !.speech = Artifact(c), !.final = @ \/ c.final]

\* PerformanceCompiler::compile: the asset, or none.  The timeline is the
\* speech's, the only place to interrupt is its end, and the compiled asset
\* must pass its own validation.
NoAsset == [made |-> FALSE, text |-> 0, speech |-> NoSpeech, timeline |-> <<>>, interrupts |-> <<>>]
Compile(text, speech) ==
    IF text = 0 \/ ~WellFormed(speech) THEN NoAsset
    ELSE [made |-> TRUE, text |-> text, speech |-> speech,
          timeline |-> <<[at |-> 0, what |-> "expression.start"],
                         [at |-> 0, what |-> "speech.start"],
                         [at |-> speech.ms, what |-> "speech.end"]>>,
          interrupts |-> <<speech.ms>>]
Finalize ==
    IF session.cancelled \/ ~session.final THEN NoAsset
    ELSE Compile(session.text, session.speech)

\* fallback_reason_from_error.
ReasonOf(kind) ==
    CASE kind = "timeout" -> "timeout"
      [] kind = "rate_limited" -> "rate_limited"
      [] kind = "overloaded" -> "overloaded"
      [] kind = "authentication" -> "authentication"
      [] kind = "invalid_request" -> "invalid_request"
      [] kind \in {"unavailable", "unauthorized", "backend"} -> "unavailable"

----------------------------------------------------------------------------
Pending == [disposition |-> "none", reason |-> "none", speech |-> NoSpeech]

\* The provider reports a chunk to the sink; the same update goes to a session.
Report ==
    /\ ~ended /\ Len(sent) < MaxChunks
    /\ \E seq \in 1..MaxChunks, r \in Refs, d \in Durations, final \in BOOLEAN :
         LET c == [seq |-> seq, ref |-> r, ms |-> d, final |-> final]
         IN  /\ sent' = Append(sent, c)
             /\ progress' = IF CollectorTakes(c) THEN Append(progress, c) ELSE progress
             /\ session' = IF SessionTakes(c) THEN Updated(c) ELSE session
    /\ UNCHANGED <<ended, outcome>>

\* push_text_chunk.
PushText ==
    /\ ~ended /\ Active /\ session.text = 0
    /\ session' = [session EXCEPT !.text = @ + 1]
    /\ UNCHANGED <<sent, progress, ended, outcome>>

CancelSession ==
    /\ ~ended /\ ~session.cancelled
    /\ session' = [session EXCEPT !.cancelled = TRUE]
    /\ UNCHANGED <<sent, progress, ended, outcome>>

\* run_streaming_tts returns an artifact, and the pipeline compares it.
Succeeds ==
    /\ ~ended
    /\ \E r \in Refs, d \in Durations :
         LET a == [ref |-> r, ms |-> d]
         IN  outcome' = IF ~FinalMatches(a)
                        THEN [Pending EXCEPT !.disposition = "fallback",
                                             !.reason = ReasonOf("backend")]
                        ELSE IF ~Compile(1, a).made
                        THEN [Pending EXCEPT !.disposition = "fallback",
                                             !.reason = "invalid_request"]
                        ELSE [Pending EXCEPT !.disposition = "generated", !.speech = a]
    /\ ended' = TRUE
    /\ UNCHANGED <<sent, progress, session>>

Errs ==
    /\ ~ended /\ ended' = TRUE
    /\ \E k \in Kinds :
         outcome' = [Pending EXCEPT !.disposition = "fallback", !.reason = ReasonOf(k)]
    /\ UNCHANGED <<sent, progress, session>>

Init ==
    /\ sent = <<>> /\ progress = <<>> /\ ended = FALSE /\ outcome = Pending
    /\ session = [text |-> 0, speech |-> NoSpeech, final |-> FALSE, cancelled |-> FALSE]

Next == Report \/ PushText \/ CancelSession \/ Succeeds \/ Errs
Spec == Init /\ [][Next]_vars

----------------------------------------------------------------------------
(* Properties.                                                             *)

\* The collector and the session agree on every stream whose numbers rise:
\* what is accepted does not depend on which of them checks it.
Rising == \A j, k \in DOMAIN sent : j < k => sent[j].seq < sent[k].seq
CheckersAgree ==
    Rising /\ ~session.cancelled =>
        /\ session.final = (progress # <<>> /\ Last(progress).final)
        /\ session.speech = IF progress = <<>> THEN NoSpeech ELSE Artifact(Last(progress))

\* Speech that is generated was announced to its end: one reference, the last
\* accepted chunk final, and no chunk of it longer or from another recording,
\* whatever the provider reported in between.
SpeechAnnounced ==
    outcome.disposition = "generated" =>
        /\ \E k \in DOMAIN sent : sent[k].final /\ Artifact(sent[k]) = outcome.speech
        /\ \A k \in DOMAIN progress :
             progress[k].ref = outcome.speech.ref /\ progress[k].ms <= outcome.speech.ms

\* "Partial state is never a Performance Asset" (lib.rs:286): a session gives
\* an asset only when it was not cancelled and heard a final chunk, and then
\* speech ends where its timeline and its only interrupt point say.
PartialNeverAsset ==
    Finalize.made =>
        /\ ~session.cancelled /\ \E k \in DOMAIN sent : sent[k].final /\ Artifact(sent[k]) = Finalize.speech
        /\ \A k \in DOMAIN sent :
             Artifact(sent[k]) = Finalize.speech => Finalize.interrupts = <<sent[k].ms>>
        /\ Last(Finalize.timeline).at = Finalize.interrupts[1]
=============================================================================
