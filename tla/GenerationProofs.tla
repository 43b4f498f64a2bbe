-------------------------- MODULE GenerationProofs --------------------------
(***************************************************************************)
(* Proofs about GenerationExecution for every queue capacity, every set of *)
(* events and ranks and any number of submissions, with repeated events    *)
(* and panicking providers allowed.  IndInv is the inductive invariant:    *)
(* one lemma per action shows that it is preserved, conjunct by conjunct.  *)
(***************************************************************************)
EXTENDS GenerationExecution, FiniteSetTheorems, TLAPS

-----------------------------------------------------------------------------
(* Sequences.                                                              *)

\* What taking the head leaves.
LEMMA TailOK ==
    ASSUME NEW S, NEW s \in Seq(S), s # <<>>
    PROVE  /\ Head(s) \in S /\ Head(s) = s[1] /\ Tail(s) \in Seq(S)
           /\ Len(s) \in Nat /\ Len(s) >= 1 /\ Len(Tail(s)) = Len(s) - 1
           /\ \A i \in 1..Len(Tail(s)) : i + 1 \in 1..Len(s) /\ Tail(s)[i] = s[i + 1]
OBVIOUS

\* What appending adds.
LEMMA AppendOK ==
    ASSUME NEW S, NEW s \in Seq(S), NEW x \in S
    PROVE  /\ Append(s, x) \in Seq(S) /\ Append(s, x) # <<>>
           /\ Len(s) \in Nat /\ Len(Append(s, x)) = Len(s) + 1
           /\ \A i \in 1..Len(Append(s, x)) :
                 Append(s, x)[i] = IF i \in 1..Len(s) THEN s[i] ELSE x
OBVIOUS

LEMMA EmptyOK ==
    ASSUME NEW S
    PROVE  <<>> \in Seq(S) /\ Len(<<>>) = 0 /\ \A s \in Seq(S) : Len(s) = 0 <=> s = <<>>
OBVIOUS

-----------------------------------------------------------------------------
(* One lemma per action.                                                   *)

\* A more urgent event fences the generations it outranks.
LEMMA ProcessContentStep == ASSUME NEW e \in Events, IndInv, ProcessContent(e) PROVE IndInv'
<1>1. TypeOK'
  <2>1. {registry} \ {0} \subseteq Gens
    BY ConfigAssumption DEF IndInv, TypeOK, Gens
  <2>2. cancelled' \subseteq Gens /\ fenced' \subseteq Gens
    BY <2>1 DEF IndInv, TypeOK, ProcessContent, Live
  <2> QED BY ConfigAssumption, <2>2
     DEF IndInv, ProcessContent, TypeOK, channels, counters, identity, lifecycle, worker, composer, ComposerPlaces
<1>2. PlacesOK'
  BY DEF IndInv, ProcessContent, Outranks, Live, TypeOK, PlacesOK, InHand,
     Nothing, CompletionType, Gens, Results, channels, counters, identity,
     lifecycle, worker
<1>3. CountedAtLeast'
  BY DEF IndInv, ProcessContent, Outranks, Live, TypeOK, CountedAtLeast,
     One, Dequeued, Executing, Publishing, channels, counters, identity,
     lifecycle, worker, WorkerPlaces
<1>4. CountersExact'
  BY DEF IndInv, ProcessContent, Outranks, Live, TypeOK, CountersExact, One,
     Dequeued, Executing, Publishing, channels, counters, identity,
     lifecycle, worker, WorkerPlaces
<1>5. SnapshotSound'
  BY EmptyOK DEF IndInv, ProcessContent, Outranks, Live, TypeOK,
     CountedAtLeast, SnapshotSound, QuiescenceSound, IsQuiescent, One,
     Dequeued, Executing, Publishing, InHand, channels, counters, identity,
     lifecycle, worker, WorkerPlaces
<1>6. RoomOK'
  BY ConfigAssumption, EmptyOK DEF IndInv, ProcessContent, Outranks, Live,
     TypeOK, RoomOK, One, InHand, CompletionCapacity, channels, counters,
     identity, lifecycle, worker
<1>7. FenceOK'
  BY ConfigAssumption DEF IndInv, ProcessContent, Outranks, Live, TypeOK,
     PlacesOK, FenceOK, Gens, Committed, channels, counters, identity,
     lifecycle, worker
<1>8. ResultsOK'
  BY DEF IndInv, ProcessContent, Outranks, Live, TypeOK, PlacesOK,
     ResultsOK, InHand, Nothing, channels, counters, identity, lifecycle,
     worker
<1> QED BY <1>1, <1>2, <1>3, <1>4, <1>5, <1>6, <1>7, <1>8 DEF IndInv

\* A route that submits nothing touches only the thread's own place.
LEMMA RouteElsewhereStep == ASSUME IndInv, RouteElsewhere PROVE IndInv'
<1>1. TypeOK'
  BY DEF IndInv, RouteElsewhere, TypeOK, channels, counters, identity,
     lifecycle, worker, WorkerPlaces, ComposerPlaces
<1>2. PlacesOK'
  BY DEF IndInv, RouteElsewhere, TypeOK, PlacesOK, InHand, Nothing,
     CompletionType, Gens, Results, channels, counters, identity, lifecycle,
     worker
<1>3. CountedAtLeast'
  BY DEF IndInv, RouteElsewhere, TypeOK, CountedAtLeast, One, Dequeued,
     Executing, Publishing, channels, counters, identity, lifecycle, worker,
     WorkerPlaces
<1>4. CountersExact'
  BY DEF IndInv, RouteElsewhere, TypeOK, CountersExact, One, Dequeued,
     Executing, Publishing, channels, counters, identity, lifecycle, worker,
     WorkerPlaces
<1>5. SnapshotSound'
  BY EmptyOK DEF IndInv, RouteElsewhere, TypeOK, CountedAtLeast,
     SnapshotSound, QuiescenceSound, IsQuiescent, One, Dequeued, Executing,
     Publishing, InHand, channels, counters, identity, lifecycle, worker,
     WorkerPlaces
<1>6. RoomOK'
  BY ConfigAssumption, EmptyOK DEF IndInv, RouteElsewhere, TypeOK, RoomOK,
     One, InHand, CompletionCapacity, channels, counters, identity,
     lifecycle, worker
<1>7. FenceOK'
  BY ConfigAssumption DEF IndInv, RouteElsewhere, TypeOK, PlacesOK, FenceOK,
     Live, Gens, Committed, channels, counters, identity, lifecycle, worker
<1>8. ResultsOK'
  BY DEF IndInv, RouteElsewhere, TypeOK, PlacesOK, ResultsOK, InHand,
     Nothing, channels, counters, identity, lifecycle, worker
<1> QED BY <1>1, <1>2, <1>3, <1>4, <1>5, <1>6, <1>7, <1>8 DEF IndInv

\* A submission after shutdown takes an id and nothing else.
LEMMA SubmitRefusedStep == ASSUME IndInv, SubmitRefused PROVE IndInv'
<1>1. TypeOK'
  BY ConfigAssumption DEF IndInv, SubmitRefused, NewGeneration, TypeOK,
     Fates, Settled, Committed, Gens, PlacesOK, channels, counters,
     lifecycle, worker, WorkerPlaces, ComposerPlaces
<1>2. PlacesOK'
  BY DEF IndInv, SubmitRefused, NewGeneration, TypeOK, PlacesOK, InHand,
     Nothing, CompletionType, Gens, Results, channels, counters, lifecycle,
     worker
<1>3. CountedAtLeast'
  BY DEF IndInv, SubmitRefused, NewGeneration, TypeOK, CountedAtLeast, One,
     Dequeued, Executing, Publishing, channels, counters, lifecycle, worker,
     WorkerPlaces
<1>4. CountersExact'
  BY DEF IndInv, SubmitRefused, NewGeneration, TypeOK, CountersExact, One,
     Dequeued, Executing, Publishing, channels, counters, lifecycle, worker,
     WorkerPlaces
<1>5. SnapshotSound'
  BY EmptyOK DEF IndInv, SubmitRefused, NewGeneration, TypeOK,
     CountedAtLeast, SnapshotSound, QuiescenceSound, IsQuiescent, One,
     Dequeued, Executing, Publishing, InHand, channels, counters, lifecycle,
     worker, WorkerPlaces
<1>6. RoomOK'
  BY ConfigAssumption, EmptyOK DEF IndInv, SubmitRefused, NewGeneration,
     TypeOK, RoomOK, One, InHand, CompletionCapacity, channels, counters,
     lifecycle, worker
<1>7. FenceOK'
  BY ConfigAssumption DEF IndInv, SubmitRefused, NewGeneration, TypeOK,
     PlacesOK, FenceOK, Live, Gens, Committed, channels, counters,
     lifecycle, worker
<1>8. ResultsOK'
  BY DEF IndInv, SubmitRefused, NewGeneration, TypeOK, PlacesOK, ResultsOK,
     InHand, Nothing, channels, counters, lifecycle, worker
<1> QED BY <1>1, <1>2, <1>3, <1>4, <1>5, <1>6, <1>7, <1>8 DEF IndInv

\* The job is counted before it is sent.
LEMMA SubmitClaimStep == ASSUME IndInv, SubmitClaim PROVE IndInv'
<1>1. TypeOK'
  BY ConfigAssumption DEF IndInv, SubmitClaim, NewGeneration, TypeOK, Gens,
     channels, lifecycle, worker, WorkerPlaces, ComposerPlaces
<1>2. PlacesOK'
  BY DEF IndInv, SubmitClaim, NewGeneration, TypeOK, PlacesOK, InHand,
     Nothing, CompletionType, Gens, Results, channels, lifecycle, worker
<1>3. CountedAtLeast'
  BY DEF IndInv, SubmitClaim, NewGeneration, TypeOK, CountedAtLeast, One,
     Dequeued, Executing, Publishing, channels, lifecycle, worker,
     WorkerPlaces
<1>4. CountersExact'
  BY DEF IndInv, SubmitClaim, NewGeneration, TypeOK, CountersExact, One,
     Dequeued, Executing, Publishing, channels, lifecycle, worker,
     WorkerPlaces
<1>5. SnapshotSound'
  BY EmptyOK DEF IndInv, SubmitClaim, NewGeneration, TypeOK, CountedAtLeast,
     SnapshotSound, QuiescenceSound, IsQuiescent, One, Dequeued, Executing,
     Publishing, InHand, channels, lifecycle, worker, WorkerPlaces
<1>6. RoomOK'
  BY ConfigAssumption, EmptyOK DEF IndInv, SubmitClaim, NewGeneration,
     TypeOK, RoomOK, One, InHand, CompletionCapacity, channels, lifecycle,
     worker
<1>7. FenceOK'
  BY ConfigAssumption DEF IndInv, SubmitClaim, NewGeneration, TypeOK,
     PlacesOK, FenceOK, Live, Gens, Committed, channels, lifecycle, worker
<1>8. ResultsOK'
  BY DEF IndInv, SubmitClaim, NewGeneration, TypeOK, PlacesOK, ResultsOK,
     InHand, Nothing, channels, lifecycle, worker
<1> QED BY <1>1, <1>2, <1>3, <1>4, <1>5, <1>6, <1>7, <1>8 DEF IndInv

\* The job enters the queue after it was counted.
LEMMA TrySendStep == ASSUME IndInv, TrySend PROVE IndInv'
<1>0. queue' \in Seq(Gens) /\ queue' # <<>> /\ Len(queue') = Len(queue) + 1
  BY AppendOK DEF IndInv, TypeOK, PlacesOK, TrySend, Gens
<1>1. TypeOK'
  BY <1>0, ConfigAssumption DEF IndInv, TrySend, Exited, TypeOK, Fates,
     Settled, Committed, Gens, PlacesOK, counters, identity, lifecycle,
     worker, WorkerPlaces, ComposerPlaces
<1>2. PlacesOK'
  BY <1>0 DEF IndInv, TrySend, Exited, TypeOK, PlacesOK, InHand, Nothing,
     CompletionType, Gens, Results, counters, identity, lifecycle, worker
<1>3. CountedAtLeast'
  BY <1>0 DEF IndInv, TrySend, Exited, TypeOK, CountedAtLeast, One,
     Dequeued, Executing, Publishing, counters, identity, lifecycle, worker,
     WorkerPlaces
<1>4. CountersExact'
  BY <1>0 DEF IndInv, TrySend, Exited, TypeOK, CountersExact, One, Dequeued,
     Executing, Publishing, counters, identity, lifecycle, worker,
     WorkerPlaces
<1>5. SnapshotSound'
  BY <1>0, EmptyOK DEF IndInv, TrySend, Exited, TypeOK, CountedAtLeast,
     SnapshotSound, QuiescenceSound, IsQuiescent, One, Dequeued, Executing,
     Publishing, InHand, counters, identity, lifecycle, worker, WorkerPlaces
<1>6. RoomOK'
  BY <1>0, ConfigAssumption, EmptyOK DEF IndInv, TrySend, Exited, TypeOK,
     RoomOK, One, InHand, CompletionCapacity, counters, identity, lifecycle,
     worker
<1>7. FenceOK'
  BY <1>0, ConfigAssumption DEF IndInv, TrySend, Exited, TypeOK, PlacesOK,
     FenceOK, Live, Gens, Committed, counters, identity, lifecycle, worker
<1>8. ResultsOK'
  BY <1>0 DEF IndInv, TrySend, Exited, TypeOK, PlacesOK, ResultsOK, InHand,
     Nothing, counters, identity, lifecycle, worker
<1> QED BY <1>1, <1>2, <1>3, <1>4, <1>5, <1>6, <1>7, <1>8 DEF IndInv

\* A job that could not be sent is uncounted again.
LEMMA TrySendFailsStep == ASSUME IndInv, TrySendFails PROVE IndInv'
<1>1. TypeOK'
  BY ConfigAssumption DEF IndInv, TrySendFails, Exited, TypeOK,
     CountedAtLeast, One, Dequeued, Executing, Publishing, Fates, Settled,
     Committed, Gens, PlacesOK, channels, identity, lifecycle, worker,
     WorkerPlaces, ComposerPlaces
<1>2. PlacesOK'
  BY DEF IndInv, TrySendFails, Exited, TypeOK, PlacesOK, InHand, Nothing,
     CompletionType, Gens, Results, channels, identity, lifecycle, worker
<1>3. CountedAtLeast'
  <2>1. /\ cpc = "send" /\ cpc' # "send" /\ cpc' # "release" /\ pending' = pending - 1
        /\ UNCHANGED <<queue, mailbox, inFlight, awaiting, wpc>>
    BY DEF TrySendFails, channels, worker
  <2>2. /\ One(cpc = "send") = 1 /\ One(cpc' = "send") = 0
        /\ One(cpc = "release") = 0 /\ One(cpc' = "release") = 0
    BY <2>1 DEF One
  <2>3. Len(queue) \in Nat /\ One(Dequeued) \in Nat /\ pending \in Nat
    BY DEF IndInv, TypeOK, One
  <2> QED BY <2>1, <2>2, <2>3 DEF IndInv, CountedAtLeast, Dequeued, Executing, Publishing
<1>4. CountersExact'
  <2>1. /\ cpc = "send" /\ cpc' # "send" /\ cpc' # "release" /\ pending' = pending - 1
        /\ UNCHANGED <<queue, mailbox, inFlight, awaiting, wpc>>
    BY DEF TrySendFails, channels, worker
  <2>2. /\ One(cpc = "send") = 1 /\ One(cpc' = "send") = 0
        /\ One(cpc = "release") = 0 /\ One(cpc' = "release") = 0
    BY <2>1 DEF One
  <2>3. Len(queue) \in Nat /\ One(Dequeued) \in Nat /\ pending \in Nat
    BY DEF IndInv, TypeOK, One
  <2> QED BY <2>1, <2>2, <2>3 DEF IndInv, CountersExact, Dequeued, Executing, Publishing
<1>5. SnapshotSound'
  BY EmptyOK DEF IndInv, TrySendFails, Exited, TypeOK, CountedAtLeast,
     SnapshotSound, QuiescenceSound, IsQuiescent, One, Dequeued, Executing,
     Publishing, InHand, channels, identity, lifecycle, worker, WorkerPlaces
<1>6. RoomOK'
  BY ConfigAssumption, EmptyOK DEF IndInv, TrySendFails, Exited, TypeOK,
     RoomOK, One, InHand, CompletionCapacity, channels, identity, lifecycle,
     worker
<1>7. FenceOK'
  BY ConfigAssumption DEF IndInv, TrySendFails, Exited, TypeOK, PlacesOK,
     FenceOK, Live, Gens, Committed, channels, identity, lifecycle, worker
<1>8. ResultsOK'
  BY DEF IndInv, TrySendFails, Exited, TypeOK, PlacesOK, ResultsOK, InHand,
     Nothing, channels, identity, lifecycle, worker
<1> QED BY <1>1, <1>2, <1>3, <1>4, <1>5, <1>6, <1>7, <1>8 DEF IndInv

\* The previous token is cancelled; the others were before.
LEMMA ActivateStep == ASSUME IndInv, Activate PROVE IndInv'
<1>1. TypeOK'
  <2>1. {registry} \ {0} \subseteq Gens
    BY ConfigAssumption DEF IndInv, TypeOK, Gens
  <2>2. cancelled' \subseteq Gens /\ fenced' \subseteq Gens
    BY <2>1 DEF IndInv, TypeOK, Activate, Live
  <2> QED BY ConfigAssumption, <2>2
     DEF IndInv, Activate, TypeOK, channels, counters, identity, lifecycle, worker, composer, ComposerPlaces
<1>2. PlacesOK'
  BY DEF IndInv, Activate, Live, TypeOK, PlacesOK, InHand, Nothing,
     CompletionType, Gens, Results, channels, counters, lifecycle, worker
<1>3. CountedAtLeast'
  BY DEF IndInv, Activate, Live, TypeOK, CountedAtLeast, One, Dequeued,
     Executing, Publishing, channels, counters, lifecycle, worker,
     WorkerPlaces
<1>4. CountersExact'
  BY DEF IndInv, Activate, Live, TypeOK, CountersExact, One, Dequeued,
     Executing, Publishing, channels, counters, lifecycle, worker,
     WorkerPlaces
<1>5. SnapshotSound'
  BY EmptyOK DEF IndInv, Activate, Live, TypeOK, CountedAtLeast,
     SnapshotSound, QuiescenceSound, IsQuiescent, One, Dequeued, Executing,
     Publishing, InHand, channels, counters, lifecycle, worker, WorkerPlaces
<1>6. RoomOK'
  BY ConfigAssumption, EmptyOK DEF IndInv, Activate, Live, TypeOK, RoomOK,
     One, InHand, CompletionCapacity, channels, counters, lifecycle, worker
<1>7. FenceOK'
  BY ConfigAssumption DEF IndInv, Activate, Live, TypeOK, PlacesOK, FenceOK,
     Gens, Committed, channels, counters, lifecycle, worker
<1>8. ResultsOK'
  BY DEF IndInv, Activate, Live, TypeOK, PlacesOK, ResultsOK, InHand,
     Nothing, channels, counters, lifecycle, worker
<1> QED BY <1>1, <1>2, <1>3, <1>4, <1>5, <1>6, <1>7, <1>8 DEF IndInv

\* Nothing is left to drain, so the mailbox has room for all that can come.
LEMMA DrainEmptyStep == ASSUME IndInv, DrainEmpty PROVE IndInv'
<1>1. TypeOK'
  BY EmptyOK DEF IndInv, DrainEmpty, TypeOK, channels, counters, identity,
     lifecycle, worker, WorkerPlaces, ComposerPlaces
<1>2. PlacesOK'
  BY EmptyOK DEF IndInv, DrainEmpty, TypeOK, PlacesOK, InHand, Nothing,
     CompletionType, Gens, Results, channels, counters, identity, lifecycle,
     worker
<1>3. CountedAtLeast'
  BY EmptyOK DEF IndInv, DrainEmpty, TypeOK, CountedAtLeast, One, Dequeued,
     Executing, Publishing, channels, counters, identity, lifecycle, worker,
     WorkerPlaces
<1>4. CountersExact'
  BY EmptyOK DEF IndInv, DrainEmpty, TypeOK, CountersExact, One, Dequeued,
     Executing, Publishing, channels, counters, identity, lifecycle, worker,
     WorkerPlaces
<1>5. SnapshotSound'
  BY EmptyOK DEF IndInv, DrainEmpty, TypeOK, CountedAtLeast, SnapshotSound,
     QuiescenceSound, IsQuiescent, One, Dequeued, Executing, Publishing,
     InHand, channels, counters, identity, lifecycle, worker, WorkerPlaces
<1>6. RoomOK'
  BY ConfigAssumption, EmptyOK DEF IndInv, DrainEmpty, TypeOK, RoomOK, One,
     InHand, CompletionCapacity, channels, counters, identity, lifecycle,
     worker
<1>7. FenceOK'
  BY ConfigAssumption, EmptyOK DEF IndInv, DrainEmpty, TypeOK, PlacesOK,
     FenceOK, Live, Gens, Committed, channels, counters, identity,
     lifecycle, worker
<1>8. ResultsOK'
  BY EmptyOK DEF IndInv, DrainEmpty, TypeOK, PlacesOK, ResultsOK, InHand,
     Nothing, channels, counters, identity, lifecycle, worker
<1> QED BY <1>1, <1>2, <1>3, <1>4, <1>5, <1>6, <1>7, <1>8 DEF IndInv

\* The taken completion leaves the mailbox and stays counted.
LEMMA DrainTakeStep == ASSUME IndInv, DrainTake PROVE IndInv'
<1>0. /\ mailbox' \in Seq(CompletionType) /\ cdone' \in CompletionType /\ cdone' = mailbox[1]
      /\ Len(mailbox) \in Nat /\ Len(mailbox) >= 1 /\ Len(mailbox') = Len(mailbox) - 1
      /\ \A i \in 1..Len(mailbox') : i + 1 \in 1..Len(mailbox) /\ mailbox'[i] = mailbox[i + 1]
  BY TailOK DEF IndInv, TypeOK, DrainTake
<1>1. TypeOK'
  BY <1>0, EmptyOK DEF IndInv, DrainTake, TypeOK, Nothing, counters,
     identity, lifecycle, worker, WorkerPlaces, ComposerPlaces
<1>2. PlacesOK'
  BY <1>0, EmptyOK DEF IndInv, DrainTake, TypeOK, PlacesOK, InHand, Nothing,
     CompletionType, Gens, Results, counters, identity, lifecycle, worker
<1>3. CountedAtLeast'
  BY <1>0, EmptyOK DEF IndInv, DrainTake, TypeOK, CountedAtLeast, One,
     Dequeued, Executing, Publishing, counters, identity, lifecycle, worker,
     WorkerPlaces
<1>4. CountersExact'
  <2>1. /\ cpc = "drain" /\ cpc' = "release" /\ UNCHANGED <<queue, pending, inFlight, awaiting, wpc>>
    BY DEF DrainTake, counters, worker
  <2>2. /\ One(cpc = "send") = 0 /\ One(cpc' = "send") = 0
        /\ One(cpc = "release") = 0 /\ One(cpc' = "release") = 1
    BY <2>1 DEF One
  <2>3. One(Publishing) \in Nat /\ awaiting \in Nat
    BY DEF IndInv, TypeOK, One
  <2> QED BY <1>0, <2>1, <2>2, <2>3 DEF IndInv, CountersExact, Dequeued, Executing, Publishing
<1>5. SnapshotSound'
  BY <1>0, EmptyOK DEF IndInv, DrainTake, TypeOK, CountedAtLeast,
     SnapshotSound, QuiescenceSound, IsQuiescent, One, Dequeued, Executing,
     Publishing, InHand, counters, identity, lifecycle, worker, WorkerPlaces
<1>6. RoomOK'
  BY <1>0, ConfigAssumption, EmptyOK DEF IndInv, DrainTake, TypeOK, RoomOK,
     One, InHand, CompletionCapacity, counters, identity, lifecycle, worker
<1>7. FenceOK'
  BY <1>0, ConfigAssumption, EmptyOK DEF IndInv, DrainTake, TypeOK,
     PlacesOK, FenceOK, Live, Gens, Committed, counters, identity,
     lifecycle, worker
<1>8. ResultsOK'
  BY <1>0, EmptyOK DEF IndInv, DrainTake, TypeOK, PlacesOK, ResultsOK,
     InHand, Nothing, counters, identity, lifecycle, worker
<1> QED BY <1>1, <1>2, <1>3, <1>4, <1>5, <1>6, <1>7, <1>8 DEF IndInv

\* The drain window is released once the completion is taken.
LEMMA DrainReleaseStep == ASSUME IndInv, DrainRelease PROVE IndInv'
<1>1. TypeOK'
  BY DEF IndInv, DrainRelease, TypeOK, CountedAtLeast, One, Dequeued,
     Executing, Publishing, channels, identity, lifecycle, worker,
     WorkerPlaces, ComposerPlaces
<1>2. PlacesOK'
  BY DEF IndInv, DrainRelease, TypeOK, PlacesOK, InHand, Nothing,
     CompletionType, Gens, Results, channels, identity, lifecycle, worker
<1>3. CountedAtLeast'
  BY DEF IndInv, DrainRelease, TypeOK, CountedAtLeast, One, Dequeued,
     Executing, Publishing, channels, identity, lifecycle, worker,
     WorkerPlaces
<1>4. CountersExact'
  BY DEF IndInv, DrainRelease, TypeOK, CountersExact, One, Dequeued,
     Executing, Publishing, channels, identity, lifecycle, worker,
     WorkerPlaces
<1>5. SnapshotSound'
  BY EmptyOK DEF IndInv, DrainRelease, TypeOK, CountedAtLeast,
     SnapshotSound, QuiescenceSound, IsQuiescent, One, Dequeued, Executing,
     Publishing, InHand, channels, identity, lifecycle, worker, WorkerPlaces
<1>6. RoomOK'
  BY ConfigAssumption, EmptyOK DEF IndInv, DrainRelease, TypeOK, RoomOK,
     One, InHand, CompletionCapacity, channels, identity, lifecycle, worker
<1>7. FenceOK'
  BY ConfigAssumption DEF IndInv, DrainRelease, TypeOK, PlacesOK, FenceOK,
     Live, Gens, Committed, channels, identity, lifecycle, worker
<1>8. ResultsOK'
  BY DEF IndInv, DrainRelease, TypeOK, PlacesOK, ResultsOK, InHand, Nothing,
     channels, identity, lifecycle, worker
<1> QED BY <1>1, <1>2, <1>3, <1>4, <1>5, <1>6, <1>7, <1>8 DEF IndInv

\* Discarding commits nothing, whatever entry it clears.
LEMMA DrainDiscardStep == ASSUME IndInv, DrainDiscard PROVE IndInv'
<1>1. TypeOK'
  <2>1. fate' \in [Gens -> Fates]
    BY DEF IndInv, TypeOK, DrainDiscard, Fates, Settled, Committed
  <2>2. active' \in 0..MaxGenerations /\ registry' \in 0..MaxGenerations
    BY ConfigAssumption DEF IndInv, TypeOK, DrainDiscard, Finish
  <2> QED BY <2>1, <2>2
     DEF IndInv, DrainDiscard, TypeOK, channels, counters, lifecycle, worker, ComposerPlaces
<1>2. PlacesOK'
  BY DEF IndInv, DrainDiscard, Finish, TypeOK, PlacesOK, InHand, Nothing,
     CompletionType, Gens, Results, channels, counters, lifecycle, worker
<1>3. CountedAtLeast'
  BY DEF IndInv, DrainDiscard, Finish, TypeOK, CountedAtLeast, One,
     Dequeued, Executing, Publishing, channels, counters, lifecycle, worker,
     WorkerPlaces
<1>4. CountersExact'
  BY DEF IndInv, DrainDiscard, Finish, TypeOK, CountersExact, One, Dequeued,
     Executing, Publishing, channels, counters, lifecycle, worker,
     WorkerPlaces
<1>5. SnapshotSound'
  BY EmptyOK DEF IndInv, DrainDiscard, Finish, TypeOK, CountedAtLeast,
     SnapshotSound, QuiescenceSound, IsQuiescent, One, Dequeued, Executing,
     Publishing, InHand, channels, counters, lifecycle, worker, WorkerPlaces
<1>6. RoomOK'
  BY ConfigAssumption, EmptyOK DEF IndInv, DrainDiscard, Finish, TypeOK,
     RoomOK, One, InHand, CompletionCapacity, channels, counters, lifecycle,
     worker
<1>7. FenceOK'
  BY ConfigAssumption DEF IndInv, DrainDiscard, Finish, TypeOK, PlacesOK,
     FenceOK, Live, Gens, Committed, channels, counters, lifecycle, worker
<1>8. ResultsOK'
  BY DEF IndInv, DrainDiscard, Finish, TypeOK, PlacesOK, ResultsOK, InHand,
     Nothing, channels, counters, lifecycle, worker
<1> QED BY <1>1, <1>2, <1>3, <1>4, <1>5, <1>6, <1>7, <1>8 DEF IndInv

\* The fence lets only the active, uncancelled generation pass.
LEMMA DrainCommitStep == ASSUME IndInv, DrainCommit PROVE IndInv'
<1>1. TypeOK'
  <2>1. fate' \in [Gens -> Fates]
    BY DEF IndInv, TypeOK, DrainCommit, Fates, Settled, Committed, CommitOutcomes
  <2>2. active' \in 0..MaxGenerations /\ registry' \in 0..MaxGenerations
    BY ConfigAssumption DEF IndInv, TypeOK, DrainCommit, Finish
  <2> QED BY <2>1, <2>2
     DEF IndInv, DrainCommit, TypeOK, channels, counters, lifecycle, worker, ComposerPlaces
<1>2. PlacesOK'
  BY DEF IndInv, DrainCommit, Finish, StaleOrCancelled, IsCurrent,
     CommitOutcomes, Committed, TypeOK, PlacesOK, InHand, Nothing,
     CompletionType, Gens, Results, channels, counters, lifecycle, worker
<1>3. CountedAtLeast'
  BY DEF IndInv, DrainCommit, Finish, StaleOrCancelled, IsCurrent,
     CommitOutcomes, Committed, TypeOK, CountedAtLeast, One, Dequeued,
     Executing, Publishing, channels, counters, lifecycle, worker,
     WorkerPlaces
<1>4. CountersExact'
  BY DEF IndInv, DrainCommit, Finish, StaleOrCancelled, IsCurrent,
     CommitOutcomes, Committed, TypeOK, CountersExact, One, Dequeued,
     Executing, Publishing, channels, counters, lifecycle, worker,
     WorkerPlaces
<1>5. SnapshotSound'
  BY EmptyOK DEF IndInv, DrainCommit, Finish, StaleOrCancelled, IsCurrent,
     CommitOutcomes, Committed, TypeOK, CountedAtLeast, SnapshotSound,
     QuiescenceSound, IsQuiescent, One, Dequeued, Executing, Publishing,
     InHand, channels, counters, lifecycle, worker, WorkerPlaces
<1>6. RoomOK'
  BY ConfigAssumption, EmptyOK DEF IndInv, DrainCommit, Finish,
     StaleOrCancelled, IsCurrent, CommitOutcomes, Committed, TypeOK, RoomOK,
     One, InHand, CompletionCapacity, channels, counters, lifecycle, worker
<1>7. FenceOK'
  BY ConfigAssumption DEF IndInv, DrainCommit, Finish, StaleOrCancelled,
     IsCurrent, CommitOutcomes, Committed, TypeOK, PlacesOK, FenceOK, Live,
     Gens, channels, counters, lifecycle, worker
<1>8. ResultsOK'
  BY DEF IndInv, DrainCommit, Finish, StaleOrCancelled, IsCurrent,
     CommitOutcomes, Committed, TypeOK, PlacesOK, ResultsOK, InHand,
     Nothing, channels, counters, lifecycle, worker
<1> QED BY <1>1, <1>2, <1>3, <1>4, <1>5, <1>6, <1>7, <1>8 DEF IndInv

\* A tick begins with the drain.
LEMMA TickStep == ASSUME IndInv, Tick PROVE IndInv'
<1>1. TypeOK'
  BY DEF IndInv, Tick, TypeOK, channels, counters, identity, lifecycle,
     worker, WorkerPlaces, ComposerPlaces
<1>2. PlacesOK'
  BY DEF IndInv, Tick, TypeOK, PlacesOK, InHand, Nothing, CompletionType,
     Gens, Results, channels, counters, identity, lifecycle, worker
<1>3. CountedAtLeast'
  BY DEF IndInv, Tick, TypeOK, CountedAtLeast, One, Dequeued, Executing,
     Publishing, channels, counters, identity, lifecycle, worker,
     WorkerPlaces
<1>4. CountersExact'
  BY DEF IndInv, Tick, TypeOK, CountersExact, One, Dequeued, Executing,
     Publishing, channels, counters, identity, lifecycle, worker,
     WorkerPlaces
<1>5. SnapshotSound'
  BY EmptyOK DEF IndInv, Tick, TypeOK, CountedAtLeast, SnapshotSound,
     QuiescenceSound, IsQuiescent, One, Dequeued, Executing, Publishing,
     InHand, channels, counters, identity, lifecycle, worker, WorkerPlaces
<1>6. RoomOK'
  BY ConfigAssumption, EmptyOK DEF IndInv, Tick, TypeOK, RoomOK, One,
     InHand, CompletionCapacity, channels, counters, identity, lifecycle,
     worker
<1>7. FenceOK'
  BY ConfigAssumption DEF IndInv, Tick, TypeOK, PlacesOK, FenceOK, Live,
     Gens, Committed, channels, counters, identity, lifecycle, worker
<1>8. ResultsOK'
  BY DEF IndInv, Tick, TypeOK, PlacesOK, ResultsOK, InHand, Nothing,
     channels, counters, identity, lifecycle, worker
<1> QED BY <1>1, <1>2, <1>3, <1>4, <1>5, <1>6, <1>7, <1>8 DEF IndInv

\* Stop and mute fence everything outstanding; the active one is cancelled.
LEMMA OverrideStep == ASSUME IndInv, Override PROVE IndInv'
<1>1. TypeOK'
  <2>1. {registry} \ {0} \subseteq Gens
    BY ConfigAssumption DEF IndInv, TypeOK, Gens
  <2>2. cancelled' \subseteq Gens /\ fenced' \subseteq Gens
    BY <2>1 DEF IndInv, TypeOK, Override, Live
  <2> QED BY ConfigAssumption, <2>2
     DEF IndInv, Override, TypeOK, channels, counters, identity, lifecycle, worker, composer, ComposerPlaces
<1>2. PlacesOK'
  BY DEF IndInv, Override, Live, TypeOK, PlacesOK, InHand, Nothing,
     CompletionType, Gens, Results, channels, counters, identity, lifecycle,
     worker
<1>3. CountedAtLeast'
  BY DEF IndInv, Override, Live, TypeOK, CountedAtLeast, One, Dequeued,
     Executing, Publishing, channels, counters, identity, lifecycle, worker,
     WorkerPlaces
<1>4. CountersExact'
  BY DEF IndInv, Override, Live, TypeOK, CountersExact, One, Dequeued,
     Executing, Publishing, channels, counters, identity, lifecycle, worker,
     WorkerPlaces
<1>5. SnapshotSound'
  BY EmptyOK DEF IndInv, Override, Live, TypeOK, CountedAtLeast,
     SnapshotSound, QuiescenceSound, IsQuiescent, One, Dequeued, Executing,
     Publishing, InHand, channels, counters, identity, lifecycle, worker,
     WorkerPlaces
<1>6. RoomOK'
  BY ConfigAssumption, EmptyOK DEF IndInv, Override, Live, TypeOK, RoomOK,
     One, InHand, CompletionCapacity, channels, counters, identity,
     lifecycle, worker
<1>7. FenceOK'
  BY ConfigAssumption DEF IndInv, Override, Live, TypeOK, PlacesOK, FenceOK,
     Gens, Committed, channels, counters, identity, lifecycle, worker
<1>8. ResultsOK'
  BY DEF IndInv, Override, Live, TypeOK, PlacesOK, ResultsOK, InHand,
     Nothing, channels, counters, identity, lifecycle, worker
<1> QED BY <1>1, <1>2, <1>3, <1>4, <1>5, <1>6, <1>7, <1>8 DEF IndInv

\* Shutdown clears the active id, so nothing can pass the fence again.
LEMMA ShutdownStep == ASSUME IndInv, Shutdown PROVE IndInv'
<1>1. TypeOK'
  <2>1. {registry} \ {0} \subseteq Gens
    BY ConfigAssumption DEF IndInv, TypeOK, Gens
  <2>2. cancelled' \subseteq Gens /\ fenced' \subseteq Gens
    BY <2>1 DEF IndInv, TypeOK, Shutdown, Live
  <2>3. shuttingDown' \in BOOLEAN /\ senderOpen' \in BOOLEAN
    BY Zenon DEF IndInv, TypeOK, Shutdown
  <2> QED BY ConfigAssumption, <2>2, <2>3
     DEF IndInv, Shutdown, TypeOK, channels, counters, identity, lifecycle, worker, composer, ComposerPlaces
<1>2. PlacesOK'
  BY DEF IndInv, Shutdown, Live, TypeOK, PlacesOK, InHand, Nothing,
     CompletionType, Gens, Results, channels, counters, worker
<1>3. CountedAtLeast'
  BY DEF IndInv, Shutdown, Live, TypeOK, CountedAtLeast, One, Dequeued,
     Executing, Publishing, channels, counters, worker, WorkerPlaces
<1>4. CountersExact'
  BY DEF IndInv, Shutdown, Live, TypeOK, CountersExact, One, Dequeued,
     Executing, Publishing, channels, counters, worker, WorkerPlaces
<1>5. SnapshotSound'
  BY EmptyOK DEF IndInv, Shutdown, Live, TypeOK, CountedAtLeast,
     SnapshotSound, QuiescenceSound, IsQuiescent, One, Dequeued, Executing,
     Publishing, InHand, channels, counters, worker, WorkerPlaces
<1>6. RoomOK'
  BY ConfigAssumption, EmptyOK DEF IndInv, Shutdown, Live, TypeOK, RoomOK,
     One, InHand, CompletionCapacity, channels, counters, worker
<1>7. FenceOK'
  BY ConfigAssumption DEF IndInv, Shutdown, Live, TypeOK, PlacesOK, FenceOK,
     Gens, Committed, channels, counters, worker
<1>8. ResultsOK'
  BY DEF IndInv, Shutdown, Live, TypeOK, PlacesOK, ResultsOK, InHand,
     Nothing, channels, counters, worker
<1> QED BY <1>1, <1>2, <1>3, <1>4, <1>5, <1>6, <1>7, <1>8 DEF IndInv

\* Closing the work channel changes no job.
LEMMA CloseSenderStep == ASSUME IndInv, CloseSender PROVE IndInv'
<1>1. TypeOK'
  BY DEF IndInv, CloseSender, TypeOK, channels, counters, identity, worker,
     WorkerPlaces, ComposerPlaces
<1>2. PlacesOK'
  BY DEF IndInv, CloseSender, TypeOK, PlacesOK, InHand, Nothing,
     CompletionType, Gens, Results, channels, counters, identity, worker
<1>3. CountedAtLeast'
  BY DEF IndInv, CloseSender, TypeOK, CountedAtLeast, One, Dequeued,
     Executing, Publishing, channels, counters, identity, worker,
     WorkerPlaces
<1>4. CountersExact'
  BY DEF IndInv, CloseSender, TypeOK, CountersExact, One, Dequeued,
     Executing, Publishing, channels, counters, identity, worker,
     WorkerPlaces
<1>5. SnapshotSound'
  BY EmptyOK DEF IndInv, CloseSender, TypeOK, CountedAtLeast, SnapshotSound,
     QuiescenceSound, IsQuiescent, One, Dequeued, Executing, Publishing,
     InHand, channels, counters, identity, worker, WorkerPlaces
<1>6. RoomOK'
  BY ConfigAssumption, EmptyOK DEF IndInv, CloseSender, TypeOK, RoomOK, One,
     InHand, CompletionCapacity, channels, counters, identity, worker
<1>7. FenceOK'
  BY ConfigAssumption DEF IndInv, CloseSender, TypeOK, PlacesOK, FenceOK,
     Live, Gens, Committed, channels, counters, identity, worker
<1>8. ResultsOK'
  BY DEF IndInv, CloseSender, TypeOK, PlacesOK, ResultsOK, InHand, Nothing,
     channels, counters, identity, worker
<1> QED BY <1>1, <1>2, <1>3, <1>4, <1>5, <1>6, <1>7, <1>8 DEF IndInv

\* Dropping the app loses the mailbox and what it held.
LEMMA DropAppStep == ASSUME IndInv, DropApp PROVE IndInv'
<1>1. TypeOK'
  BY EmptyOK DEF IndInv, DropApp, TypeOK, Fates, Settled, Committed,
     counters, identity, worker, WorkerPlaces, ComposerPlaces
<1>2. PlacesOK'
  BY EmptyOK DEF IndInv, DropApp, TypeOK, PlacesOK, InHand, Nothing,
     CompletionType, Gens, Results, counters, identity, worker
<1>3. CountedAtLeast'
  BY EmptyOK DEF IndInv, DropApp, TypeOK, CountedAtLeast, One, Dequeued,
     Executing, Publishing, counters, identity, worker, WorkerPlaces
<1>4. CountersExact'
  BY EmptyOK DEF IndInv, DropApp, TypeOK, CountersExact, One, Dequeued,
     Executing, Publishing, counters, identity, worker, WorkerPlaces
<1>5. SnapshotSound'
  BY EmptyOK DEF IndInv, DropApp, TypeOK, CountedAtLeast, SnapshotSound,
     QuiescenceSound, IsQuiescent, One, Dequeued, Executing, Publishing,
     InHand, counters, identity, worker, WorkerPlaces
<1>6. RoomOK'
  BY ConfigAssumption, EmptyOK DEF IndInv, DropApp, TypeOK, RoomOK, One,
     InHand, CompletionCapacity, counters, identity, worker
<1>7. FenceOK'
  BY ConfigAssumption, EmptyOK DEF IndInv, DropApp, TypeOK, PlacesOK,
     FenceOK, Live, Gens, Committed, counters, identity, worker
<1>8. ResultsOK'
  BY EmptyOK DEF IndInv, DropApp, TypeOK, PlacesOK, ResultsOK, InHand,
     Nothing, counters, identity, worker
<1> QED BY <1>1, <1>2, <1>3, <1>4, <1>5, <1>6, <1>7, <1>8 DEF IndInv

\* A zero in pending means nothing waits and nothing was just dequeued.
LEMMA ReadPendingStep == ASSUME IndInv, ReadPending PROVE IndInv'
<1>1. TypeOK'
  <2>1. snap' \in [pending : Nat, inFlight : Nat, awaiting : Nat]
    BY DEF IndInv, TypeOK, ReadPending
  <2> QED BY <2>1
     DEF IndInv, ReadPending, TypeOK, channels, counters, identity, lifecycle, worker, composer, ComposerPlaces
<1>2. PlacesOK'
  BY DEF IndInv, ReadPending, TypeOK, PlacesOK, InHand, Nothing,
     CompletionType, Gens, Results, channels, counters, identity, lifecycle,
     worker
<1>3. CountedAtLeast'
  BY DEF IndInv, ReadPending, TypeOK, CountedAtLeast, One, Dequeued,
     Executing, Publishing, channels, counters, identity, lifecycle, worker,
     WorkerPlaces
<1>4. CountersExact'
  BY DEF IndInv, ReadPending, TypeOK, CountersExact, One, Dequeued,
     Executing, Publishing, channels, counters, identity, lifecycle, worker,
     WorkerPlaces
<1>5. SnapshotSound'
  BY EmptyOK DEF IndInv, ReadPending, TypeOK, CountedAtLeast, SnapshotSound,
     QuiescenceSound, IsQuiescent, One, Dequeued, Executing, Publishing,
     InHand, channels, counters, identity, lifecycle, worker, WorkerPlaces
<1>6. RoomOK'
  BY ConfigAssumption, EmptyOK DEF IndInv, ReadPending, TypeOK, RoomOK, One,
     InHand, CompletionCapacity, channels, counters, identity, lifecycle,
     worker
<1>7. FenceOK'
  BY ConfigAssumption DEF IndInv, ReadPending, TypeOK, PlacesOK, FenceOK,
     Live, Gens, Committed, channels, counters, identity, lifecycle, worker
<1>8. ResultsOK'
  BY DEF IndInv, ReadPending, TypeOK, PlacesOK, ResultsOK, InHand, Nothing,
     channels, counters, identity, lifecycle, worker
<1> QED BY <1>1, <1>2, <1>3, <1>4, <1>5, <1>6, <1>7, <1>8 DEF IndInv

\* A zero in in_flight, read later, means nothing executes.
LEMMA ReadInFlightStep == ASSUME IndInv, ReadInFlight PROVE IndInv'
<1>1. TypeOK'
  <2>1. snap' \in [pending : Nat, inFlight : Nat, awaiting : Nat]
    BY DEF IndInv, TypeOK, ReadInFlight
  <2> QED BY <2>1
     DEF IndInv, ReadInFlight, TypeOK, channels, counters, identity, lifecycle, worker, composer, ComposerPlaces
<1>2. PlacesOK'
  BY DEF IndInv, ReadInFlight, TypeOK, PlacesOK, InHand, Nothing,
     CompletionType, Gens, Results, channels, counters, identity, lifecycle,
     worker
<1>3. CountedAtLeast'
  BY DEF IndInv, ReadInFlight, TypeOK, CountedAtLeast, One, Dequeued,
     Executing, Publishing, channels, counters, identity, lifecycle, worker,
     WorkerPlaces
<1>4. CountersExact'
  BY DEF IndInv, ReadInFlight, TypeOK, CountersExact, One, Dequeued,
     Executing, Publishing, channels, counters, identity, lifecycle, worker,
     WorkerPlaces
<1>5. SnapshotSound'
  BY EmptyOK DEF IndInv, ReadInFlight, TypeOK, CountedAtLeast,
     SnapshotSound, QuiescenceSound, IsQuiescent, One, Dequeued, Executing,
     Publishing, InHand, channels, counters, identity, lifecycle, worker,
     WorkerPlaces
<1>6. RoomOK'
  BY ConfigAssumption, EmptyOK DEF IndInv, ReadInFlight, TypeOK, RoomOK,
     One, InHand, CompletionCapacity, channels, counters, identity,
     lifecycle, worker
<1>7. FenceOK'
  BY ConfigAssumption DEF IndInv, ReadInFlight, TypeOK, PlacesOK, FenceOK,
     Live, Gens, Committed, channels, counters, identity, lifecycle, worker
<1>8. ResultsOK'
  BY DEF IndInv, ReadInFlight, TypeOK, PlacesOK, ResultsOK, InHand, Nothing,
     channels, counters, identity, lifecycle, worker
<1> QED BY <1>1, <1>2, <1>3, <1>4, <1>5, <1>6, <1>7, <1>8 DEF IndInv

\* A zero in awaiting_drain, read last, means nothing is undrained.
LEMMA ReadAwaitingStep == ASSUME IndInv, ReadAwaiting PROVE IndInv'
<1>1. TypeOK'
  <2>1. snap' \in [pending : Nat, inFlight : Nat, awaiting : Nat]
    BY DEF IndInv, TypeOK, ReadAwaiting
  <2> QED BY <2>1
     DEF IndInv, ReadAwaiting, TypeOK, channels, counters, identity, lifecycle, worker, composer, ComposerPlaces
<1>2. PlacesOK'
  BY DEF IndInv, ReadAwaiting, IsQuiescent, TypeOK, PlacesOK, InHand,
     Nothing, CompletionType, Gens, Results, channels, counters, identity,
     lifecycle, worker
<1>3. CountedAtLeast'
  BY DEF IndInv, ReadAwaiting, IsQuiescent, TypeOK, CountedAtLeast, One,
     Dequeued, Executing, Publishing, channels, counters, identity,
     lifecycle, worker, WorkerPlaces
<1>4. CountersExact'
  BY DEF IndInv, ReadAwaiting, IsQuiescent, TypeOK, CountersExact, One,
     Dequeued, Executing, Publishing, channels, counters, identity,
     lifecycle, worker, WorkerPlaces
<1>5. SnapshotSound'
  BY EmptyOK DEF IndInv, ReadAwaiting, IsQuiescent, TypeOK, CountedAtLeast,
     SnapshotSound, QuiescenceSound, One, Dequeued, Executing, Publishing,
     InHand, channels, counters, identity, lifecycle, worker, WorkerPlaces
<1>6. RoomOK'
  BY ConfigAssumption, EmptyOK DEF IndInv, ReadAwaiting, IsQuiescent,
     TypeOK, RoomOK, One, InHand, CompletionCapacity, channels, counters,
     identity, lifecycle, worker
<1>7. FenceOK'
  BY ConfigAssumption DEF IndInv, ReadAwaiting, IsQuiescent, TypeOK,
     PlacesOK, FenceOK, Live, Gens, Committed, channels, counters, identity,
     lifecycle, worker
<1>8. ResultsOK'
  BY DEF IndInv, ReadAwaiting, IsQuiescent, TypeOK, PlacesOK, ResultsOK,
     InHand, Nothing, channels, counters, identity, lifecycle, worker
<1> QED BY <1>1, <1>2, <1>3, <1>4, <1>5, <1>6, <1>7, <1>8 DEF IndInv

\* Returning the snapshot ends its claims.
LEMMA ReturnSnapshotStep == ASSUME IndInv, ReturnSnapshot PROVE IndInv'
<1>1. TypeOK'
  BY DEF IndInv, ReturnSnapshot, NoSnapshot, TypeOK, channels, counters,
     identity, lifecycle, worker, WorkerPlaces, ComposerPlaces
<1>2. PlacesOK'
  BY DEF IndInv, ReturnSnapshot, NoSnapshot, TypeOK, PlacesOK, InHand,
     Nothing, CompletionType, Gens, Results, channels, counters, identity,
     lifecycle, worker
<1>3. CountedAtLeast'
  BY DEF IndInv, ReturnSnapshot, NoSnapshot, TypeOK, CountedAtLeast, One,
     Dequeued, Executing, Publishing, channels, counters, identity,
     lifecycle, worker, WorkerPlaces
<1>4. CountersExact'
  BY DEF IndInv, ReturnSnapshot, NoSnapshot, TypeOK, CountersExact, One,
     Dequeued, Executing, Publishing, channels, counters, identity,
     lifecycle, worker, WorkerPlaces
<1>5. SnapshotSound'
  BY EmptyOK DEF IndInv, ReturnSnapshot, NoSnapshot, TypeOK, CountedAtLeast,
     SnapshotSound, QuiescenceSound, IsQuiescent, One, Dequeued, Executing,
     Publishing, InHand, channels, counters, identity, lifecycle, worker,
     WorkerPlaces
<1>6. RoomOK'
  BY ConfigAssumption, EmptyOK DEF IndInv, ReturnSnapshot, NoSnapshot,
     TypeOK, RoomOK, One, InHand, CompletionCapacity, channels, counters,
     identity, lifecycle, worker
<1>7. FenceOK'
  BY ConfigAssumption DEF IndInv, ReturnSnapshot, NoSnapshot, TypeOK,
     PlacesOK, FenceOK, Live, Gens, Committed, channels, counters, identity,
     lifecycle, worker
<1>8. ResultsOK'
  BY DEF IndInv, ReturnSnapshot, NoSnapshot, TypeOK, PlacesOK, ResultsOK,
     InHand, Nothing, channels, counters, identity, lifecycle, worker
<1> QED BY <1>1, <1>2, <1>3, <1>4, <1>5, <1>6, <1>7, <1>8 DEF IndInv

\* Taking a job moves its count from the queue to the handoff.
LEMMA WorkerRecvStep == ASSUME IndInv, WorkerRecv PROVE IndInv'
<1>0. /\ queue' \in Seq(Gens) /\ wgen' \in Gens
      /\ Len(queue) \in Nat /\ Len(queue) >= 1 /\ Len(queue') = Len(queue) - 1
  BY TailOK DEF IndInv, TypeOK, WorkerRecv
<1>1. TypeOK'
  BY <1>0, ConfigAssumption, EmptyOK DEF IndInv, WorkerRecv, TypeOK, Gens,
     counters, identity, lifecycle, composer, WorkerPlaces, ComposerPlaces
<1>2. PlacesOK'
  BY <1>0, EmptyOK DEF IndInv, WorkerRecv, TypeOK, PlacesOK, InHand,
     Nothing, CompletionType, Gens, Results, counters, identity, lifecycle,
     composer
<1>3. CountedAtLeast'
  BY <1>0, EmptyOK DEF IndInv, WorkerRecv, TypeOK, CountedAtLeast, One,
     Dequeued, Executing, Publishing, counters, identity, lifecycle,
     composer, WorkerPlaces
<1>4. CountersExact'
  <2>1. /\ wpc = "recv" /\ wpc' = "claim" /\ UNCHANGED <<mailbox, pending, inFlight, awaiting, cpc>>
    BY DEF WorkerRecv, counters, composer
  <2>2. /\ One(Dequeued) = 0 /\ One(Dequeued)' = 1
        /\ One(Executing)' = One(Executing) /\ One(Publishing)' = One(Publishing)
    BY <2>1 DEF One, Dequeued, Executing, Publishing
  <2>3. One(cpc = "send") \in Nat /\ pending \in Nat
    BY DEF IndInv, TypeOK, One
  <2> QED BY <1>0, <2>1, <2>2, <2>3 DEF IndInv, CountersExact
<1>5. SnapshotSound'
  BY <1>0, EmptyOK DEF IndInv, WorkerRecv, TypeOK, CountedAtLeast,
     SnapshotSound, QuiescenceSound, IsQuiescent, One, Dequeued, Executing,
     Publishing, InHand, counters, identity, lifecycle, composer,
     WorkerPlaces
<1>6. RoomOK'
  BY <1>0, ConfigAssumption, EmptyOK DEF IndInv, WorkerRecv, TypeOK, RoomOK,
     One, InHand, CompletionCapacity, counters, identity, lifecycle,
     composer
<1>7. FenceOK'
  BY <1>0, ConfigAssumption, EmptyOK DEF IndInv, WorkerRecv, TypeOK,
     PlacesOK, FenceOK, Live, Gens, Committed, counters, identity,
     lifecycle, composer
<1>8. ResultsOK'
  BY <1>0, EmptyOK DEF IndInv, WorkerRecv, TypeOK, PlacesOK, ResultsOK,
     InHand, Nothing, counters, identity, lifecycle, composer
<1> QED BY <1>1, <1>2, <1>3, <1>4, <1>5, <1>6, <1>7, <1>8 DEF IndInv

\* The worker ends with empty hands.
LEMMA WorkerExitStep == ASSUME IndInv, WorkerExit PROVE IndInv'
<1>1. TypeOK'
  BY EmptyOK DEF IndInv, WorkerExit, TypeOK, channels, counters, identity,
     lifecycle, composer, WorkerPlaces, ComposerPlaces
<1>2. PlacesOK'
  BY EmptyOK DEF IndInv, WorkerExit, TypeOK, PlacesOK, InHand, Nothing,
     CompletionType, Gens, Results, channels, counters, identity, lifecycle,
     composer
<1>3. CountedAtLeast'
  BY EmptyOK DEF IndInv, WorkerExit, TypeOK, CountedAtLeast, One, Dequeued,
     Executing, Publishing, channels, counters, identity, lifecycle,
     composer, WorkerPlaces
<1>4. CountersExact'
  BY EmptyOK DEF IndInv, WorkerExit, TypeOK, CountersExact, One, Dequeued,
     Executing, Publishing, channels, counters, identity, lifecycle,
     composer, WorkerPlaces
<1>5. SnapshotSound'
  BY EmptyOK DEF IndInv, WorkerExit, TypeOK, CountedAtLeast, SnapshotSound,
     QuiescenceSound, IsQuiescent, One, Dequeued, Executing, Publishing,
     InHand, channels, counters, identity, lifecycle, composer, WorkerPlaces
<1>6. RoomOK'
  BY ConfigAssumption, EmptyOK DEF IndInv, WorkerExit, TypeOK, RoomOK, One,
     InHand, CompletionCapacity, channels, counters, identity, lifecycle,
     composer
<1>7. FenceOK'
  BY ConfigAssumption, EmptyOK DEF IndInv, WorkerExit, TypeOK, PlacesOK,
     FenceOK, Live, Gens, Committed, channels, counters, identity,
     lifecycle, composer
<1>8. ResultsOK'
  BY EmptyOK DEF IndInv, WorkerExit, TypeOK, PlacesOK, ResultsOK, InHand,
     Nothing, channels, counters, identity, lifecycle, composer
<1> QED BY <1>1, <1>2, <1>3, <1>4, <1>5, <1>6, <1>7, <1>8 DEF IndInv

\* The job is claimed in flight while it is still pending.
LEMMA ClaimInFlightStep == ASSUME IndInv, ClaimInFlight PROVE IndInv'
<1>1. TypeOK'
  BY DEF IndInv, ClaimInFlight, TypeOK, channels, identity, lifecycle,
     composer, WorkerPlaces, ComposerPlaces
<1>2. PlacesOK'
  BY DEF IndInv, ClaimInFlight, TypeOK, PlacesOK, InHand, Nothing,
     CompletionType, Gens, Results, channels, identity, lifecycle, composer
<1>3. CountedAtLeast'
  BY DEF IndInv, ClaimInFlight, TypeOK, CountedAtLeast, One, Dequeued,
     Executing, Publishing, channels, identity, lifecycle, composer,
     WorkerPlaces
<1>4. CountersExact'
  BY DEF IndInv, ClaimInFlight, TypeOK, CountersExact, One, Dequeued,
     Executing, Publishing, channels, identity, lifecycle, composer,
     WorkerPlaces
<1>5. SnapshotSound'
  BY EmptyOK DEF IndInv, ClaimInFlight, TypeOK, CountedAtLeast,
     SnapshotSound, QuiescenceSound, IsQuiescent, One, Dequeued, Executing,
     Publishing, InHand, channels, identity, lifecycle, composer,
     WorkerPlaces
<1>6. RoomOK'
  BY ConfigAssumption, EmptyOK DEF IndInv, ClaimInFlight, TypeOK, RoomOK,
     One, InHand, CompletionCapacity, channels, identity, lifecycle,
     composer
<1>7. FenceOK'
  BY ConfigAssumption DEF IndInv, ClaimInFlight, TypeOK, PlacesOK, FenceOK,
     Live, Gens, Committed, channels, identity, lifecycle, composer
<1>8. ResultsOK'
  BY DEF IndInv, ClaimInFlight, TypeOK, PlacesOK, ResultsOK, InHand,
     Nothing, channels, identity, lifecycle, composer
<1> QED BY <1>1, <1>2, <1>3, <1>4, <1>5, <1>6, <1>7, <1>8 DEF IndInv

\* Only then pending is released.
LEMMA ReleasePendingStep == ASSUME IndInv, ReleasePending PROVE IndInv'
<1>1. TypeOK'
  BY DEF IndInv, ReleasePending, TypeOK, CountedAtLeast, One, Dequeued,
     Executing, Publishing, channels, identity, lifecycle, composer,
     WorkerPlaces, ComposerPlaces
<1>2. PlacesOK'
  BY DEF IndInv, ReleasePending, TypeOK, PlacesOK, InHand, Nothing,
     CompletionType, Gens, Results, channels, identity, lifecycle, composer
<1>3. CountedAtLeast'
  BY DEF IndInv, ReleasePending, TypeOK, CountedAtLeast, One, Dequeued,
     Executing, Publishing, channels, identity, lifecycle, composer,
     WorkerPlaces
<1>4. CountersExact'
  BY DEF IndInv, ReleasePending, TypeOK, CountersExact, One, Dequeued,
     Executing, Publishing, channels, identity, lifecycle, composer,
     WorkerPlaces
<1>5. SnapshotSound'
  BY EmptyOK DEF IndInv, ReleasePending, TypeOK, CountedAtLeast,
     SnapshotSound, QuiescenceSound, IsQuiescent, One, Dequeued, Executing,
     Publishing, InHand, channels, identity, lifecycle, composer,
     WorkerPlaces
<1>6. RoomOK'
  BY ConfigAssumption, EmptyOK DEF IndInv, ReleasePending, TypeOK, RoomOK,
     One, InHand, CompletionCapacity, channels, identity, lifecycle,
     composer
<1>7. FenceOK'
  BY ConfigAssumption DEF IndInv, ReleasePending, TypeOK, PlacesOK, FenceOK,
     Live, Gens, Committed, channels, identity, lifecycle, composer
<1>8. ResultsOK'
  BY DEF IndInv, ReleasePending, TypeOK, PlacesOK, ResultsOK, InHand,
     Nothing, channels, identity, lifecycle, composer
<1> QED BY <1>1, <1>2, <1>3, <1>4, <1>5, <1>6, <1>7, <1>8 DEF IndInv

\* A job dropped after shutdown is released from in flight on its own.
LEMMA WorkerDropsStep == ASSUME IndInv, WorkerDrops PROVE IndInv'
<1>1. TypeOK'
  <2>1. fate' \in [Gens -> Fates]
    BY DEF IndInv, TypeOK, WorkerDrops, Fates, Settled
  <2>2. inFlight' \in Nat
    BY DEF IndInv, TypeOK, CountedAtLeast, WorkerDrops, One, Executing, WorkerPlaces
  <2> QED BY ConfigAssumption, <2>1, <2>2
     DEF IndInv, WorkerDrops, TypeOK, channels, identity, lifecycle, composer, WorkerPlaces
<1>2. PlacesOK'
  BY DEF IndInv, WorkerDrops, TypeOK, PlacesOK, InHand, Nothing,
     CompletionType, Gens, Results, channels, identity, lifecycle, composer
<1>3. CountedAtLeast'
  BY DEF IndInv, WorkerDrops, TypeOK, CountedAtLeast, One, Dequeued,
     Executing, Publishing, channels, identity, lifecycle, composer,
     WorkerPlaces
<1>4. CountersExact'
  BY DEF IndInv, WorkerDrops, TypeOK, CountersExact, One, Dequeued,
     Executing, Publishing, channels, identity, lifecycle, composer,
     WorkerPlaces
<1>5. SnapshotSound'
  BY EmptyOK DEF IndInv, WorkerDrops, TypeOK, CountedAtLeast, SnapshotSound,
     QuiescenceSound, IsQuiescent, One, Dequeued, Executing, Publishing,
     InHand, channels, identity, lifecycle, composer, WorkerPlaces
<1>6. RoomOK'
  BY ConfigAssumption, EmptyOK DEF IndInv, WorkerDrops, TypeOK, RoomOK, One,
     InHand, CompletionCapacity, channels, identity, lifecycle, composer
<1>7. FenceOK'
  BY ConfigAssumption DEF IndInv, WorkerDrops, TypeOK, PlacesOK, FenceOK,
     Live, Gens, Committed, channels, identity, lifecycle, composer
<1>8. ResultsOK'
  BY DEF IndInv, WorkerDrops, TypeOK, PlacesOK, ResultsOK, InHand, Nothing,
     channels, identity, lifecycle, composer
<1> QED BY <1>1, <1>2, <1>3, <1>4, <1>5, <1>6, <1>7, <1>8 DEF IndInv

\* The pipeline starts.
LEMMA WorkerStartsStep == ASSUME IndInv, WorkerStarts PROVE IndInv'
<1>1. TypeOK'
  BY DEF IndInv, WorkerStarts, TypeOK, channels, counters, identity,
     lifecycle, composer, WorkerPlaces, ComposerPlaces
<1>2. PlacesOK'
  BY DEF IndInv, WorkerStarts, TypeOK, PlacesOK, InHand, Nothing,
     CompletionType, Gens, Results, channels, counters, identity, lifecycle,
     composer
<1>3. CountedAtLeast'
  BY DEF IndInv, WorkerStarts, TypeOK, CountedAtLeast, One, Dequeued,
     Executing, Publishing, channels, counters, identity, lifecycle,
     composer, WorkerPlaces
<1>4. CountersExact'
  BY DEF IndInv, WorkerStarts, TypeOK, CountersExact, One, Dequeued,
     Executing, Publishing, channels, counters, identity, lifecycle,
     composer, WorkerPlaces
<1>5. SnapshotSound'
  BY EmptyOK DEF IndInv, WorkerStarts, TypeOK, CountedAtLeast,
     SnapshotSound, QuiescenceSound, IsQuiescent, One, Dequeued, Executing,
     Publishing, InHand, channels, counters, identity, lifecycle, composer,
     WorkerPlaces
<1>6. RoomOK'
  BY ConfigAssumption, EmptyOK DEF IndInv, WorkerStarts, TypeOK, RoomOK,
     One, InHand, CompletionCapacity, channels, counters, identity,
     lifecycle, composer
<1>7. FenceOK'
  BY ConfigAssumption DEF IndInv, WorkerStarts, TypeOK, PlacesOK, FenceOK,
     Live, Gens, Committed, channels, counters, identity, lifecycle,
     composer
<1>8. ResultsOK'
  BY DEF IndInv, WorkerStarts, TypeOK, PlacesOK, ResultsOK, InHand, Nothing,
     channels, counters, identity, lifecycle, composer
<1> QED BY <1>1, <1>2, <1>3, <1>4, <1>5, <1>6, <1>7, <1>8 DEF IndInv

\* The completion is claimed as undrained while it is still in flight.
LEMMA ClaimDrainStep == ASSUME IndInv, ClaimDrain PROVE IndInv'
<1>1. TypeOK'
  BY DEF IndInv, ClaimDrain, TypeOK, channels, identity, lifecycle,
     composer, WorkerPlaces, ComposerPlaces
<1>2. PlacesOK'
  BY DEF IndInv, ClaimDrain, TypeOK, PlacesOK, InHand, Nothing,
     CompletionType, Gens, Results, channels, identity, lifecycle, composer
<1>3. CountedAtLeast'
  BY DEF IndInv, ClaimDrain, TypeOK, CountedAtLeast, One, Dequeued,
     Executing, Publishing, channels, identity, lifecycle, composer,
     WorkerPlaces
<1>4. CountersExact'
  BY DEF IndInv, ClaimDrain, TypeOK, CountersExact, One, Dequeued,
     Executing, Publishing, channels, identity, lifecycle, composer,
     WorkerPlaces
<1>5. SnapshotSound'
  BY EmptyOK DEF IndInv, ClaimDrain, TypeOK, CountedAtLeast, SnapshotSound,
     QuiescenceSound, IsQuiescent, One, Dequeued, Executing, Publishing,
     InHand, channels, identity, lifecycle, composer, WorkerPlaces
<1>6. RoomOK'
  BY ConfigAssumption, EmptyOK DEF IndInv, ClaimDrain, TypeOK, RoomOK, One,
     InHand, CompletionCapacity, channels, identity, lifecycle, composer
<1>7. FenceOK'
  BY ConfigAssumption DEF IndInv, ClaimDrain, TypeOK, PlacesOK, FenceOK,
     Live, Gens, Committed, channels, identity, lifecycle, composer
<1>8. ResultsOK'
  BY DEF IndInv, ClaimDrain, TypeOK, PlacesOK, ResultsOK, InHand, Nothing,
     channels, identity, lifecycle, composer
<1> QED BY <1>1, <1>2, <1>3, <1>4, <1>5, <1>6, <1>7, <1>8 DEF IndInv

\* Only then in flight is released.
LEMMA ReleaseInFlightStep == ASSUME IndInv, ReleaseInFlight PROVE IndInv'
<1>1. TypeOK'
  BY DEF IndInv, ReleaseInFlight, TypeOK, CountedAtLeast, One, Dequeued,
     Executing, Publishing, channels, identity, lifecycle, composer,
     WorkerPlaces, ComposerPlaces
<1>2. PlacesOK'
  BY DEF IndInv, ReleaseInFlight, TypeOK, PlacesOK, InHand, Nothing,
     CompletionType, Gens, Results, channels, identity, lifecycle, composer
<1>3. CountedAtLeast'
  BY DEF IndInv, ReleaseInFlight, TypeOK, CountedAtLeast, One, Dequeued,
     Executing, Publishing, channels, identity, lifecycle, composer,
     WorkerPlaces
<1>4. CountersExact'
  BY DEF IndInv, ReleaseInFlight, TypeOK, CountersExact, One, Dequeued,
     Executing, Publishing, channels, identity, lifecycle, composer,
     WorkerPlaces
<1>5. SnapshotSound'
  BY EmptyOK DEF IndInv, ReleaseInFlight, TypeOK, CountedAtLeast,
     SnapshotSound, QuiescenceSound, IsQuiescent, One, Dequeued, Executing,
     Publishing, InHand, channels, identity, lifecycle, composer,
     WorkerPlaces
<1>6. RoomOK'
  BY ConfigAssumption, EmptyOK DEF IndInv, ReleaseInFlight, TypeOK, RoomOK,
     One, InHand, CompletionCapacity, channels, identity, lifecycle,
     composer
<1>7. FenceOK'
  BY ConfigAssumption DEF IndInv, ReleaseInFlight, TypeOK, PlacesOK,
     FenceOK, Live, Gens, Committed, channels, identity, lifecycle, composer
<1>8. ResultsOK'
  BY DEF IndInv, ReleaseInFlight, TypeOK, PlacesOK, ResultsOK, InHand,
     Nothing, channels, identity, lifecycle, composer
<1> QED BY <1>1, <1>2, <1>3, <1>4, <1>5, <1>6, <1>7, <1>8 DEF IndInv

\* The completion enters the mailbox, counted before and after.
LEMMA WorkerSendsStep == ASSUME IndInv, WorkerSends PROVE IndInv'
<1>0. /\ [gen |-> wgen, result |-> wresult] \in CompletionType
      /\ mailbox' \in Seq(CompletionType) /\ Len(mailbox') = Len(mailbox) + 1
      /\ \A i \in 1..Len(mailbox') : 
           mailbox'[i] = IF i \in 1..Len(mailbox) THEN mailbox[i] ELSE [gen |-> wgen, result |-> wresult]
  BY AppendOK DEF IndInv, TypeOK, PlacesOK, WorkerSends, InHand, CompletionType, Gens
<1>1. TypeOK'
  BY <1>0, ConfigAssumption DEF IndInv, WorkerSends, TypeOK, Gens, counters,
     identity, lifecycle, composer, WorkerPlaces, ComposerPlaces
<1>2. PlacesOK'
  BY <1>0 DEF IndInv, WorkerSends, TypeOK, PlacesOK, InHand, Nothing,
     CompletionType, Gens, Results, counters, identity, lifecycle, composer
<1>3. CountedAtLeast'
  BY <1>0 DEF IndInv, WorkerSends, TypeOK, CountedAtLeast, One, Dequeued,
     Executing, Publishing, counters, identity, lifecycle, composer,
     WorkerPlaces
<1>4. CountersExact'
  BY <1>0 DEF IndInv, WorkerSends, TypeOK, CountersExact, One, Dequeued,
     Executing, Publishing, counters, identity, lifecycle, composer,
     WorkerPlaces
<1>5. SnapshotSound'
  BY <1>0, EmptyOK DEF IndInv, WorkerSends, TypeOK, CountedAtLeast,
     SnapshotSound, QuiescenceSound, IsQuiescent, One, Dequeued, Executing,
     Publishing, InHand, counters, identity, lifecycle, composer,
     WorkerPlaces
<1>6. RoomOK'
  BY <1>0, ConfigAssumption, EmptyOK DEF IndInv, WorkerSends, TypeOK,
     RoomOK, One, InHand, CompletionCapacity, counters, identity, lifecycle,
     composer
<1>7. FenceOK'
  BY <1>0, ConfigAssumption DEF IndInv, WorkerSends, TypeOK, PlacesOK,
     FenceOK, Live, Gens, Committed, counters, identity, lifecycle, composer
<1>8. ResultsOK'
  BY <1>0 DEF IndInv, WorkerSends, TypeOK, PlacesOK, ResultsOK, InHand,
     Nothing, counters, identity, lifecycle, composer
<1> QED BY <1>1, <1>2, <1>3, <1>4, <1>5, <1>6, <1>7, <1>8 DEF IndInv

\* Without a receiver the drain window is released and the worker ends.
LEMMA WorkerSendFailsStep == ASSUME IndInv, WorkerSendFails PROVE IndInv'
<1>1. TypeOK'
  BY ConfigAssumption, EmptyOK DEF IndInv, WorkerSendFails, TypeOK,
     CountedAtLeast, One, Dequeued, Executing, Publishing, Fates, Settled,
     Committed, Gens, identity, lifecycle, composer, WorkerPlaces,
     ComposerPlaces
<1>2. PlacesOK'
  BY EmptyOK DEF IndInv, WorkerSendFails, TypeOK, PlacesOK, InHand, Nothing,
     CompletionType, Gens, Results, identity, lifecycle, composer
<1>3. CountedAtLeast'
  BY EmptyOK DEF IndInv, WorkerSendFails, TypeOK, CountedAtLeast, One,
     Dequeued, Executing, Publishing, identity, lifecycle, composer,
     WorkerPlaces
<1>4. CountersExact'
  BY EmptyOK DEF IndInv, WorkerSendFails, TypeOK, CountersExact, One,
     Dequeued, Executing, Publishing, identity, lifecycle, composer,
     WorkerPlaces
<1>5. SnapshotSound'
  BY EmptyOK DEF IndInv, WorkerSendFails, TypeOK, CountedAtLeast,
     SnapshotSound, QuiescenceSound, IsQuiescent, One, Dequeued, Executing,
     Publishing, InHand, identity, lifecycle, composer, WorkerPlaces
<1>6. RoomOK'
  BY ConfigAssumption, EmptyOK DEF IndInv, WorkerSendFails, TypeOK, RoomOK,
     One, InHand, CompletionCapacity, identity, lifecycle, composer
<1>7. FenceOK'
  BY ConfigAssumption, EmptyOK DEF IndInv, WorkerSendFails, TypeOK,
     PlacesOK, FenceOK, Live, Gens, Committed, identity, lifecycle, composer
<1>8. ResultsOK'
  BY EmptyOK DEF IndInv, WorkerSendFails, TypeOK, PlacesOK, ResultsOK,
     InHand, Nothing, identity, lifecycle, composer
<1> QED BY <1>1, <1>2, <1>3, <1>4, <1>5, <1>6, <1>7, <1>8 DEF IndInv

\* What any step of the pipeline does: it moves the worker on, and a step that
\* concludes fixes the result.
LEMMA PipelineFrame ==
    ASSUME PipelineStep
    PROVE  /\ wpc \in {"begin", "thinking", "thought", "gate", "tts", "spoken", "compile", "publish"}
           /\ wpc' \in {"thinking", "thought", "gate", "tts", "spoken", "compile", "publish", "claimDrain"}
           /\ UNCHANGED <<channels, counters, cancelled, identity, lifecycle, wgen,
                          composer, expired, fate, fenced>>
           /\ wpc' # "claimDrain" => wresult' = wresult
           /\ wpc' = "claimDrain" =>
                wresult' \in Results /\ (wresult' = "cancelled" => wgen \in cancelled)
BY DEF PipelineStep, BeginInvalid, BeginCancelled, BeginExpired, Think, ThinkingFails,
       ThinkingReplies, CancelledAfterThinking, PassThinking, GateFallsBack, Speak,
       TtsFails, TtsReplies, CancelledAfterTts, PassTts, CompileFails, Compile,
       CancelledBeforePublish, Generate, Conclude, Proceed, Pipeline, Results

\* The pipeline moves no job and touches no counter.
LEMMA PipelineStepStep == ASSUME IndInv, PipelineStep PROVE IndInv'
<1>1. TypeOK'
  BY PipelineFrame DEF IndInv, TypeOK, Results, channels, counters,
     identity, lifecycle, composer, WorkerPlaces, ComposerPlaces
<1>2. PlacesOK'
  BY PipelineFrame DEF IndInv, TypeOK, PlacesOK, InHand, Nothing,
     CompletionType, Gens, Results, channels, counters, identity, lifecycle,
     composer
<1>3. CountedAtLeast'
  BY PipelineFrame DEF IndInv, TypeOK, CountedAtLeast, One, Dequeued,
     Executing, Publishing, channels, counters, identity, lifecycle,
     composer, WorkerPlaces
<1>4. CountersExact'
  BY PipelineFrame DEF IndInv, TypeOK, CountersExact, One, Dequeued,
     Executing, Publishing, channels, counters, identity, lifecycle,
     composer, WorkerPlaces
<1>5. SnapshotSound'
  BY PipelineFrame, EmptyOK DEF IndInv, TypeOK, CountedAtLeast,
     SnapshotSound, QuiescenceSound, IsQuiescent, One, Dequeued, Executing,
     Publishing, InHand, channels, counters, identity, lifecycle, composer,
     WorkerPlaces
<1>6. RoomOK'
  BY PipelineFrame, ConfigAssumption, EmptyOK DEF IndInv, TypeOK, RoomOK,
     One, InHand, CompletionCapacity, channels, counters, identity,
     lifecycle, composer
<1>7. FenceOK'
  BY PipelineFrame, ConfigAssumption DEF IndInv, TypeOK, PlacesOK, FenceOK,
     Live, Gens, Committed, channels, counters, identity, lifecycle,
     composer
<1>8. ResultsOK'
  BY PipelineFrame DEF IndInv, TypeOK, PlacesOK, ResultsOK, InHand, Nothing,
     channels, counters, identity, lifecycle, composer
<1> QED BY <1>1, <1>2, <1>3, <1>4, <1>5, <1>6, <1>7, <1>8 DEF IndInv

\* A panic leaves the counters too high, never too low.
LEMMA WorkerPanicsStep == ASSUME IndInv, WorkerPanics PROVE IndInv'
<1>1. TypeOK'
  BY ConfigAssumption, EmptyOK DEF IndInv, WorkerPanics, TypeOK, Fates,
     Settled, Committed, Gens, counters, identity, lifecycle, composer,
     WorkerPlaces, ComposerPlaces
<1>2. PlacesOK'
  BY EmptyOK DEF IndInv, WorkerPanics, TypeOK, PlacesOK, InHand, Nothing,
     CompletionType, Gens, Results, counters, identity, lifecycle, composer
<1>3. CountedAtLeast'
  <2>1. /\ wpc \in {"thinking", "tts"} /\ wpc' = "dead" /\ queue' = <<>>
        /\ UNCHANGED <<mailbox, pending, inFlight, awaiting, cpc>>
    BY DEF WorkerPanics, counters, composer
  <2>2. /\ One(Dequeued)' = 0 /\ One(Dequeued) = 0 /\ One(Executing)' = 0
        /\ One(Publishing)' = 0 /\ One(Publishing) = 0
    BY <2>1 DEF One, Dequeued, Executing, Publishing
  <2>3. /\ Len(queue) \in Nat /\ Len(queue') = 0 /\ inFlight \in Nat /\ pending \in Nat
        /\ One(cpc = "send") \in Nat /\ One(cpc = "send")' = One(cpc = "send")
        /\ One(cpc = "release")' = One(cpc = "release") /\ Len(mailbox') = Len(mailbox)
    BY <2>1, EmptyOK DEF IndInv, TypeOK, One
  <2>4. /\ pending >= Len(queue) + One(cpc = "send") + One(Dequeued)
        /\ awaiting >= Len(mailbox) + One(Publishing) + One(cpc = "release")
    BY DEF IndInv, CountedAtLeast
  <2>5. pending' >= Len(queue') + One(cpc = "send")' + One(Dequeued)'
    BY <2>1, <2>2, <2>3, <2>4
  <2>6. awaiting' >= Len(mailbox') + One(Publishing)' + One(cpc = "release")'
    BY <2>1, <2>2, <2>3, <2>4
  <2>7. inFlight' >= One(Executing)'
    BY <2>1, <2>2, <2>3
  <2> QED BY <2>5, <2>6, <2>7 DEF CountedAtLeast
<1>4. CountersExact'
  BY EmptyOK DEF IndInv, WorkerPanics, TypeOK, CountersExact, One, Dequeued,
     Executing, Publishing, counters, identity, lifecycle, composer,
     WorkerPlaces
<1>5. SnapshotSound'
  BY EmptyOK DEF IndInv, WorkerPanics, TypeOK, CountedAtLeast,
     SnapshotSound, QuiescenceSound, IsQuiescent, One, Dequeued, Executing,
     Publishing, InHand, counters, identity, lifecycle, composer,
     WorkerPlaces
<1>6. RoomOK'
  BY ConfigAssumption, EmptyOK DEF IndInv, WorkerPanics, TypeOK, RoomOK,
     One, InHand, CompletionCapacity, counters, identity, lifecycle,
     composer
<1>7. FenceOK'
  BY ConfigAssumption, EmptyOK DEF IndInv, WorkerPanics, TypeOK, PlacesOK,
     FenceOK, Live, Gens, Committed, counters, identity, lifecycle, composer
<1>8. ResultsOK'
  BY EmptyOK DEF IndInv, WorkerPanics, TypeOK, PlacesOK, ResultsOK, InHand,
     Nothing, counters, identity, lifecycle, composer
<1> QED BY <1>1, <1>2, <1>3, <1>4, <1>5, <1>6, <1>7, <1>8 DEF IndInv

\* A deadline that passes only adds a reason to discard.
LEMMA ExpireStep == ASSUME NEW g \in Gens, IndInv, Expire(g) PROVE IndInv'
<1>1. TypeOK'
  BY DEF IndInv, Expire, Live, TypeOK, PlacesOK, channels, counters,
     identity, lifecycle, worker, composer, WorkerPlaces, ComposerPlaces
<1>2. PlacesOK'
  BY DEF IndInv, Expire, Live, TypeOK, PlacesOK, InHand, Nothing,
     CompletionType, Gens, Results, channels, counters, identity, lifecycle,
     worker, composer
<1>3. CountedAtLeast'
  BY DEF IndInv, Expire, Live, TypeOK, CountedAtLeast, One, Dequeued,
     Executing, Publishing, channels, counters, identity, lifecycle, worker,
     composer, WorkerPlaces
<1>4. CountersExact'
  BY DEF IndInv, Expire, Live, TypeOK, CountersExact, One, Dequeued,
     Executing, Publishing, channels, counters, identity, lifecycle, worker,
     composer, WorkerPlaces
<1>5. SnapshotSound'
  BY EmptyOK DEF IndInv, Expire, Live, TypeOK, CountedAtLeast,
     SnapshotSound, QuiescenceSound, IsQuiescent, One, Dequeued, Executing,
     Publishing, InHand, channels, counters, identity, lifecycle, worker,
     composer, WorkerPlaces
<1>6. RoomOK'
  BY ConfigAssumption, EmptyOK DEF IndInv, Expire, Live, TypeOK, RoomOK,
     One, InHand, CompletionCapacity, channels, counters, identity,
     lifecycle, worker, composer
<1>7. FenceOK'
  BY ConfigAssumption DEF IndInv, Expire, Live, TypeOK, PlacesOK, FenceOK,
     Gens, Committed, channels, counters, identity, lifecycle, worker,
     composer
<1>8. ResultsOK'
  BY DEF IndInv, Expire, Live, TypeOK, PlacesOK, ResultsOK, InHand, Nothing,
     channels, counters, identity, lifecycle, worker, composer
<1> QED BY <1>1, <1>2, <1>3, <1>4, <1>5, <1>6, <1>7, <1>8 DEF IndInv

-----------------------------------------------------------------------------
(* The invariant.                                                          *)

\* The inductive invariant holds initially.
LEMMA InitInv == ASSUME Init PROVE IndInv
<1>1. TypeOK
  <2>1. queue \in Seq(Gens) /\ mailbox \in Seq(CompletionType)
    BY EmptyOK DEF Init
  <2>2. snap \in [pending : Nat, inFlight : Nat, awaiting : Nat] /\ fate \in [Gens -> Fates]
        /\ eventOf \in [Gens -> Events \cup {NoEvent}]
    BY DEF Init, NoSnapshot, Fates
  <2>3. shuttingDown \in BOOLEAN /\ senderOpen \in BOOLEAN
    BY Zenon DEF Init
  <2>4. 0 \in 0..MaxGenerations
    BY ConfigAssumption
  <2>5. cancelled \subseteq Gens /\ expired \subseteq Gens /\ fenced \subseteq Gens
    BY DEF Init
  <2> QED BY <2>1, <2>2, <2>3, <2>4, <2>5 DEF Init, TypeOK, WorkerPlaces, ComposerPlaces
<1>2. PlacesOK
  BY DEF Init, PlacesOK, InHand
<1>3. CountedAtLeast /\ CountersExact
  BY EmptyOK DEF Init, CountedAtLeast, CountersExact, One, Dequeued, Executing, Publishing
<1>4. SnapshotSound
  BY DEF Init, SnapshotSound, QuiescenceSound
<1>5. RoomOK
  BY ConfigAssumption, EmptyOK DEF Init, RoomOK, One, InHand, CompletionCapacity
<1>6. FenceOK
  BY DEF Init, FenceOK, Live
<1>7. ResultsOK
  BY EmptyOK DEF Init, ResultsOK, Nothing
<1> QED BY <1>1, <1>2, <1>3, <1>4, <1>5, <1>6, <1>7 DEF IndInv

\* Every step of either thread, of the providers and of the clock keeps it.
LEMMA NextInv == ASSUME IndInv, [Next]_vars PROVE IndInv'
<1>1. CASE WorkerStep
  BY <1>1, WorkerRecvStep, WorkerExitStep, ClaimInFlightStep, ReleasePendingStep,
     WorkerDropsStep, WorkerStartsStep, PipelineStepStep, ClaimDrainStep,
     ReleaseInFlightStep, WorkerSendsStep, WorkerSendFailsStep, Zenon DEF WorkerStep
<1>2. CASE ComposerStep
  BY <1>2, RouteElsewhereStep, SubmitRefusedStep, SubmitClaimStep, TrySendStep,
     TrySendFailsStep, ActivateStep, DrainEmptyStep, DrainTakeStep, DrainReleaseStep,
     DrainDiscardStep, DrainCommitStep, CloseSenderStep, ReadInFlightStep,
     ReadAwaitingStep, ReturnSnapshotStep, Zenon DEF ComposerStep
<1>3. CASE ComposerCall
  BY <1>3, ProcessContentStep, TickStep, OverrideStep, ShutdownStep, DropAppStep,
     ReadPendingStep, Zenon DEF ComposerCall
<1>4. CASE WorkerPanics
  BY <1>4, WorkerPanicsStep
<1>5. CASE \E g \in Gens : Expire(g)
  BY <1>5, ExpireStep
<1>6. CASE UNCHANGED vars
  <2>1. TypeOK' /\ PlacesOK' /\ CountedAtLeast' /\ CountersExact'
    BY <1>6 DEF IndInv, vars, TypeOK, PlacesOK, CountedAtLeast, CountersExact, InHand,
                Dequeued, Executing, Publishing
  <2>2. SnapshotSound' /\ RoomOK'
    BY <1>6 DEF IndInv, vars, SnapshotSound, QuiescenceSound, RoomOK, InHand, Dequeued, Executing
  <2>3. FenceOK' /\ ResultsOK'
    BY <1>6 DEF IndInv, vars, FenceOK, ResultsOK, Live
  <2> QED BY <2>1, <2>2, <2>3 DEF IndInv
<1> QED BY <1>1, <1>2, <1>3, <1>4, <1>5, <1>6 DEF Next

\* IndInv is an invariant of the generation executor.
THEOREM GenerationInductive == Spec => []IndInv
<1>1. Init => IndInv
  BY InitInv
<1>2. IndInv /\ [Next]_vars => IndInv'
  BY NextInv
<1> QED BY <1>1, <1>2, PTL DEF Spec

\* The variables keep their types and no counter wraps below zero.
THEOREM GenerationTypes == Spec => []TypeOK
<1>1. IndInv => TypeOK
  BY DEF IndInv
<1> QED BY <1>1, GenerationInductive, PTL

\* The three counters are exact between any two atomic accesses.
THEOREM CountersAccount == Spec => []CountersExact
<1>1. IndInv => CountersExact
  BY DEF IndInv
<1> QED BY <1>1, GenerationInductive, PTL

\* is_quiescent is sound for every interleaving of its loads with the worker.
THEOREM QuiescenceIsSound == Spec => []QuiescenceSound
<1>1. IndInv => QuiescenceSound
  BY DEF IndInv, SnapshotSound
<1> QED BY <1>1, GenerationInductive, PTL

\* No generation overtaken by a newer submission, a more urgent event or an
\* operator command is ever committed.
THEOREM NothingOvertakenCommits == Spec => []FencedNeverCommitted
<1>1. IndInv => FencedNeverCommitted
  BY DEF IndInv, FenceOK, FencedNeverCommitted
<1> QED BY <1>1, GenerationInductive, PTL

\* A mailbox of queue_capacity + 1 never leaves the worker blocked between calls.
THEOREM MailboxHasRoom == Spec => []MailboxSufficient
<1>1. ASSUME IndInv, cpc = "idle", wpc = "send" PROVE Len(mailbox) < CompletionCapacity
  <2>1. One(InHand) = 1 /\ One(cpc \in {"activate", "drain", "release", "settle"}) = 0
    BY <1>1 DEF One, InHand
  <2>2. Len(queue) \in Nat /\ Len(mailbox) \in Nat /\ CompletionCapacity \in Nat
    BY <1>1, ConfigAssumption DEF IndInv, TypeOK, CompletionCapacity
  <2> QED BY <1>1, <2>1, <2>2 DEF IndInv, RoomOK
<1>2. IndInv => MailboxSufficient
  BY <1>1 DEF MailboxSufficient
<1> QED BY <1>2, GenerationInductive, PTL

\* A result the pipeline cut short is never committed.
THEOREM CutShortNeverCommits == Spec => CancelledNeverCommitted
<1> DEFINE A == \A g \in Gens : fate'[g] \in Committed /\ fate[g] \notin Committed =>
                  cdone.gen = g /\ cdone.result # "cancelled"
<1>1. IndInv /\ [Next]_vars => [A]_vars
  <2> SUFFICES ASSUME IndInv, Next, NEW g \in Gens,
                      fate'[g] \in Committed, fate[g] \notin Committed
               PROVE  cdone.gen = g /\ cdone.result # "cancelled"
    OBVIOUS
  <2>1. fate \in [Gens -> Fates]
    BY DEF IndInv, TypeOK
  <2>2. ~WorkerStep
    BY <2>1, PipelineFrame DEF WorkerStep, WorkerRecv, WorkerExit, ClaimInFlight, ReleasePending,
       WorkerDrops, WorkerStarts, ClaimDrain, ReleaseInFlight, WorkerSends,
       WorkerSendFails, Committed
  <2>3. ~ComposerCall
    BY <2>1 DEF ComposerCall, ProcessContent, Tick, Override, Shutdown, DropApp, ReadPending,
       Committed
  <2>4. ~WorkerPanics /\ ~(\E h \in Gens : Expire(h))
    BY <2>1 DEF WorkerPanics, Expire, Committed
  <2>5. DrainCommit
    BY <2>1, <2>2, <2>3, <2>4 DEF Next, ComposerStep, RouteElsewhere, SubmitRefused,
       SubmitClaim, TrySend, TrySendFails, Activate, DrainEmpty, DrainTake, DrainRelease,
       DrainDiscard, CloseSender, ReadInFlight, ReadAwaiting, ReturnSnapshot, Committed
  <2>6. cdone.gen = g /\ cdone.gen \notin cancelled
    BY <2>1, <2>5 DEF DrainCommit, StaleOrCancelled
  <2> QED BY <2>6 DEF IndInv, ResultsOK
<1> QED BY <1>1, GenerationInductive, PTL DEF Spec, CancelledNeverCommitted
-----------------------------------------------------------------------------
(* Where the jobs are.                                                     *)

\* The composition thread has a completion in its hands.
ComposerHolds == cpc \in {"release", "settle"}

\* Generations are numbers.
LEMMA GensNat == Gens \subseteq Nat
BY ConfigAssumption DEF Gens

\* Completions carry generations.
LEMMA MailboxGens ==
    ASSUME mailbox \in Seq(CompletionType)
    PROVE  \A i \in 1..Len(mailbox) : mailbox[i].gen \in Gens /\ mailbox[i].gen \in Nat
<1>1. ASSUME NEW i \in 1..Len(mailbox) PROVE mailbox[i] \in CompletionType
  OBVIOUS
<1>2. \A c \in CompletionType : c.gen \in Gens
  BY DEF CompletionType
<1>3. Gens \subseteq Nat
  BY ConfigAssumption DEF Gens
<1> QED BY <1>1, <1>2, <1>3

\* A step that moves no job and settles none.
LEMMA JobsFrame ==
    ASSUME JobsInv, UNCHANGED <<queue, mailbox, wgen, cdone>>, Live' = Live,
           InHand' <=> InHand, ComposerHolds' <=> ComposerHolds
    PROVE  JobsInv'
  BY DEF JobsInv, FifoOK, LiveOK, InQueue, InMailbox, ComposerHolds

\* A new job is the youngest of all.
LEMMA TrySendJobs == ASSUME IndInv, JobsInv, TrySend PROVE JobsInv'
<1>1. /\ queue \in Seq(Gens) /\ nextId \in Gens /\ mailbox \in Seq(CompletionType)
      /\ queue' = Append(queue, nextId) /\ nextId \notin Live
      /\ \A g \in Live : g < nextId
      /\ fate \in [Gens -> Fates] /\ Gens \subseteq Nat
  <2>1. queue \in Seq(Gens) /\ mailbox \in Seq(CompletionType) /\ fate \in [Gens -> Fates]
    BY DEF IndInv, TypeOK
  <2>2. nextId \in Gens /\ Gens \subseteq Nat
    BY ConfigAssumption DEF IndInv, TypeOK, PlacesOK, TrySend, Gens
  <2>3. queue' = Append(queue, nextId)
    BY DEF TrySend
  <2>4. \A g \in Live : g < nextId
    BY <2>2 DEF IndInv, FenceOK, TrySend, Live
  <2> QED BY <2>1, <2>2, <2>3, <2>4
<1>2. InQueue' = InQueue \cup {nextId} 
  BY <1>1, AppendOK DEF InQueue
<1>3. Live' = Live \cup {nextId} /\ InMailbox' = InMailbox /\ (InHand' <=> InHand) /\ wgen' = wgen
  BY <1>1 DEF Live, TrySend, InMailbox, InHand, worker
<1>4. cpc' \notin {"release", "settle"} /\ cpc \notin {"release", "settle"}
  BY DEF TrySend
<1>5. LiveOK'
  BY <1>2, <1>3, <1>4, Zenon DEF JobsInv, LiveOK
<1>6. \A i, j \in 1..Len(queue') : i < j => queue'[i] < queue'[j]
  <2>1. \A i \in 1..Len(queue) : queue[i] < nextId
    BY <1>1 DEF JobsInv, LiveOK, InQueue
  <2>2. /\ Len(queue) \in Nat /\ Len(queue') = Len(queue) + 1
        /\ \A i \in 1..Len(queue') :
              queue'[i] = IF i \in 1..Len(queue) THEN queue[i] ELSE nextId
    BY <1>1, AppendOK
  <2>3. \A i, j \in 1..Len(queue) : i < j => queue[i] < queue[j]
    BY DEF JobsInv, FifoOK
  <2> QED BY <2>1, <2>2, <2>3
<1>7. FifoOK'
  <2>1. \A m \in InMailbox : m < nextId
    BY <1>1 DEF JobsInv, LiveOK
  <2>2. InHand => wgen < nextId
    BY <1>1 DEF JobsInv, LiveOK
  <2>3. mailbox' = mailbox
    BY DEF TrySend
  <2> QED BY <1>2, <1>3, <1>4, <1>6, <2>1, <2>2, <2>3 DEF JobsInv, FifoOK
<1> QED BY <1>5, <1>7 DEF JobsInv

\* The composition thread takes the oldest completion.
LEMMA DrainTakeJobs == ASSUME IndInv, JobsInv, DrainTake PROVE JobsInv'
<1>1. /\ mailbox \in Seq(CompletionType) /\ mailbox # <<>> /\ mailbox' = Tail(mailbox)
      /\ cdone' = mailbox[1] /\ queue' = queue /\ wgen' = wgen /\ (InHand' <=> InHand)
      /\ Live' = Live /\ cpc = "drain" /\ cpc' = "release"
      /\ \A i \in 1..Len(mailbox) : mailbox[i].gen \in Nat
  <2>1. mailbox \in Seq(CompletionType) /\ mailbox # <<>>
    BY DEF IndInv, TypeOK, DrainTake
  <2>2. mailbox' = Tail(mailbox) /\ cdone' = mailbox[1]
    BY <2>1, TailOK DEF DrainTake
  <2>3. queue' = queue /\ wgen' = wgen /\ (InHand' <=> InHand) /\ Live' = Live
    BY DEF DrainTake, InHand, worker, Live
  <2>4. cpc = "drain" /\ cpc' = "release"
    BY DEF DrainTake
  <2>5. \A i \in 1..Len(mailbox) : mailbox[i].gen \in Nat
    BY <2>1, MailboxGens
  <2> QED BY <2>1, <2>2, <2>3, <2>4, <2>5
<1>2. InMailbox = InMailbox' \cup {cdone'.gen} /\ \A g \in InMailbox' : cdone'.gen < g
  <2>1. /\ Len(mailbox) \in Nat /\ Len(mailbox) >= 1 /\ Len(mailbox') = Len(mailbox) - 1
        /\ \A i \in 1..Len(mailbox') : i + 1 \in 1..Len(mailbox) /\ mailbox'[i] = mailbox[i + 1]
    BY <1>1, TailOK
  <2>2. \A i \in 2..Len(mailbox) : i - 1 \in 1..Len(mailbox') /\ mailbox[i] = mailbox'[i - 1]
    BY <2>1
  <2>3. \A g \in InMailbox' : g \in InMailbox /\ cdone'.gen < g
    BY <1>1, <2>1 DEF InMailbox, JobsInv, FifoOK
  <2>4. \A g \in InMailbox : g = cdone'.gen \/ g \in InMailbox'
    <3> SUFFICES ASSUME NEW i \in 1..Len(mailbox) 
                 PROVE  mailbox[i].gen = cdone'.gen \/ mailbox[i].gen \in InMailbox'
      BY DEF InMailbox
    <3>1. CASE i = 1
      BY <3>1, <1>1
    <3>2. CASE i # 1
      <4>1. i - 1 \in 1..Len(mailbox') /\ mailbox[i] = mailbox'[i - 1]
        BY <3>2, <2>1, <2>2
      <4> QED BY <4>1 DEF InMailbox
    <3> QED BY <3>1, <3>2
  <2>5. cdone'.gen \in InMailbox
    BY <1>1, <2>1 DEF InMailbox
  <2> QED BY <2>3, <2>4, <2>5
<1>3. \A i, j \in 1..Len(mailbox') : i < j => mailbox'[i].gen < mailbox'[j].gen
  BY <1>1, TailOK DEF JobsInv, FifoOK
<1>4. InQueue' = InQueue
  BY <1>1 DEF InQueue
<1>5. LiveOK'
  BY <1>1, <1>2, <1>4 DEF JobsInv, LiveOK
<1>6. FifoOK'
  BY <1>1, <1>2, <1>3, <1>4 DEF JobsInv, FifoOK
<1> QED BY <1>5, <1>6 DEF JobsInv

\* The completion in hand is settled and is nowhere else.
LEMMA SettleJobs ==
    ASSUME IndInv, JobsInv, DrainDiscard \/ DrainCommit PROVE JobsInv'
<1>1. /\ queue' = queue /\ mailbox' = mailbox /\ wgen' = wgen /\ (InHand' <=> InHand)
      /\ cpc = "settle" /\ cpc' = "drain"
  BY DEF DrainDiscard, DrainCommit, InHand, channels, worker
<1>2. cdone.gen \in Gens /\ cdone.gen \in Live
  <2>1. cdone.gen \in Live
    BY <1>1 DEF JobsInv, LiveOK
  <2> QED BY <2>1 DEF Live
<1>3. \E outcome \in Settled : fate' = [fate EXCEPT ![cdone.gen] = outcome]
  BY DEF DrainDiscard, DrainCommit, CommitOutcomes, Settled, Committed
<1>4. Live' = Live \ {cdone.gen}
  <2>1. fate \in [Gens -> Fates]
    BY DEF IndInv, TypeOK
  <2> QED BY <1>2, <1>3, <2>1 DEF Live, Settled
<1>5. InQueue' = InQueue /\ InMailbox' = InMailbox
  BY <1>1 DEF InQueue, InMailbox
<1>6. cdone.gen \notin InQueue \cup InMailbox \cup (IF InHand THEN {wgen} ELSE {})
  <2>1. cdone.gen \in Nat
    BY <1>2, GensNat
  <2>2. \A g \in InMailbox \cup InQueue : cdone.gen < g
    BY <1>1 DEF JobsInv, FifoOK
  <2>3. InHand => cdone.gen < wgen
    BY <1>1 DEF JobsInv, FifoOK
  <2> QED BY <2>1, <2>2, <2>3
<1>7. LiveOK'
  BY <1>1, <1>4, <1>5, <1>6 DEF JobsInv, LiveOK
<1>8. FifoOK'
  BY <1>1, <1>5 DEF JobsInv, FifoOK
<1> QED BY <1>7, <1>8 DEF JobsInv

\* The app goes with the mailbox.
LEMMA DropAppJobs == ASSUME IndInv, JobsInv, DropApp PROVE JobsInv'
<1>1. /\ queue' = queue /\ mailbox' = <<>> /\ wgen' = wgen /\ (InHand' <=> InHand)
      /\ cpc = "idle" /\ cpc' = "gone"
  BY DEF DropApp, InHand, worker
<1>2. InQueue' = InQueue /\ InMailbox' = {}
  BY <1>1 DEF InQueue, InMailbox
<1>3. Live' = Live \ InMailbox
  <2>1. fate' = [g \in Gens |-> IF g \in InMailbox THEN "lost" ELSE fate[g]]
    BY DEF DropApp
  <2> QED BY <2>1 DEF Live
<1>4. InMailbox \cap (InQueue \cup (IF InHand THEN {wgen} ELSE {})) = {}
  <2>1. InMailbox \subseteq Nat
    BY MailboxGens DEF InMailbox, IndInv, TypeOK
  <2>2. \A m \in InMailbox, q \in InQueue : m < q
    BY DEF JobsInv, FifoOK
  <2>3. InHand => \A m \in InMailbox : m < wgen
    BY DEF JobsInv, FifoOK
  <2>4. ASSUME NEW m \in InMailbox PROVE m \notin InQueue /\ (InHand => m # wgen)
    BY <2>1, <2>2, <2>3
  <2> QED BY <2>4
<1>5. LiveOK'
  BY <1>1, <1>2, <1>3, <1>4 DEF JobsInv, LiveOK
<1>6. FifoOK'
  BY <1>1, <1>2 DEF JobsInv, FifoOK
<1> QED BY <1>5, <1>6 DEF JobsInv

\* The worker takes the oldest job.
LEMMA WorkerRecvJobs == ASSUME IndInv, JobsInv, WorkerRecv PROVE JobsInv'
<1>1. /\ queue \in Seq(Gens) /\ queue # <<>> /\ queue' = Tail(queue) /\ wgen' = queue[1]
      /\ mailbox' = mailbox /\ cpc' = cpc /\ cdone' = cdone /\ ~InHand /\ InHand'
      /\ Live' = Live
  BY TailOK DEF IndInv, TypeOK, WorkerRecv, InHand, composer, Live
<1>2. InQueue = InQueue' \cup {wgen'} /\ \A q \in InQueue' : wgen' < q
  <2>1. /\ Len(queue) \in Nat /\ Len(queue) >= 1 /\ Len(queue') = Len(queue) - 1
        /\ \A i \in 1..Len(queue') : i + 1 \in 1..Len(queue) /\ queue'[i] = queue[i + 1]
    BY <1>1, TailOK
  <2>2. \A q \in InQueue' : q \in InQueue /\ wgen' < q
    BY <1>1, <2>1 DEF InQueue, JobsInv, FifoOK
  <2>3. ASSUME NEW i \in 1..Len(queue) PROVE queue[i] = wgen' \/ queue[i] \in InQueue'
    <3>1. CASE i = 1
      BY <3>1, <1>1
    <3>2. CASE i # 1
      <4>1. i - 1 \in 1..Len(queue') /\ (i - 1) + 1 = i
        BY <3>2, <2>1
      <4>2. queue'[i - 1] = queue[i]
        BY <4>1, <2>1
      <4> QED BY <4>1, <4>2 DEF InQueue
    <3> QED BY <3>1, <3>2
  <2>4. wgen' \in InQueue
    BY <1>1, <2>1 DEF InQueue
  <2> QED BY <2>2, <2>3, <2>4 DEF InQueue
<1>3. \A i, j \in 1..Len(queue') : i < j => queue'[i] < queue'[j]
  <2>1. /\ Len(queue) \in Nat /\ Len(queue') \in Nat
        /\ \A i \in 1..Len(queue') : i + 1 \in 1..Len(queue) /\ queue'[i] = queue[i + 1]
    BY <1>1, TailOK
  <2>2. \A i, j \in 1..Len(queue) : i < j => queue[i] < queue[j]
    BY DEF JobsInv, FifoOK
  <2> QED BY <2>1, <2>2
<1>4. InMailbox' = InMailbox
  BY <1>1 DEF InMailbox
<1>5. LiveOK'
  BY <1>1, <1>2, <1>4 DEF JobsInv, LiveOK
<1>6. FifoOK'
  BY <1>1, <1>2, <1>3, <1>4 DEF JobsInv, FifoOK
<1> QED BY <1>5, <1>6 DEF JobsInv

\* After a shutdown the worker drops the job in its hands.
LEMMA WorkerDropsJobs == ASSUME IndInv, JobsInv, WorkerDrops PROVE JobsInv'
<1>1. /\ queue' = queue /\ mailbox' = mailbox /\ cpc' = cpc /\ cdone' = cdone
      /\ InHand /\ ~InHand'
  BY DEF WorkerDrops, InHand, channels, composer
<1>2. InQueue' = InQueue /\ InMailbox' = InMailbox
  BY <1>1 DEF InQueue, InMailbox
<1>3. wgen \in Live
  BY <1>1 DEF JobsInv, LiveOK
<1>4. Live' = Live \ {wgen}
  <2>1. fate \in [Gens -> Fates] /\ fate' = [fate EXCEPT ![wgen] = "dropped"]
    BY DEF WorkerDrops, IndInv, TypeOK
  <2> QED BY <1>3, <2>1 DEF Live
<1>5. wgen \notin InQueue \cup InMailbox \cup (IF ComposerHolds THEN {cdone.gen} ELSE {})
  <2>1. wgen \in Nat
    BY <1>3, GensNat DEF Live
  <2> QED BY <1>1, <2>1 DEF JobsInv, FifoOK, ComposerHolds
<1>6. LiveOK'
  BY <1>1, <1>2, <1>4, <1>5 DEF JobsInv, LiveOK, ComposerHolds
<1>7. FifoOK'
  BY <1>1, <1>2 DEF JobsInv, FifoOK
<1> QED BY <1>6, <1>7 DEF JobsInv

\* The worker posts its completion behind the ones that wait.
LEMMA WorkerSendsJobs == ASSUME IndInv, JobsInv, WorkerSends PROVE JobsInv'
<1> DEFINE c == [gen |-> wgen, result |-> wresult]
<1>1. /\ queue' = queue /\ mailbox' = Append(mailbox, c) /\ cpc' = cpc /\ cdone' = cdone
      /\ InHand /\ ~InHand' /\ Live' = Live
  BY DEF WorkerSends, InHand, composer, Live
<1>2. /\ mailbox \in Seq(CompletionType) /\ c \in CompletionType /\ c.gen = wgen
  <2>1. wgen \in Gens
    BY <1>1 DEF JobsInv, LiveOK, Live
  <2>2. wresult \in Results
    BY DEF WorkerSends, IndInv, PlacesOK, TypeOK
  <2> QED BY <2>1, <2>2 DEF CompletionType, IndInv, TypeOK
<1>3. /\ Len(mailbox) \in Nat /\ Len(mailbox') = Len(mailbox) + 1
      /\ \A i \in 1..Len(mailbox') :
            mailbox'[i] = IF i \in 1..Len(mailbox) THEN mailbox[i] ELSE c
  <2> HIDE DEF c
  <2> QED BY <1>1, <1>2, AppendOK
<1>4. InQueue' = InQueue
  BY <1>1 DEF InQueue
<1>5. InMailbox' = InMailbox \cup {wgen}
  <2>1. \A i \in 1..Len(mailbox') :
           mailbox'[i].gen = IF i \in 1..Len(mailbox) THEN mailbox[i].gen ELSE wgen
    BY <1>2, <1>3
  <2>2. \A i \in 1..Len(mailbox) : i \in 1..Len(mailbox') /\ mailbox'[i].gen = mailbox[i].gen
    BY <1>3, <2>1
  <2>3. Len(mailbox') \in 1..Len(mailbox') /\ Len(mailbox') \notin 1..Len(mailbox)
    BY <1>3
  <2> QED BY <2>1, <2>2, <2>3 DEF InMailbox
<1>6. \A i, j \in 1..Len(mailbox') : i < j => mailbox'[i].gen < mailbox'[j].gen
  <2>1. \A i \in 1..Len(mailbox) : mailbox[i].gen < wgen
    BY <1>1 DEF JobsInv, FifoOK, InMailbox
  <2> QED BY <1>2, <1>3, <2>1 DEF JobsInv, FifoOK
<1>7. LiveOK'
  BY <1>1, <1>4, <1>5 DEF JobsInv, LiveOK
<1>8. FifoOK'
  BY <1>1, <1>4, <1>5, <1>6 DEF JobsInv, FifoOK
<1> QED BY <1>7, <1>8 DEF JobsInv

\* A worker that ends with a job in its hands takes the queue with it.
LEMMA WorkerEndsJobs ==
    ASSUME IndInv, JobsInv, WorkerSendFails \/ WorkerPanics PROVE JobsInv'
<1>1. /\ queue' = <<>> /\ mailbox' = mailbox /\ cpc' = cpc /\ cdone' = cdone
      /\ InHand /\ ~InHand'
      /\ fate' = [g \in Gens |-> IF g \in InQueue \cup {wgen} THEN "lost" ELSE fate[g]]
  BY DEF WorkerSendFails, WorkerPanics, InHand, composer
<1>2. InQueue' = {} /\ InMailbox' = InMailbox
  BY <1>1 DEF InQueue, InMailbox
<1>3. Live' = Live \ (InQueue \cup {wgen})
  BY <1>1 DEF Live
<1>4. (InMailbox \cup (IF ComposerHolds THEN {cdone.gen} ELSE {}))
        \cap (InQueue \cup {wgen}) = {}
  <2>1. InQueue \cup {wgen} \subseteq Nat
    BY <1>1, GensNat DEF JobsInv, LiveOK, Live
  <2> QED BY <1>1, <2>1 DEF JobsInv, FifoOK, ComposerHolds
<1>5. LiveOK'
  BY <1>1, <1>2, <1>3, <1>4 DEF JobsInv, LiveOK, ComposerHolds
<1>6. FifoOK'
  BY <1>1, <1>2 DEF JobsInv, FifoOK
<1> QED BY <1>5, <1>6 DEF JobsInv

\* A submission that fails was never live.
LEMMA RefusedJobs ==
    ASSUME IndInv, JobsInv, SubmitRefused \/ TrySendFails PROVE JobsInv'
<1> DEFINE refused == IF cpc = "send" THEN nextId ELSE nextId + 1
<1>1. /\ UNCHANGED <<queue, mailbox, wgen, cdone>> /\ (InHand' <=> InHand)
      /\ ~ComposerHolds /\ ~ComposerHolds'
      /\ fate' = [fate EXCEPT ![refused] = "refused"]
  BY DEF SubmitRefused, NewGeneration, TrySendFails, InHand, channels, worker, ComposerHolds
<1>2. refused \notin Live
  BY GensNat, ConfigAssumption DEF IndInv, FenceOK, TypeOK, Live
<1>3. Live' = Live
  <2>1. fate \in [Gens -> Fates]
    BY DEF IndInv, TypeOK
  <2> HIDE DEF refused
  <2> QED BY <1>1, <1>2, <2>1 DEF Live
<1> QED BY <1>1, <1>3, JobsFrame


\* Every step keeps the jobs where they are.
LEMMA NextJobs == ASSUME IndInv, JobsInv, [Next]_vars PROVE JobsInv'
<1> USE JobsFrame DEF InHand, ComposerHolds, Live, channels, worker, composer
<1>1. CASE WorkerStep
  <2>1. CASE WorkerExit \/ ClaimInFlight \/ ReleasePending \/ WorkerStarts
             \/ ClaimDrain \/ ReleaseInFlight
    BY <2>1 DEF WorkerExit, ClaimInFlight, ReleasePending, WorkerStarts, ClaimDrain,
       ReleaseInFlight
  <2>2. CASE PipelineStep
    BY <2>2, PipelineFrame
  <2> QED BY <1>1, <2>1, <2>2, WorkerRecvJobs, WorkerDropsJobs, WorkerSendsJobs,
         WorkerEndsJobs, Zenon DEF WorkerStep
<1>2. CASE ComposerStep
  <2>1. CASE RouteElsewhere \/ SubmitClaim \/ Activate \/ DrainEmpty \/ DrainRelease
             \/ CloseSender \/ ReadInFlight \/ ReadAwaiting \/ ReturnSnapshot
    BY <2>1 DEF RouteElsewhere, SubmitClaim, NewGeneration, Activate, DrainEmpty,
       DrainRelease, CloseSender, ReadInFlight, ReadAwaiting, ReturnSnapshot
  <2> QED BY <1>2, <2>1, RefusedJobs, TrySendJobs, DrainTakeJobs, SettleJobs, Zenon
         DEF ComposerStep
<1>3. CASE ComposerCall
  <2>1. CASE (\E e \in Events : ProcessContent(e)) \/ Tick \/ Override \/ Shutdown \/ ReadPending
    BY <2>1 DEF ProcessContent, Tick, Override, Shutdown, ReadPending
  <2> QED BY <1>3, <2>1, DropAppJobs, Zenon DEF ComposerCall
<1>4. CASE WorkerPanics
  BY <1>4, WorkerEndsJobs
<1>5. CASE \E g \in Gens : Expire(g)
  BY <1>5 DEF Expire
<1>6. CASE UNCHANGED vars
  BY <1>6 DEF vars
<1> QED BY <1>1, <1>2, <1>3, <1>4, <1>5, <1>6 DEF Next

\* At the start there is no job anywhere.
LEMMA InitJobs == ASSUME Init PROVE JobsInv
  BY EmptyOK DEF Init, JobsInv, FifoOK, LiveOK, InQueue, InMailbox, Live, InHand

-----------------------------------------------------------------------------
(* Counting them.                                                          *)

\* A rising sequence has as many members as places.
LEMMA CountRising ==
    ASSUME NEW s, NEW n \in Nat, \A i \in 1..n : s[i] \in Nat,
           \A i, j \in 1..n : i < j => s[i] < s[j]
    PROVE  LET T == {s[i] : i \in 1..n} IN IsFiniteSet(T) /\ Cardinality(T) = n
<1> DEFINE T == {s[i] : i \in 1..n}
           f == [i \in 1..n |-> s[i]]
<1>1. f \in Bijection(1..n, T)
  <2>1. f \in [1..n -> T] /\ \A t \in T : \E i \in 1..n : f[i] = t
    OBVIOUS
  <2>2. \A i, j \in 1..n : f[i] = f[j] => i = j
    <3> SUFFICES ASSUME NEW i \in 1..n, NEW j \in 1..n, s[i] = s[j], i # j PROVE FALSE
      OBVIOUS
    <3>1. s[i] < s[j] \/ s[j] < s[i]
      OBVIOUS
    <3> QED BY <3>1
  <2> QED BY <2>1, <2>2 DEF Bijection, Injection, Surjection, IsInjective
<1>2. ExistsBijection(1..n, T)
  BY <1>1 DEF ExistsBijection
<1>3. IsFiniteSet(T) /\ Cardinality(T) = n
  BY <1>2, FS_CountingElements, FS_NatBijection
<1> QED BY <1>3

\* The sizes of sets that do not meet add up.
LEMMA CountDisjoint ==
    ASSUME NEW S, NEW T, IsFiniteSet(S), IsFiniteSet(T), S \cap T = {}
    PROVE  IsFiniteSet(S \cup T) /\ Cardinality(S \cup T) = Cardinality(S) + Cardinality(T)
<1>1. Cardinality(S) \in Nat /\ Cardinality(T) \in Nat
  BY FS_CardinalityType
<1>2. /\ IsFiniteSet(S \cup T)
      /\ Cardinality(S \cup T) = Cardinality(S) + Cardinality(T) - Cardinality(S \cap T)
  BY FS_Union
<1>3. Cardinality(S \cap T) = 0
  BY FS_EmptySet
<1> QED BY <1>1, <1>2, <1>3

\* The places do not overlap, so that their sizes add up.
LEMMA JobsCounted == ASSUME IndInv, JobsInv PROVE NoJobLost
<1> DEFINE held == IF InHand THEN {wgen} ELSE {}
           taken == IF ComposerHolds THEN {cdone.gen} ELSE {}
<1>1. Len(queue) \in Nat /\ Len(mailbox) \in Nat
  BY DEF IndInv, TypeOK
<1>2. IsFiniteSet(InQueue) /\ Cardinality(InQueue) = Len(queue) /\ InQueue \subseteq Nat
  <2>1. \A i \in 1..Len(queue) : queue[i] \in Nat
    <3>1. queue \in Seq(Gens)
      BY DEF IndInv, TypeOK
    <3>2. \A i \in 1..Len(queue) : queue[i] \in Gens
      BY <3>1
    <3> QED BY <3>2, GensNat
  <2> QED BY <1>1, <2>1, CountRising DEF InQueue, JobsInv, FifoOK
<1>3. IsFiniteSet(InMailbox) /\ Cardinality(InMailbox) = Len(mailbox) /\ InMailbox \subseteq Nat
  <2> DEFINE ids == [i \in 1..Len(mailbox) |-> mailbox[i].gen]
  <2>1. \A i \in 1..Len(mailbox) : ids[i] \in Nat
    BY MailboxGens DEF IndInv, TypeOK
  <2>2. \A i, j \in 1..Len(mailbox) : i < j => ids[i] < ids[j]
    BY DEF JobsInv, FifoOK
  <2>3. InMailbox = {ids[i] : i \in 1..Len(mailbox)}
    BY DEF InMailbox
  <2> HIDE DEF ids
  <2> QED BY <1>1, <2>1, <2>2, <2>3, CountRising
<1>4. held \subseteq Nat /\ taken \subseteq Nat
  BY GensNat DEF JobsInv, LiveOK, Live, ComposerHolds
<1>5. IsFiniteSet(held) /\ Cardinality(held) = One(InHand)
  BY FS_Singleton, FS_EmptySet DEF One
<1>6. IsFiniteSet(taken) /\ Cardinality(taken) = One(ComposerHolds)
  BY FS_Singleton, FS_EmptySet DEF One
<1>7. InQueue \cap InMailbox = {} /\ (InQueue \cup InMailbox) \cap held = {}
      /\ (InQueue \cup InMailbox \cup held) \cap taken = {}
  BY <1>2, <1>3, <1>4 DEF JobsInv, FifoOK, ComposerHolds
<1>8. Cardinality(Live) = Len(queue) + Len(mailbox) + One(InHand) + One(ComposerHolds)
  <2> HIDE DEF held, taken
  <2>1. /\ IsFiniteSet(InQueue \cup InMailbox)
        /\ Cardinality(InQueue \cup InMailbox) = Cardinality(InQueue) + Cardinality(InMailbox)
    BY <1>2, <1>3, <1>7, CountDisjoint
  <2>2. /\ IsFiniteSet(InQueue \cup InMailbox \cup held)
        /\ Cardinality(InQueue \cup InMailbox \cup held)
             = Cardinality(InQueue \cup InMailbox) + Cardinality(held)
    <3>1. (InQueue \cup InMailbox) \cap held = {}
      BY <1>7
    <3> QED BY ONLY <1>5, <2>1, <3>1, CountDisjoint
  <2>3. Cardinality(InQueue \cup InMailbox \cup held \cup taken)
          = Cardinality(InQueue \cup InMailbox \cup held) + Cardinality(taken)
    <3>1. (InQueue \cup InMailbox \cup held) \cap taken = {}
      BY <1>7
    <3> QED BY ONLY <1>6, <2>2, <3>1, CountDisjoint
  <2>4. Live = InQueue \cup InMailbox \cup held \cup taken
    BY DEF JobsInv, LiveOK, held, taken, ComposerHolds
  <2> QED BY <1>2, <1>3, <1>5, <1>6, <2>1, <2>2, <2>3, <2>4
<1> QED BY <1>8 DEF NoJobLost, JobsInv, LiveOK, ComposerHolds

-----------------------------------------------------------------------------
(* Why a completion is discarded.                                          *)

\* Ids, events and the registry keep step.
LEMMA NextEvents == ASSUME IndInv, EventsOK, [Next]_vars PROVE EventsOK'
<1> USE GensNat, ConfigAssumption, EventAssumption
    DEF channels, counters, identity, lifecycle, worker, composer
<1>0. /\ nextId \in 0..MaxGenerations /\ registry \in 0..MaxGenerations
      /\ cancelled \subseteq Gens /\ eventOf \in [Gens -> Events \cup {NoEvent}]
      /\ Gens = 1..MaxGenerations
  BY DEF IndInv, TypeOK, Gens
<1>1. CASE WorkerStep \/ WorkerPanics \/ (\E g \in Gens : Expire(g))
  <2>1. UNCHANGED <<cpc, cevent, eventOf, nextId, registry, cancelled>>
    BY <1>1, PipelineFrame DEF WorkerStep, WorkerRecv, WorkerExit, ClaimInFlight,
       ReleasePending, WorkerDrops, WorkerStarts, ClaimDrain, ReleaseInFlight, WorkerSends,
       WorkerSendFails, WorkerPanics, Expire
  <2> QED BY <2>1 DEF EventsOK
<1>2. CASE ComposerStep
  <2>1. CASE SubmitRefused \/ SubmitClaim
    <3>1. /\ nextId + 1 \in Gens /\ nextId' = nextId + 1 /\ registry' = registry
          /\ \A g \in Gens : eventOf'[g] = IF g = nextId + 1 THEN cevent ELSE eventOf[g]
      BY <1>0, <2>1 DEF SubmitRefused, SubmitClaim, NewGeneration
    <3>2. cevent \in Events /\ \A g \in Gens : eventOf[g] \in Events <=> g <= nextId
      BY <2>1 DEF SubmitRefused, SubmitClaim, NewGeneration, EventsOK
    <3>3. \A g \in Gens : eventOf'[g] \in Events <=> g <= nextId'
      BY <1>0, <3>1, <3>2
    <3>4. /\ \A g \in cancelled' : g <= nextId' 
          /\ cpc' = "send" => nextId' \notin cancelled' \cup {registry'}
      <4>1. registry <= nextId /\ \A g \in cancelled : g <= nextId
        BY DEF EventsOK
      <4>2. CASE SubmitRefused
        BY <1>0, <3>1, <4>1, <4>2 DEF SubmitRefused
      <4>3. CASE SubmitClaim
        <5>1. cancelled' = cancelled /\ cancelled \subseteq Nat
          BY <1>0, <4>3 DEF SubmitClaim
        <5> QED BY <1>0, <3>1, <4>1, <5>1
      <4> QED BY <2>1, <4>2, <4>3
    <3>5. cpc' # "route" /\ cpc' # "activate" /\ registry' <= nextId'
      BY <1>0, <2>1, <3>1 DEF SubmitRefused, SubmitClaim, EventsOK
    <3> QED BY <3>3, <3>4, <3>5 DEF EventsOK
  <2>2. CASE TrySend
    BY <2>2 DEF TrySend, EventsOK
  <2>3. CASE TrySendFails
    <3>1. /\ UNCHANGED identity /\ cancelled' = cancelled \cup {nextId}
          /\ cpc' \notin {"route", "send", "activate"}
      BY <2>3 DEF TrySendFails
    <3> QED BY <1>0, <3>1 DEF EventsOK
  <2>4. CASE Activate
    BY <1>0, <2>4 DEF Activate, EventsOK
  <2>5. CASE DrainDiscard \/ DrainCommit
    <3>1. /\ registry' \in {0, registry} /\ UNCHANGED <<nextId, eventOf, cancelled>>
          /\ cpc' \notin {"route", "send", "activate"}
      BY <2>5 DEF DrainDiscard, DrainCommit, Finish
    <3> QED BY <1>0, <3>1 DEF EventsOK
  <2>6. CASE RouteElsewhere \/ DrainEmpty \/ DrainTake \/ DrainRelease \/ CloseSender
             \/ ReadInFlight \/ ReadAwaiting \/ ReturnSnapshot
    BY <2>6 DEF RouteElsewhere, DrainEmpty, DrainTake, DrainRelease, CloseSender,
       ReadInFlight, ReadAwaiting, ReturnSnapshot, EventsOK
  <2> QED BY <1>2, <2>1, <2>2, <2>3, <2>4, <2>5, <2>6, Zenon DEF ComposerStep
<1>3. CASE ComposerCall
  BY <1>0, <1>3 DEF ComposerCall, ProcessContent, Tick, Override, Shutdown, DropApp,
     ReadPending, EventsOK
<1>4. CASE UNCHANGED vars
  BY <1>4 DEF vars, EventsOK
<1> QED BY <1>1, <1>2, <1>3, <1>4 DEF Next

\* A step gives events only to generations that had none.
LEMMA RepeatedStays == ASSUME IndInv, EventsOK, [Next]_vars, Unrepeated' PROVE Unrepeated
<1>1. eventOf' = eventOf \/ NewGeneration
  BY PipelineFrame
  DEF Next, vars, WorkerStep, WorkerRecv, WorkerExit, ClaimInFlight, ReleasePending,
      WorkerDrops, WorkerStarts, ClaimDrain, ReleaseInFlight, WorkerSends,
      WorkerSendFails, WorkerPanics, Expire, ComposerStep, RouteElsewhere, SubmitRefused,
      SubmitClaim, TrySend, TrySendFails, Activate, DrainEmpty, DrainTake, DrainRelease,
      DrainDiscard, DrainCommit, CloseSender, ReadInFlight, ReadAwaiting, ReturnSnapshot,
      ComposerCall, ProcessContent, Tick, Override, Shutdown, DropApp, ReadPending, identity
<1>2. CASE eventOf' = eventOf
  BY <1>2 DEF Unrepeated
<1>3. CASE NewGeneration
  <2>1. nextId + 1 \in Gens /\ eventOf[nextId + 1] = NoEvent
    BY <1>3, ConfigAssumption DEF NewGeneration, IndInv, TypeOK, EventsOK, Gens
  <2>2. \A g \in Gens : g # nextId + 1 => eventOf'[g] = eventOf[g]
    BY <1>3 DEF NewGeneration, IndInv, TypeOK
  <2> QED BY <2>1, <2>2 DEF Unrepeated
<1> QED BY <1>1, <1>2, <1>3

\* What DiscardJustified says of unrepeated events.
DiscardsOK == \A g \in Gens : fate[g] = "discarded" => g \in fenced \cup expired

\* A step that fences, cancels and discards nothing.
LEMMA ReasonsFrame ==
    ASSUME OutstandingOK, DiscardsOK,
           UNCHANGED <<cancelled, fenced, shuttingDown, active, registry>>,
           Live' \subseteq Live, expired \subseteq expired',
           \A g \in Gens : fate'[g] = "discarded" => fate[g] = "discarded",
           cpc # "gone", cpc # "activate" \/ cpc' = cpc, nextId' = nextId,
           cpc' \in {"send", "activate"} => cpc' = cpc
    PROVE  OutstandingOK' /\ DiscardsOK'
  BY DEF OutstandingOK, DiscardsOK

\* Under events that do not repeat, every step keeps the reasons.
LEMMA NextReasons ==
    ASSUME IndInv, JobsInv, EventsOK, Unrepeated, OutstandingOK, DiscardsOK, Next
    PROVE  OutstandingOK' /\ DiscardsOK'
<1> USE GensNat DEF channels, counters, identity, lifecycle, worker, composer
<1>0. /\ nextId \in 0..MaxGenerations /\ registry \in 0..MaxGenerations
      /\ Live \subseteq Gens /\ fate \in [Gens -> Fates]
      /\ \A g \in Live : g <= nextId /\ (cpc = "send" => g # nextId)
  BY DEF IndInv, TypeOK, FenceOK, Live
<1>1. CASE WorkerStep \/ WorkerPanics
  <2>1. UNCHANGED <<cancelled, fenced, shuttingDown, active, registry, cpc, nextId, expired>>
    BY <1>1, PipelineFrame DEF WorkerStep, WorkerRecv, WorkerExit, ClaimInFlight,
       ReleasePending, WorkerDrops, WorkerStarts, ClaimDrain, ReleaseInFlight, WorkerSends,
       WorkerSendFails, WorkerPanics
  <2>2. /\ \A g \in Gens : fate'[g] = "live" => fate[g] = "live"
        /\ \A g \in Gens : fate'[g] = "discarded" => fate[g] = "discarded"
    BY <1>0, <1>1, PipelineFrame DEF WorkerStep, WorkerRecv, WorkerExit, ClaimInFlight,
       ReleasePending, WorkerDrops, WorkerStarts, ClaimDrain, ReleaseInFlight, WorkerSends,
       WorkerSendFails, WorkerPanics
  <2> QED BY <2>1, <2>2 DEF OutstandingOK, DiscardsOK, Live
<1>2. CASE \E g \in Gens : Expire(g)
  BY <1>2 DEF Expire, OutstandingOK, DiscardsOK, Live
<1>3. CASE ComposerStep
  <2>1. CASE RouteElsewhere \/ DrainEmpty \/ DrainTake \/ DrainRelease \/ CloseSender
             \/ ReadInFlight \/ ReadAwaiting \/ ReturnSnapshot
    BY <2>1 DEF RouteElsewhere, DrainEmpty, DrainTake, DrainRelease, CloseSender,
       ReadInFlight, ReadAwaiting, ReturnSnapshot, OutstandingOK, DiscardsOK, Live
  <2>2. CASE SubmitRefused
    <3>1. /\ fate' = [fate EXCEPT ![nextId + 1] = "refused"] /\ nextId + 1 \notin Live
          /\ cancelled' = cancelled \cup {nextId + 1}
          /\ UNCHANGED <<fenced, shuttingDown, active, registry, expired>>
          /\ cpc = "route" /\ cpc' \in {"drain", "idle"}
      BY <1>0, <2>2 DEF SubmitRefused, NewGeneration
    <3>2. Live' = Live
      BY <1>0, <3>1 DEF Live
    <3> QED BY <1>0, <3>1, <3>2 DEF OutstandingOK, DiscardsOK
  <2>3. CASE SubmitClaim
    BY <2>3 DEF SubmitClaim, NewGeneration, OutstandingOK, DiscardsOK, Live
  <2>4. CASE TrySend
    <3>1. /\ fate' = [fate EXCEPT ![nextId] = "live"] /\ cpc = "send" /\ cpc' = "activate"
          /\ UNCHANGED <<cancelled, fenced, shuttingDown, active, registry, nextId, expired>>
          /\ nextId \notin cancelled /\ ~shuttingDown
      BY <2>4 DEF TrySend, EventsOK, OutstandingOK
    <3>2. Live' \subseteq Live \cup {nextId}
      BY <1>0, <3>1 DEF Live
    <3> QED BY <1>0, <3>1, <3>2 DEF OutstandingOK, DiscardsOK
  <2>5. CASE TrySendFails
    <3>1. /\ fate' = [fate EXCEPT ![nextId] = "refused"] /\ nextId \notin Live
          /\ cancelled' = cancelled \cup {nextId}
          /\ UNCHANGED <<fenced, shuttingDown, active, registry, expired>>
          /\ cpc = "send" /\ cpc' \in {"drain", "idle"}
      BY <1>0, <2>5 DEF TrySendFails
    <3>2. Live' = Live
      BY <1>0, <3>1 DEF Live
    <3> QED BY <1>0, <3>1, <3>2 DEF OutstandingOK, DiscardsOK
  <2>6. CASE Activate
    <3>1. /\ registry' = nextId /\ active' = nextId /\ Live' = Live
          /\ fenced' = fenced \cup (Live \ {nextId})
          /\ cancelled' = cancelled \cup ({registry} \ {0})
          /\ UNCHANGED <<shuttingDown, fate, expired>> /\ cpc = "activate" /\ cpc' = "drain"
          /\ nextId \notin cancelled \cup {registry}
      BY <2>6 DEF Activate, Live, EventsOK
    <3>2. 0 \notin Live
      BY <1>0, ConfigAssumption DEF Gens
    <3>3. /\ ~shuttingDown' /\ Live' \cap cancelled' \subseteq fenced'
          /\ \A g \in Live' \ cancelled' : g = nextId
          /\ \A g \in Live' \ fenced' : g = nextId
      BY <3>1, <3>2 DEF OutstandingOK
    <3>4. OutstandingOK'
      BY <3>1, <3>3 DEF OutstandingOK
    <3>5. DiscardsOK'
      BY <3>1 DEF DiscardsOK
    <3> QED BY <3>4, <3>5
  <2>7. CASE DrainCommit \/ DrainDiscard
    <3>1. /\ UNCHANGED <<cancelled, fenced, shuttingDown, nextId, expired>>
          /\ cpc = "settle" /\ cpc' = "drain" /\ Finish(cdone.gen)
          /\ \E outcome \in Committed \cup {"discarded"} :
                fate' = [fate EXCEPT ![cdone.gen] = outcome]
      BY <2>7 DEF DrainCommit, DrainDiscard, CommitOutcomes, Committed
    <3>2. cdone.gen \in Live
      BY <3>1 DEF JobsInv, LiveOK
    <3>3. Live' = Live \ {cdone.gen} /\ \A g \in Gens \ {cdone.gen} : fate'[g] = fate[g]
      BY <1>0, <3>1, <3>2 DEF Live, Committed
    <3>4. \A g \in Live \ {cdone.gen} : registry = g => registry' = g
      <4>1. \A g \in Live : eventOf[g] \in Events
        BY <1>0 DEF EventsOK
      <4>2. \A g \in Live : eventOf[g] = eventOf[cdone.gen] => g = cdone.gen
        BY <1>0, <3>2, <4>1, EventAssumption DEF Unrepeated
      <4> QED BY <3>1, <4>2 DEF Finish
    <3>5. \A g \in Live \ {cdone.gen} : active = g => active' = g
      BY <3>1 DEF Finish
    <3>6. OutstandingOK'
      BY <3>1, <3>3, <3>4, <3>5 DEF OutstandingOK
    <3>7. StaleOrCancelled(cdone.gen) => cdone.gen \in fenced \cup expired
      <4> SUFFICES ASSUME StaleOrCancelled(cdone.gen), cdone.gen \notin fenced \cup expired
                   PROVE  FALSE
        OBVIOUS
      <4>1. ~shuttingDown /\ cdone.gen \notin cancelled
        BY <3>1, <3>2 DEF OutstandingOK
      <4>2. active = cdone.gen /\ registry = cdone.gen
        BY <3>1, <3>2, <4>1 DEF OutstandingOK
      <4>3. cdone.gen # 0
        BY <3>2, ConfigAssumption DEF Live, Gens
      <4> QED BY <4>1, <4>2, <4>3 DEF StaleOrCancelled, IsCurrent
    <3>8. fate'[cdone.gen] = "discarded" => StaleOrCancelled(cdone.gen)
      BY <1>0, <2>7, <3>2 DEF DrainCommit, DrainDiscard, CommitOutcomes, Committed
    <3>9. DiscardsOK'
      BY <3>1, <3>3, <3>7, <3>8 DEF DiscardsOK
    <3> QED BY <3>6, <3>9
  <2> QED BY <1>3, <2>1, <2>2, <2>3, <2>4, <2>5, <2>6, <2>7, Zenon DEF ComposerStep
<1>4. CASE ComposerCall
  <2>1. CASE Tick \/ ReadPending
    BY <2>1 DEF Tick, ReadPending, OutstandingOK, DiscardsOK, Live
  <2>2. CASE Override \/ Shutdown
    BY <1>0, <2>2 DEF Override, Shutdown, OutstandingOK, DiscardsOK, Live
  <2>3. CASE DropApp
    BY <1>0, <2>3 DEF DropApp, OutstandingOK, DiscardsOK, Live
  <2>4. ASSUME NEW e \in Events, ProcessContent(e) PROVE OutstandingOK' /\ DiscardsOK'
    BY <1>0, <2>4 DEF ProcessContent, Outranks, OutstandingOK, DiscardsOK, Live
  <2> QED BY <1>4, <2>1, <2>2, <2>3, <2>4, Zenon DEF ComposerCall
<1> QED BY <1>1, <1>2, <1>3, <1>4 DEF Next

\* At the start nothing was submitted.
LEMMA InitReasons == ASSUME Init PROVE EventsOK /\ ReasonsInv
BY ConfigAssumption, EventAssumption
DEF Init, EventsOK, ReasonsInv, OutstandingOK, DiscardJustified, Live, Gens

\* All of it together is inductive.
LEMMA NextAll ==
    ASSUME IndInv, JobsInv, EventsOK, ReasonsInv, [Next]_vars PROVE ReasonsInv'
<1> SUFFICES ASSUME Unrepeated' PROVE OutstandingOK' /\ DiscardJustified'
  BY DEF ReasonsInv
<1>1. Unrepeated
  BY RepeatedStays
<1>2. OutstandingOK /\ DiscardsOK
  BY <1>1 DEF ReasonsInv, DiscardJustified, DiscardsOK
<1>3. OutstandingOK' /\ DiscardsOK'
  <2>1. CASE Next
    BY <1>1, <1>2, <2>1, NextReasons
  <2>2. CASE UNCHANGED vars
    BY <1>2, <2>2 DEF vars, OutstandingOK, DiscardsOK, Live
  <2> QED BY <2>1, <2>2
<1> QED BY <1>3 DEF DiscardsOK, DiscardJustified

\* The accepted generations are where their jobs are, in order.
THEOREM JobsInOrder == Spec => [](JobsInv /\ EventsOK /\ ReasonsInv)
<1>1. Init => JobsInv /\ EventsOK /\ ReasonsInv
  BY InitJobs, InitReasons
<1>2. IndInv /\ JobsInv /\ EventsOK /\ ReasonsInv /\ [Next]_vars
        => JobsInv' /\ EventsOK' /\ ReasonsInv'
  BY NextJobs, NextEvents, NextAll
<1> QED BY <1>1, <1>2, GenerationInductive, PTL DEF Spec

\* Every accepted, unsettled generation is in exactly one place.
THEOREM NoGenerationLost == Spec => []NoJobLost
<1>1. IndInv /\ JobsInv => NoJobLost
  BY JobsCounted
<1> QED BY <1>1, GenerationInductive, JobsInOrder, PTL

\* Nothing is discarded without a reason.
THEOREM DiscardsAreJustified == Spec => []DiscardJustified
<1>1. ReasonsInv => DiscardJustified
  BY DEF ReasonsInv, DiscardJustified
<1> QED BY <1>1, JobsInOrder, PTL

\* Accepting a newer generation leaves no other one worth finishing.
THEOREM OneGenerationUncancelled == Spec => []OneUncancelled
<1>1. ReasonsInv => OneUncancelled
  BY DEF ReasonsInv, OutstandingOK, OneUncancelled
<1> QED BY <1>1, JobsInOrder, PTL
=============================================================================
