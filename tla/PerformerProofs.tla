--------------------------- MODULE PerformerProofs ---------------------------
(***************************************************************************)
(* Proofs about the components of MCPerformer, for every value of their    *)
(* constants.                                                              *)
(***************************************************************************)
EXTENDS MCPerformer, FiniteSetTheorems, SequenceTheorems, TLAPS

----------------------------------------------------------------------------
(* Agent tasks                                                             *)

Fields == {"id", "state", "step", "waits", "steps", "observations", "updated", "expires",
           "generation", "retries", "replans", "serial", "base"}

Over == {"completed", "failed", "cancelled", "not_verified", "expired"}
TaskStates == {"accepted", "planning", "ready", "waiting", "executing", "verifying"} \cup Over
StepStates == {"pending", "executing", "executed"}
Verdicts == {"verified", "failed", "not_proven", "stale", "cancelled"}
Tools == [id : Nat, expected : Nat, serial : Nat]
Evidence == [tool : Tools, verification : Verdicts]
Observations == [step : Nat, generation : Nat, verification : Verdicts, serial : Nat]

\* The fields of a task the proof looks at.
Shaped(a) ==
    /\ DOMAIN a = Fields /\ a.state \in TaskStates
    /\ a.id \in Nat /\ a.serial \in Nat /\ a.step \in Nat
    /\ a.generation \in Nat /\ a.base \in Nat /\ a.base <= a.generation
    /\ a.waits \in Nat /\ a.updated \in Nat /\ a.expires \in Nat

\* A task's steps and its state (StepsMatchState of one task).
StepsFit(a) ==
    /\ a.steps \in Seq(StepStates)
    /\ a.state \in {"accepted", "planning"} =>
          \A k \in DOMAIN a.steps : a.steps[k] = "pending"
    /\ a.state = "executing" => {k \in DOMAIN a.steps : a.steps[k] = "executing"} = {a.step}
    /\ a.state \in {"ready", "waiting", "verifying", "completed"} =>
          \A k \in DOMAIN a.steps : a.steps[k] # "executing"
    /\ a.state \in {"verifying", "completed", "failed"} =>
          /\ a.steps # <<>>
          /\ \A k \in DOMAIN a.steps : a.steps[k] = "executed"

\* A task's evidence and its plan (EvidenceCurrent of one task).
ObservationsFit(c, a) ==
    /\ a.observations \in Seq(Observations)
    /\ \A k \in DOMAIN a.observations :
          /\ a.observations[k].generation >= a.base
          /\ a.observations[k].generation <= a.generation
          /\ a.observations[k].step \in DOMAIN a.steps
          /\ c.reuse \/ a.observations[k].serial = a.serial
    /\ c.reuse \/ a.serial = a.id

Fit(c, a) == Shaped(a) /\ StepsFit(a) /\ ObservationsFit(c, a)

\* What a transition makes of a task: the same task, not younger, which begins
\* to execute only under a new generation.
Succeeds(c, a, n) ==
    /\ Fit(c, n) /\ n.id = a.id /\ n.serial = a.serial /\ a.generation <= n.generation
    /\ n.state = "executing" => a.state = "executing" \/ a.generation < n.generation

\* The fields outside fs are the same.
Carries(a, n, fs) == DOMAIN n = Fields /\ \A f \in Fields \ fs : n[f] = a[f]

\* Evidence stays fit while the plan does.
LEMMA ObservationsStay ==
    ASSUME NEW c, NEW a, NEW n, Fit(c, a),
           n.observations = a.observations, n.base = a.base, n.serial = a.serial, n.id = a.id,
           n.generation \in Nat, a.generation <= n.generation,
           DOMAIN a.steps \subseteq DOMAIN n.steps
    PROVE  ObservationsFit(c, n)
<1>1. \A k \in DOMAIN a.observations : a.observations[k].generation \in Nat
  <2>1. a.observations \in Seq(Observations) BY DEF Fit, ObservationsFit
  <2>2. \A k \in DOMAIN a.observations : a.observations[k] \in Observations BY <2>1
  <2> QED BY <2>2 DEF Observations
<1> QED BY <1>1 DEF Fit, Shaped, ObservationsFit

\* BeginPlanning
LEMMA PlanningSucceeds ==
    ASSUME NEW c, NEW a, NEW t \in Nat, Fit(c, a), a.state = "accepted"
    PROVE  Succeeds(c, a, [a EXCEPT !.state = "planning", !.updated = t])
<1> DEFINE n == [a EXCEPT !.state = "planning", !.updated = t]
<1>1. /\ Carries(a, n, {"state", "updated"})
      /\ n.state = "planning" /\ n.updated = t
  BY DEF Fit, Shaped, Fields, Carries
<1> HIDE DEF n
<1>2. Shaped(n) BY <1>1 DEF Fit, Shaped, TaskStates, Carries, Fields
<1>3. StepsFit(n) BY <1>1 DEF Fit, Shaped, StepsFit, StepStates, Carries, Fields
<1>4. /\ DOMAIN a.steps \subseteq DOMAIN n.steps
      /\ n.generation \in Nat /\ a.generation <= n.generation
  BY <1>1 DEF Fit, StepsFit, Shaped, Carries, Fields
<1>5. ObservationsFit(c, n) BY <1>1, <1>4, ObservationsStay DEF Carries, Fields
<1>6. Succeeds(c, a, n)
  BY <1>1, <1>2, <1>3, <1>4, <1>5 DEF Succeeds, Fit, Shaped, Carries, Fields
<1> QED BY <1>6 DEF n

\* AddStep
LEMMA AddingSucceeds ==
    ASSUME NEW c, NEW a, Fit(c, a), a.state = "planning"
    PROVE  Succeeds(c, a, [a EXCEPT !.steps = Append(@, "pending")])
<1> DEFINE n == [a EXCEPT !.steps = Append(@, "pending")]
<1>1. /\ Carries(a, n, {"steps"})
      /\ n.steps = Append(a.steps, "pending")
  BY DEF Fit, Shaped, Fields, Carries
<1> HIDE DEF n
<1>2. Shaped(n) BY <1>1 DEF Fit, Shaped, TaskStates, Carries, Fields
<1>3. StepsFit(n) BY <1>1 DEF Fit, Shaped, StepsFit, StepStates, Carries, Fields
<1>4. /\ DOMAIN a.steps \subseteq DOMAIN n.steps
      /\ n.generation \in Nat /\ a.generation <= n.generation
  BY <1>1 DEF Fit, StepsFit, Shaped, Carries, Fields
<1>5. ObservationsFit(c, n) BY <1>1, <1>4, ObservationsStay DEF Carries, Fields
<1>6. Succeeds(c, a, n)
  BY <1>1, <1>2, <1>3, <1>4, <1>5 DEF Succeeds, Fit, Shaped, Carries, Fields
<1> QED BY <1>6 DEF n

\* MarkReady, and Resume within the time of the commitment.
LEMMA ReadySucceeds ==
    ASSUME NEW c, NEW a, NEW t \in Nat, Fit(c, a), a.state \in {"planning", "waiting"}
    PROVE  Succeeds(c, a, [a EXCEPT !.state = "ready", !.updated = t])
<1> DEFINE n == [a EXCEPT !.state = "ready", !.updated = t]
<1>1. /\ Carries(a, n, {"state", "updated"})
      /\ n.state = "ready" /\ n.updated = t
  BY DEF Fit, Shaped, Fields, Carries
<1> HIDE DEF n
<1>2. Shaped(n) BY <1>1 DEF Fit, Shaped, TaskStates, Carries, Fields
<1>3. StepsFit(n) BY <1>1 DEF Fit, Shaped, StepsFit, StepStates, Carries, Fields
<1>4. /\ DOMAIN a.steps \subseteq DOMAIN n.steps
      /\ n.generation \in Nat /\ a.generation <= n.generation
  BY <1>1 DEF Fit, StepsFit, Shaped, Carries, Fields
<1>5. ObservationsFit(c, n) BY <1>1, <1>4, ObservationsStay DEF Carries, Fields
<1>6. Succeeds(c, a, n)
  BY <1>1, <1>2, <1>3, <1>4, <1>5 DEF Succeeds, Fit, Shaped, Carries, Fields
<1> QED BY <1>6 DEF n

\* WaitFor
LEMMA WaitingSucceeds ==
    ASSUME NEW c, NEW a, NEW t \in Nat, NEW w \in Nat, Fit(c, a), a.state = "ready"
    PROVE  Succeeds(c, a, [a EXCEPT !.state = "waiting", !.updated = t, !.waits = w])
<1> DEFINE n == [a EXCEPT !.state = "waiting", !.updated = t, !.waits = w]
<1>1. /\ Carries(a, n, {"state", "updated", "waits"})
      /\ n.state = "waiting" /\ n.updated = t /\ n.waits = w
  BY DEF Fit, Shaped, Fields, Carries
<1> HIDE DEF n
<1>2. Shaped(n) BY <1>1 DEF Fit, Shaped, TaskStates, Carries, Fields
<1>3. StepsFit(n) BY <1>1 DEF Fit, Shaped, StepsFit, StepStates, Carries, Fields
<1>4. /\ DOMAIN a.steps \subseteq DOMAIN n.steps
      /\ n.generation \in Nat /\ a.generation <= n.generation
  BY <1>1 DEF Fit, StepsFit, Shaped, Carries, Fields
<1>5. ObservationsFit(c, n) BY <1>1, <1>4, ObservationsStay DEF Carries, Fields
<1>6. Succeeds(c, a, n)
  BY <1>1, <1>2, <1>3, <1>4, <1>5 DEF Succeeds, Fit, Shaped, Carries, Fields
<1> QED BY <1>6 DEF n

\* BeginExecution
LEMMA ExecutionSucceeds ==
    ASSUME NEW c, NEW a, NEW t \in Nat, NEW k \in DOMAIN a.steps, Fit(c, a),
           a.state = "ready", k \in Nat
    PROVE  Succeeds(c, a, [a EXCEPT !.state = "executing", !.step = k, !.updated = t,
                               !.generation = a.generation + 1, !.steps[k] = "executing"])
<1> DEFINE n == [a EXCEPT !.state = "executing", !.step = k, !.updated = t,
                               !.generation = a.generation + 1, !.steps[k] = "executing"]
<1>1. /\ Carries(a, n, {"state", "step", "updated", "generation", "steps"})
      /\ n.state = "executing" /\ n.step = k /\ n.updated = t
      /\ n.generation = a.generation + 1 /\ n.steps = [a.steps EXCEPT ![k] = "executing"]
  BY DEF Fit, Shaped, Fields, Carries
<1> HIDE DEF n
<1>2. Shaped(n) BY <1>1 DEF Fit, Shaped, TaskStates, Carries, Fields
<1>3. StepsFit(n) BY <1>1 DEF Fit, Shaped, StepsFit, StepStates, Carries, Fields
<1>4. /\ DOMAIN a.steps \subseteq DOMAIN n.steps
      /\ n.generation \in Nat /\ a.generation <= n.generation
  BY <1>1 DEF Fit, StepsFit, Shaped, Carries, Fields
<1>5. ObservationsFit(c, n) BY <1>1, <1>4, ObservationsStay DEF Carries, Fields
<1>6. Succeeds(c, a, n)
  BY <1>1, <1>2, <1>3, <1>4, <1>5 DEF Succeeds, Fit, Shaped, Carries, Fields
<1> QED BY <1>6 DEF n

\* RetryCurrentStep
LEMMA RetrySucceeds ==
    ASSUME NEW c, NEW a, NEW t \in Nat, Fit(c, a), a.state = "executing"
    PROVE  Succeeds(c, a, [a EXCEPT !.state = "ready", !.updated = t,
                               !.retries = @ + 1, !.generation = @ + 1,
                               !.steps[a.step] = "pending"])
<1> DEFINE n == [a EXCEPT !.state = "ready", !.updated = t,
                               !.retries = @ + 1, !.generation = @ + 1,
                               !.steps[a.step] = "pending"]
<1>1. /\ Carries(a, n, {"state", "updated", "retries", "generation", "steps"})
      /\ n.state = "ready" /\ n.updated = t /\ n.generation = a.generation + 1
      /\ n.steps = [a.steps EXCEPT ![a.step] = "pending"]
  BY DEF Fit, Shaped, Fields, Carries
<1> HIDE DEF n
<1>2. Shaped(n) BY <1>1 DEF Fit, Shaped, TaskStates, Carries, Fields
<1>3. StepsFit(n) BY <1>1 DEF Fit, Shaped, StepsFit, StepStates, Carries, Fields
<1>4. /\ DOMAIN a.steps \subseteq DOMAIN n.steps
      /\ n.generation \in Nat /\ a.generation <= n.generation
  BY <1>1 DEF Fit, StepsFit, Shaped, Carries, Fields
<1>5. ObservationsFit(c, n) BY <1>1, <1>4, ObservationsStay DEF Carries, Fields
<1>6. Succeeds(c, a, n)
  BY <1>1, <1>2, <1>3, <1>4, <1>5 DEF Succeeds, Fit, Shaped, Carries, Fields
<1> QED BY <1>6 DEF n

\* Cancel, and Expired of a task that is over.
LEMMA OverSucceeds ==
    ASSUME NEW c, NEW a, NEW t \in Nat, Fit(c, a),
           NEW s \in {"cancelled", "expired", "not_verified"}
    PROVE  Succeeds(c, a, [a EXCEPT !.state = s, !.generation = @ + 1, !.updated = t])
<1> DEFINE n == [a EXCEPT !.state = s, !.generation = @ + 1, !.updated = t]
<1>1. /\ Carries(a, n, {"state", "updated", "generation"})
      /\ n.state = s /\ n.updated = t /\ n.generation = a.generation + 1
  BY DEF Fit, Shaped, Fields, Carries
<1> HIDE DEF n
<1>2. Shaped(n) BY <1>1 DEF Fit, Shaped, TaskStates, Carries, Fields, Over
<1>3. StepsFit(n) BY <1>1 DEF Fit, Shaped, StepsFit, StepStates, Carries, Fields
<1>4. /\ DOMAIN a.steps \subseteq DOMAIN n.steps
      /\ n.generation \in Nat /\ a.generation <= n.generation
  BY <1>1 DEF Fit, StepsFit, Shaped, Carries, Fields
<1>5. ObservationsFit(c, n) BY <1>1, <1>4, ObservationsStay DEF Carries, Fields
<1>6. Succeeds(c, a, n)
  BY <1>1, <1>2, <1>3, <1>4, <1>5 DEF Succeeds, Fit, Shaped, Carries, Fields
<1> QED BY <1>6 DEF n

\* CommitVerification
LEMMA VerdictSucceeds ==
    ASSUME NEW c, NEW a, NEW t \in Nat, Fit(c, a), a.state = "verifying",
           NEW s \in {"completed", "failed", "cancelled", "not_verified"}
    PROVE  Succeeds(c, a, [a EXCEPT !.state = s, !.updated = t])
<1> DEFINE n == [a EXCEPT !.state = s, !.updated = t]
<1>1. /\ Carries(a, n, {"state", "updated"})
      /\ n.state = s /\ n.updated = t
  BY DEF Fit, Shaped, Fields, Carries
<1> HIDE DEF n
<1>2. Shaped(n) BY <1>1 DEF Fit, Shaped, TaskStates, Carries, Fields, Over
<1>3. StepsFit(n) BY <1>1 DEF Fit, Shaped, StepsFit, StepStates, Carries, Fields
<1>4. /\ DOMAIN a.steps \subseteq DOMAIN n.steps
      /\ n.generation \in Nat /\ a.generation <= n.generation
  BY <1>1 DEF Fit, StepsFit, Shaped, Carries, Fields
<1>5. ObservationsFit(c, n) BY <1>1, <1>4, ObservationsStay DEF Carries, Fields
<1>6. Succeeds(c, a, n)
  BY <1>1, <1>2, <1>3, <1>4, <1>5 DEF Succeeds, Fit, Shaped, Carries, Fields
<1> QED BY <1>6 DEF n

\* FinishStep
LEMMA FinishSucceeds ==
    ASSUME NEW c, NEW a, NEW t \in Nat, Fit(c, a), a.state = "executing",
           NEW steps, steps = [a.steps EXCEPT ![a.step] = "executed"],
           NEW all \in BOOLEAN, all <=> \A k \in DOMAIN steps : steps[k] = "executed"
    PROVE  Succeeds(c, a, [a EXCEPT !.steps = steps, !.updated = t,
                               !.state = IF all THEN "verifying" ELSE "ready"])
<1> DEFINE s == IF all THEN "verifying" ELSE "ready"
           n == [a EXCEPT !.steps = steps, !.updated = t, !.state = s]
<1>1. /\ Carries(a, n, {"state", "updated", "steps"})
      /\ n.state = s /\ n.updated = t /\ n.steps = steps
  BY DEF Fit, Shaped, Fields, Carries
<1>2. s \in {"verifying", "ready"} /\ (s = "verifying" <=> all)
  BY Zenon
<1>3. Succeeds(c, a, n)
  <2> HIDE DEF n, s
  <2>1. /\ steps \in Seq(StepStates) /\ DOMAIN steps = DOMAIN a.steps /\ a.step \in DOMAIN a.steps
        /\ \A k \in DOMAIN steps : steps[k] # "executing"
    BY DEF Fit, StepsFit, StepStates
  <2>2. steps # <<>> BY <2>1
  <2>3. Shaped(n) BY <1>1, <1>2 DEF Fit, Shaped, TaskStates, Carries, Fields
  <2>4. StepsFit(n) BY <1>1, <1>2, <2>1, <2>2 DEF StepsFit
  <2>5. DOMAIN a.steps \subseteq DOMAIN n.steps /\ n.generation \in Nat
        /\ a.generation <= n.generation
    BY <1>1, <2>1 DEF Fit, Shaped, Carries, Fields
  <2>6. ObservationsFit(c, n) BY <1>1, <2>5, ObservationsStay DEF Carries, Fields
  <2> QED BY <1>1, <1>2, <2>3, <2>4, <2>5, <2>6 DEF Succeeds, Fit, Carries, Fields
<1> QED BY <1>3

\* Replan
LEMMA ReplanSucceeds ==
    ASSUME NEW c, NEW a, NEW t \in Nat, Fit(c, a), a.state \in {"ready", "verifying"}
    PROVE  Succeeds(c, a, [a EXCEPT !.state = "planning", !.updated = t,
                               !.replans = @ + 1, !.generation = @ + 1,
                               !.base = a.generation + 1,
                               !.steps = <<>>, !.observations = <<>>])
<1> DEFINE n == [a EXCEPT !.state = "planning", !.updated = t,
                               !.replans = @ + 1, !.generation = @ + 1,
                               !.base = a.generation + 1,
                               !.steps = <<>>, !.observations = <<>>]
<1>1. /\ Carries(a, n, {"state", "updated", "replans", "generation", "base", "steps",
                        "observations"})
      /\ n.state = "planning" /\ n.updated = t /\ n.generation = a.generation + 1
      /\ n.base = a.generation + 1 /\ n.steps = <<>> /\ n.observations = <<>>
  BY DEF Fit, Shaped, Fields, Carries
<1> HIDE DEF n
<1>2. Shaped(n) BY <1>1 DEF Fit, Shaped, TaskStates, Carries, Fields
<1>3. StepsFit(n) BY <1>1 DEF StepsFit
<1>4. ObservationsFit(c, n) BY <1>1 DEF Fit, ObservationsFit, Carries, Fields
<1>5. Succeeds(c, a, n)
  BY <1>1, <1>2, <1>3, <1>4 DEF Succeeds, Fit, Shaped, Carries, Fields
<1> QED BY <1>5 DEF n

\* RecordToolEvidence
LEMMA RecordSucceeds ==
    ASSUME NEW c, NEW a, Fit(c, a), a.state = "executing",
           NEW old, old = a.observations \/ (a.observations # <<>> /\ old = Tail(a.observations)),
           NEW v \in Verdicts, NEW s \in Nat, c.reuse \/ s = a.serial
    PROVE  Succeeds(c, a, [a EXCEPT !.observations =
              Append(old, [step |-> a.step, generation |-> a.generation, verification |-> v,
                           serial |-> s])])
<1> DEFINE o == [step |-> a.step, generation |-> a.generation, verification |-> v, serial |-> s]
           n == [a EXCEPT !.observations = Append(old, o)]
<1>1. Carries(a, n, {"observations"}) /\ n.observations = Append(old, o)
  BY DEF Fit, Shaped, Fields, Carries
<1>2. o \in Observations /\ o.step = a.step /\ o.generation = a.generation /\ o.serial = s
  BY DEF Fit, Shaped, Observations
<1>3. a.step \in DOMAIN a.steps BY DEF Fit, StepsFit
<1>4. Succeeds(c, a, n)
  <2> HIDE DEF n, o
  <2>1. /\ old \in Seq(Observations)
        /\ \A k \in DOMAIN old : \E j \in DOMAIN a.observations : old[k] = a.observations[j]
    <3>1. a.observations \in Seq(Observations) BY DEF Fit, ObservationsFit
    <3>2. CASE old = a.observations BY <3>1, <3>2
    <3>3. CASE a.observations # <<>> /\ old = Tail(a.observations)
      <4>1. /\ old \in Seq(Observations) /\ Len(old) = Len(a.observations) - 1
            /\ \A k \in 1..Len(old) : old[k] = a.observations[k + 1]
            /\ Len(a.observations) \in Nat
        BY <3>1, <3>3
      <4> QED BY <4>1, <3>1
    <3> QED BY <3>2, <3>3
  <2>2. /\ n.observations \in Seq(Observations)
        /\ \A k \in DOMAIN n.observations : n.observations[k] = o \/
              \E j \in DOMAIN a.observations : n.observations[k] = a.observations[j]
    BY <1>1, <1>2, <2>1
  <2>3. /\ DOMAIN n = Fields /\ n.steps = a.steps /\ n.state = a.state /\ n.step = a.step
        /\ n.base = a.base /\ n.generation = a.generation /\ n.serial = a.serial /\ n.id = a.id
    BY <1>1 DEF Carries, Fields
  <2>4. Shaped(n) BY <1>1 DEF Fit, Shaped, Carries, Fields
  <2>5. StepsFit(n) BY <2>3 DEF Fit, StepsFit
  <2>6. ObservationsFit(c, n)
    <3>1. ASSUME NEW k \in DOMAIN n.observations
          PROVE  /\ n.observations[k].generation >= n.base
                 /\ n.observations[k].generation <= n.generation
                 /\ n.observations[k].step \in DOMAIN n.steps
                 /\ c.reuse \/ n.observations[k].serial = n.serial
      <4>1. CASE n.observations[k] = o
        BY <4>1, <1>2, <1>3, <2>3 DEF Fit, Shaped
      <4>2. CASE \E j \in DOMAIN a.observations : n.observations[k] = a.observations[j]
        BY <4>2, <2>3 DEF Fit, ObservationsFit
      <4> QED BY <2>2, <4>1, <4>2
    <3> QED BY <3>1, <2>2, <2>3 DEF Fit, ObservationsFit
  <2> QED BY <2>3, <2>4, <2>5, <2>6 DEF Succeeds, Fit, Shaped
<1> QED BY <1>4

\* NewTask
LEMMA NewFits ==
    ASSUME NEW c, NEW id \in Nat, NEW t \in Nat, NEW serial \in Nat, c.reuse \/ serial = id,
           Plane(c)!TaskAssumption
    PROVE  Fit(c, Plane(c)!NewTask(id, t, serial))
<1> DEFINE n == Plane(c)!NewTask(id, t, serial)
<1>1. /\ DOMAIN n = Fields /\ n.id = id /\ n.state = "accepted" /\ n.step = 0 /\ n.waits = 0
      /\ n.steps = <<>> /\ n.observations = <<>> /\ n.updated = t /\ n.expires = t + c.lifetime
      /\ n.generation = 0 /\ n.serial = serial /\ n.base = 0
  BY DEF Plane!NewTask, Fields
<1>2. c.lifetime \in Nat BY DEF Plane!TaskAssumption
<1> HIDE DEF n
<1>3. Shaped(n) BY <1>1, <1>2 DEF Shaped, TaskStates
<1>4. StepsFit(n) BY <1>1 DEF StepsFit
<1>5. ObservationsFit(c, n) BY <1>1 DEF ObservationsFit
<1>6. Fit(c, n) BY <1>3, <1>4, <1>5 DEF Fit
<1> QED BY <1>6 DEF n

(* The tasks of the plane.                                                 *)

Everyone == {active[id] : id \in DOMAIN active} \cup {retained[k] : k \in DOMAIN retained}

\* A sequence of tasks with an id each.
Kept(s) ==
    /\ s \in Seq({s[k] : k \in DOMAIN s})
    /\ \A j, k \in DOMAIN s : s[j].id = s[k].id => j = k

TasksFit(c) == \A a \in Everyone : Fit(c, a)

\* A task is at one place: active under its id, or retained once.
TasksPlaced ==
    /\ IsFiniteSet(DOMAIN active) /\ Kept(retained)
    /\ \A id \in DOMAIN active :
          id \in Nat /\ active[id].id = id /\ active[id].state \notin Over
    /\ \A id \in DOMAIN active : \A k \in DOMAIN retained : retained[k].id # id

\* An id stands for one creation among the tasks that are known.
NamesAgree == \A a, b \in Everyone : a.id = b.id <=> a.serial = b.serial

SerialsPast == created \in Nat /\ \A a \in Everyone : a.serial <= created

Running == tools \cup {e.tool : e \in evidence}

\* A tool knows its task by id and creation, at a generation not ahead of it.
ToolsFit(c) ==
    /\ tools \subseteq Tools /\ evidence \subseteq Evidence
    /\ \A x \in Running :
          /\ x.serial <= created /\ (c.reuse \/ x.serial = x.id)
          /\ \A a \in Everyone : a.serial = x.serial => a.id = x.id /\ x.expected <= a.generation

TaskInv(c) == TasksFit(c) /\ TasksPlaced /\ NamesAgree /\ SerialsPast /\ ToolsFit(c)

\* The instances count like FiniteSets.
LEMMA PlaneCounts == ASSUME NEW c, NEW S PROVE Plane(c)!Cardinality(S) = Cardinality(S)
BY DEF Plane!Cardinality, Cardinality

\* The larger of two numbers (FiniteSetsExt).
LEMMA PlaneMax ==
    ASSUME NEW c, NEW x \in Int, NEW y \in Int
    PROVE  /\ Plane(c)!Max({x, y}) \in {x, y}
           /\ Plane(c)!Max({x, y}) >= x /\ Plane(c)!Max({x, y}) >= y
<1>1. \E m \in {x, y} : \A z \in {x, y} : m >= z OBVIOUS
<1> QED BY <1>1 DEF Plane!Max

\* As PlaneMax, of the smaller.
LEMMA PlaneMin ==
    ASSUME NEW c, NEW x \in Int, NEW y \in Int
    PROVE  Plane(c)!Min({x, y}) \in {x, y}
<1>1. \E m \in {x, y} : \A z \in {x, y} : m <= z OBVIOUS
<1> QED BY <1>1 DEF Plane!Min

\* A sequence is one of its own members.
LEMMA SeqOfMembers ==
    ASSUME NEW S, NEW s \in Seq(S) PROVE s \in Seq({s[k] : k \in DOMAIN s})
<1>1. DOMAIN s = 1..Len(s) /\ Len(s) \in Nat /\ s = [k \in 1..Len(s) |-> s[k]] OBVIOUS
<1>2. [k \in 1..Len(s) |-> s[k]] \in [1..Len(s) -> {s[k] : k \in DOMAIN s}] BY <1>1
<1>3. s \in [1..Len(s) -> {s[k] : k \in DOMAIN s}] BY <1>1, <1>2
<1> QED BY <1>1, <1>3, SeqDef

\* Two sequences without a common id, one behind the other (accept_transition).
LEMMA KeptJoins ==
    ASSUME NEW s, NEW t, Kept(s), Kept(t),
           \A j \in DOMAIN s : \A k \in DOMAIN t : s[j].id # t[k].id
    PROVE  /\ Kept(s \o t)
           /\ \A k \in DOMAIN (s \o t) : \/ \E j \in DOMAIN s : (s \o t)[k] = s[j]
                                         \/ \E j \in DOMAIN t : (s \o t)[k] = t[j]
<1> DEFINE S == {s[k] : k \in DOMAIN s} \cup {t[k] : k \in DOMAIN t}
           u == s \o t
<1>1. s \in Seq(S) /\ t \in Seq(S) BY DEF Kept
<1>2. /\ u \in Seq(S) /\ Len(u) = Len(s) + Len(t)
      /\ \A i \in 1..(Len(s) + Len(t)) : u[i] = IF i <= Len(s) THEN s[i] ELSE t[i - Len(s)]
  <2> HIDE DEF S
  <2> QED BY <1>1, ConcatProperties
<1>3. /\ Len(s) \in Nat /\ Len(t) \in Nat /\ DOMAIN s = 1..Len(s) /\ DOMAIN t = 1..Len(t)
      /\ DOMAIN u = 1..Len(u)
  <2> HIDE DEF S, u
  <2> QED BY <1>1, <1>2
<1> HIDE DEF S, u
<1>4. u \in Seq({u[k] : k \in DOMAIN u}) BY <1>2, SeqOfMembers
<1>5. \A k \in DOMAIN u : \/ k \in DOMAIN s /\ u[k] = s[k]
                          \/ k - Len(s) \in DOMAIN t /\ u[k] = t[k - Len(s)] /\ k > Len(s)
  BY <1>2, <1>3
<1>6. ASSUME NEW j \in DOMAIN u, NEW k \in DOMAIN u, u[j].id = u[k].id PROVE j = k
  <2>1. CASE j \in DOMAIN s /\ u[j] = s[j] /\ k \in DOMAIN s /\ u[k] = s[k]
    BY <1>6, <2>1 DEF Kept
  <2>2. CASE /\ j - Len(s) \in DOMAIN t /\ u[j] = t[j - Len(s)]
             /\ k - Len(s) \in DOMAIN t /\ u[k] = t[k - Len(s)]
    <3>1. j - Len(s) = k - Len(s) BY <1>6, <2>2 DEF Kept
    <3> QED BY <3>1, <1>3
  <2> QED BY <1>5, <1>6, <2>1, <2>2
<1>7. Kept(u) BY <1>4, <1>6 DEF Kept
<1> QED BY <1>5, <1>7 DEF u

\* The end of a sequence (Trimmed).
LEMMA KeptEnds ==
    ASSUME NEW s, Kept(s), NEW m \in 1..(Len(s) + 1)
    PROVE  /\ Kept(SubSeq(s, m, Len(s)))
           /\ \A k \in DOMAIN SubSeq(s, m, Len(s)) :
                 \E j \in DOMAIN s : SubSeq(s, m, Len(s))[k] = s[j]
<1> DEFINE S == {s[k] : k \in DOMAIN s}
           u == SubSeq(s, m, Len(s))
<1>1. s \in Seq(S) BY DEF Kept
<1>2. Len(s) \in Nat /\ DOMAIN s = 1..Len(s) /\ \A k \in 1..Len(s) : s[k] \in S
  <2> HIDE DEF S
  <2> QED BY <1>1
<1>3. /\ u \in Seq(S) /\ Len(u) = IF m <= Len(s) THEN Len(s) - m + 1 ELSE 0
      /\ \A i \in 1..(Len(s) - m + 1) : u[i] = s[m + i - 1]
  <2> HIDE DEF S
  <2>1. m \in Int /\ Len(s) \in Int /\ \A i \in m..Len(s) : s[i] \in S BY <1>2
  <2> QED BY <2>1, SubSeqProperties
<1>4. DOMAIN u = 1..Len(u)
  <2> HIDE DEF S, u
  <2> QED BY <1>3
<1> HIDE DEF S, u
<1>5. \A k \in DOMAIN u : m + k - 1 \in DOMAIN s /\ u[k] = s[m + k - 1]
  <2>1. CASE m <= Len(s)
    <3>1. Len(u) = Len(s) - m + 1 BY <1>3, <2>1
    <3>2. \A k \in 1..(Len(s) - m + 1) : m + k - 1 \in 1..Len(s) BY <1>2
    <3> QED BY <3>1, <3>2, <1>2, <1>3, <1>4
  <2>2. CASE ~(m <= Len(s))
    <3>1. Len(u) = 0 BY <1>3, <2>2
    <3> QED BY <3>1, <1>4
  <2> QED BY <2>1, <2>2
<1>6. u \in Seq({u[k] : k \in DOMAIN u}) BY <1>3, SeqOfMembers
<1>7. ASSUME NEW j \in DOMAIN u, NEW k \in DOMAIN u, u[j].id = u[k].id PROVE j = k
  <2>1. m + j - 1 = m + k - 1 BY <1>5, <1>7 DEF Kept
  <2> QED BY <2>1, <1>2, <1>3, <1>4
<1>8. Kept(u) BY <1>6, <1>7 DEF Kept
<1> QED BY <1>5, <1>8 DEF u

\* AcceptAll: the tasks are the same, each at one place.
LEMMA AcceptsAll ==
    ASSUME NEW c, Plane(c)!TaskAssumption, TaskInv(c), NEW changed,
           DOMAIN changed \subseteq DOMAIN active,
           \A i \in DOMAIN changed : Succeeds(c, active[i], changed[i]),
           Plane(c)!AcceptAll(changed)
    PROVE  /\ TasksFit(c)' /\ TasksPlaced'
           /\ \A n \in Everyone' : \E a \in Everyone :
                 n.id = a.id /\ n.serial = a.serial /\ a.generation <= n.generation
           /\ \A id \in DOMAIN active' : /\ id \in DOMAIN active
                 /\ active'[id] = IF id \in DOMAIN changed THEN changed[id] ELSE active[id]
<1> DEFINE over == {id \in DOMAIN changed : changed[id].state \in Over}
<1>1. /\ active' = [id \in DOMAIN active \ over |->
                       IF id \in DOMAIN changed THEN changed[id] ELSE active[id]]
      /\ \E order \in [1..Plane(c)!Cardinality(over) -> over] :
            /\ \A j, k \in DOMAIN order : j < k => order[j] < order[k]
            /\ retained' = Plane(c)!Trimmed(retained \o
                              [k \in DOMAIN order |-> changed[order[k]]])
  BY DEF Plane!AcceptAll, Plane!Ascending, Plane!Terminal, Over
<1>2. IsFiniteSet(over) /\ Cardinality(over) \in Nat /\ over \subseteq DOMAIN active
  <2>1. IsFiniteSet(DOMAIN active) BY DEF TaskInv, TasksPlaced
  <2> QED BY <2>1, FS_Subset, FS_CardinalityType
<1>3. PICK order \in [1..Cardinality(over) -> over] :
            /\ \A j, k \in DOMAIN order : j < k => order[j] < order[k]
            /\ retained' = Plane(c)!Trimmed(retained \o
                              [k \in DOMAIN order |-> changed[order[k]]])
  <2> HIDE DEF over
  <2> QED BY <1>1, PlaneCounts
<1> DEFINE moved == [k \in DOMAIN order |-> changed[order[k]]]
           s == retained \o moved
<1>4. /\ DOMAIN active' = DOMAIN active \ over
      /\ \A id \in DOMAIN active' : id \in DOMAIN active
            /\ active'[id] = IF id \in DOMAIN changed THEN changed[id] ELSE active[id]
  BY <1>1
<1>5. \A id \in DOMAIN active : id \in Nat /\ active[id].id = id /\ active[id] \in Everyone
  BY DEF TaskInv, TasksPlaced, Everyone
<1>6. \A id \in DOMAIN changed :
         /\ Fit(c, changed[id]) /\ changed[id].id = id /\ active[id] \in Everyone
         /\ changed[id].serial = active[id].serial
         /\ active[id].generation <= changed[id].generation
  BY <1>5 DEF Succeeds
<1>7. /\ DOMAIN moved = 1..Cardinality(over) /\ moved \in Seq({moved[k] : k \in DOMAIN moved})
      /\ \A k \in DOMAIN moved : order[k] \in over /\ moved[k] = changed[order[k]]
  <2>1. DOMAIN moved = 1..Cardinality(over)
        /\ \A k \in DOMAIN moved : order[k] \in over /\ moved[k] = changed[order[k]]
    OBVIOUS
  <2>2. moved \in [1..Cardinality(over) -> {moved[k] : k \in DOMAIN moved}]
    <3>1. moved = [k \in 1..Cardinality(over) |-> moved[k]] OBVIOUS
    <3> HIDE DEF moved, over
    <3> QED BY <2>1, <3>1
  <2> HIDE DEF moved, over
  <2>3. moved \in Seq({moved[k] : k \in DOMAIN moved}) BY <2>2, <1>2, SeqDef
  <2> QED BY <2>1, <2>3
<1>8. Kept(moved)
  <2>1. ASSUME NEW j \in DOMAIN moved, NEW k \in DOMAIN moved, moved[j].id = moved[k].id
        PROVE  j = k
    <3>1. order[j] = order[k] BY <1>6, <1>7, <2>1
    <3>2. order[j] \in Nat BY <1>5, <1>7, <1>2
    <3>3. j \in Int /\ k \in Int /\ DOMAIN order = DOMAIN moved BY <1>7, <1>2
    <3> HIDE DEF moved
    <3>4. ~(j < k) /\ ~(k < j) BY <1>3, <3>1, <3>2, <3>3
    <3> QED BY <3>3, <3>4
  <2> HIDE DEF moved
  <2> QED BY <1>7, <2>1 DEF Kept
<1>9. Kept(retained) /\ \A j \in DOMAIN retained : \A k \in DOMAIN moved :
                           retained[j].id # moved[k].id
  <2> HIDE DEF moved
  <2> QED BY <1>2, <1>6, <1>7 DEF TaskInv, TasksPlaced
<1> HIDE DEF moved, over, s
<1>10. /\ Kept(s)
       /\ \A k \in DOMAIN s : \/ \E j \in DOMAIN retained : s[k] = retained[j]
                              \/ \E j \in DOMAIN moved : s[k] = moved[j]
  BY <1>8, <1>9, KeptJoins DEF s
<1>11. /\ Kept(retained')
       /\ \A k \in DOMAIN retained' : \E j \in DOMAIN s : retained'[k] = s[j]
  <2>1. retained' = Plane(c)!Trimmed(s) BY <1>3 DEF s, moved
  <2> DEFINE d == Len(s) - c.retained + 1
             m == Plane(c)!Max({1, d})
  <2>2. retained' = SubSeq(s, m, Len(s)) BY <2>1 DEF Plane!Trimmed
  <2>3. Len(s) \in Nat BY <1>10 DEF Kept
  <2>4. c.retained \in Nat /\ c.retained >= 1 BY DEF Plane!TaskAssumption
  <2>5. m \in 1..(Len(s) + 1)
    <3>1. d \in Int /\ 1 \in Int BY <2>3, <2>4
    <3>2. m \in {1, d} /\ m >= 1
      <4> HIDE DEF d
      <4> QED BY <3>1, PlaneMax
    <3> HIDE DEF m
    <3> QED BY <3>2, <2>3, <2>4
  <2> HIDE DEF m
  <2> QED BY <2>2, <2>5, <1>10, KeptEnds
<1>12. \A k \in DOMAIN retained' :
          \/ \E j \in DOMAIN retained : retained'[k] = retained[j]
          \/ \E i \in over : retained'[k] = changed[i]
  BY <1>7, <1>10, <1>11
<1>13. \A n \in Everyone' : \/ n \in Everyone /\ Fit(c, n)
                            \/ \E i \in DOMAIN changed : n = changed[i]
  BY <1>4, <1>12 DEF Everyone, TaskInv, TasksFit, over
<1>14. TasksFit(c)' BY <1>6, <1>13 DEF TasksFit
<1>15. \A n \in Everyone' : \E a \in Everyone :
          n.id = a.id /\ n.serial = a.serial /\ a.generation <= n.generation
  <2>1. ASSUME NEW n \in Everyone'
        PROVE  \E a \in Everyone :
                  n.id = a.id /\ n.serial = a.serial /\ a.generation <= n.generation
    <3>1. CASE n \in Everyone /\ Fit(c, n) BY <3>1 DEF Fit, Shaped
    <3>2. CASE \E i \in DOMAIN changed : n = changed[i] BY <3>2, <1>5, <1>6
    <3> QED BY <1>13, <3>1, <3>2
  <2> QED BY <2>1
<1>16. TasksPlaced'
  <2>1. IsFiniteSet(DOMAIN active') BY <1>4, FS_Subset DEF TaskInv, TasksPlaced
  <2>2. \A id \in DOMAIN active' :
           id \in Nat /\ active'[id].id = id /\ active'[id].state \notin Over
    BY <1>4, <1>5, <1>6 DEF over, TaskInv, TasksPlaced
  <2>3. \A id \in DOMAIN active' : \A k \in DOMAIN retained' : retained'[k].id # id
    BY <1>4, <1>6, <1>12 DEF over, TaskInv, TasksPlaced
  <2> QED BY <2>1, <2>2, <2>3, <1>11 DEF TasksPlaced
<1> QED BY <1>4, <1>14, <1>15, <1>16

\* What was said of names, serials and tools stays true of tasks that descend
\* from those there were.
LEMMA InvDescends ==
    ASSUME NEW c, TaskInv(c), TasksFit(c)', TasksPlaced', created' = created,
           tools' \subseteq Tools, evidence' \subseteq Evidence, Running' \subseteq Running,
           \A n \in Everyone' : \E a \in Everyone :
              n.id = a.id /\ n.serial = a.serial /\ a.generation <= n.generation
    PROVE  TaskInv(c)'
<1>1. NamesAgree' BY DEF TaskInv, NamesAgree
<1>2. SerialsPast' BY DEF TaskInv, SerialsPast
<1>3. ASSUME NEW x \in Running'
      PROVE  /\ x.serial <= created' /\ (c.reuse \/ x.serial = x.id)
             /\ \A n \in Everyone' : n.serial = x.serial =>
                   n.id = x.id /\ x.expected <= n.generation
  <2>1. /\ x \in Running /\ x.serial <= created /\ (c.reuse \/ x.serial = x.id)
        /\ \A a \in Everyone : a.serial = x.serial => a.id = x.id /\ x.expected <= a.generation
    BY DEF TaskInv, ToolsFit
  <2>2. x.expected \in Nat BY <2>1 DEF TaskInv, ToolsFit, Running, Tools, Evidence
  <2>3. ASSUME NEW n \in Everyone', n.serial = x.serial
        PROVE  n.id = x.id /\ x.expected <= n.generation
    <3>1. PICK a \in Everyone :
             n.id = a.id /\ n.serial = a.serial /\ a.generation <= n.generation OBVIOUS
    <3>2. a.generation \in Nat /\ n.generation \in Nat BY DEF TaskInv, TasksFit, Fit, Shaped
    <3>3. a.id = x.id /\ x.expected <= a.generation BY <2>1, <2>3, <3>1
    <3> QED BY <2>2, <3>1, <3>2, <3>3
  <2> QED BY <2>1, <2>3
<1>4. ToolsFit(c)' BY <1>3 DEF ToolsFit
<1> QED BY <1>1, <1>2, <1>4 DEF TaskInv

\* What every step of the plane keeps: the invariant and the fences.
StepKeeps(c) == TaskInv(c)' /\ Plane(c)!FencedStep /\ Plane(c)!AttemptsStep

\* Tasks change, tools do not.
LEMMA AcceptsKeep ==
    ASSUME NEW c, Plane(c)!TaskAssumption, TaskInv(c), NEW changed,
           DOMAIN changed \subseteq DOMAIN active,
           \A i \in DOMAIN changed : Succeeds(c, active[i], changed[i]),
           Plane(c)!AcceptAll(changed), UNCHANGED <<tools, evidence, created>>
    PROVE  StepKeeps(c)
<1>1. /\ TasksFit(c)' /\ TasksPlaced'
      /\ \A n \in Everyone' : \E a \in Everyone :
            n.id = a.id /\ n.serial = a.serial /\ a.generation <= n.generation
      /\ \A id \in DOMAIN active' : /\ id \in DOMAIN active
            /\ active'[id] = IF id \in DOMAIN changed THEN changed[id] ELSE active[id]
  BY AcceptsAll
<1>2. /\ tools' = tools /\ evidence' = evidence /\ created' = created /\ Running' = Running
      /\ tools \subseteq Tools /\ evidence \subseteq Evidence
  BY DEF Running, TaskInv, ToolsFit
<1>3. TaskInv(c)' BY <1>1, <1>2, InvDescends
<1>4. Plane(c)!FencedStep BY <1>2 DEF Plane!FencedStep
<1>5. ASSUME NEW id \in DOMAIN active \cap DOMAIN active',
             active'[id].state = "executing", active[id].state # "executing",
             NEW x \in tools, x.serial = active[id].serial
      PROVE  active'[id].generation # x.expected
  <2>1. Succeeds(c, active[id], active'[id]) BY <1>1, <1>5
  <2>2. active[id].generation < active'[id].generation BY <2>1, <1>5 DEF Succeeds
  <2>3. active[id] \in Everyone /\ x \in Running BY DEF Everyone, Running
  <2>4. x.expected <= active[id].generation /\ x.expected \in Nat
    BY <2>3, <1>2, <1>5 DEF TaskInv, ToolsFit, Tools
  <2>5. active[id].generation \in Nat /\ active'[id].generation \in Nat
    BY <2>1, <2>3 DEF TaskInv, TasksFit, Succeeds, Fit, Shaped
  <2> QED BY <2>2, <2>4, <2>5
<1>6. Plane(c)!AttemptsStep BY <1>5 DEF Plane!AttemptsStep
<1> QED BY <1>3, <1>4, <1>6 DEF StepKeeps

\* Step: one task changes.
LEMMA StepsKeep ==
    ASSUME NEW c, Plane(c)!TaskAssumption, TaskInv(c), NEW id \in DOMAIN active, NEW n,
           Succeeds(c, active[id], n), Plane(c)!Step(id, n)
    PROVE  StepKeeps(c)
<1> DEFINE changed == [i \in {id} |-> n]
<1>1. Plane(c)!AcceptAll(changed) /\ UNCHANGED <<tools, evidence, created>>
  BY DEF Plane!Step, Plane!Accept
<1>2. DOMAIN changed \subseteq DOMAIN active
      /\ \A i \in DOMAIN changed : Succeeds(c, active[i], changed[i])
  OBVIOUS
<1> HIDE DEF changed
<1> QED BY <1>1, <1>2, AcceptsKeep

\* What is known of an active task.
LEMMA ActiveFits ==
    ASSUME NEW c, TaskInv(c), NEW id \in DOMAIN active
    PROVE  Fit(c, active[id]) /\ active[id].id = id /\ active[id].state \notin Over
BY DEF TaskInv, TasksFit, TasksPlaced, Everyone

\* expire_if_needed
LEMMA ExpiredSucceeds ==
    ASSUME NEW c, NEW a, NEW t \in Nat, Fit(c, a)
    PROVE  Succeeds(c, a, Plane(c)!Expired(a, t))
<1>1. CASE t >= a.expires
  <2>1. Plane(c)!Expired(a, t) =
           [a EXCEPT !.state = "expired", !.generation = @ + 1, !.updated = t]
    BY <1>1 DEF Plane!Expired
  <2>2. Succeeds(c, a, [a EXCEPT !.state = "expired", !.generation = @ + 1, !.updated = t])
    BY OverSucceeds
  <2> QED BY <2>1, <2>2
<1>2. CASE ~(t >= a.expires) /\ a.state = "waiting" /\ Plane(c)!CommitmentOver(a, t)
  <2>1. Plane(c)!Expired(a, t) =
           [a EXCEPT !.state = "not_verified", !.generation = @ + 1, !.updated = t]
    BY <1>2 DEF Plane!Expired
  <2>2. Succeeds(c, a, [a EXCEPT !.state = "not_verified", !.generation = @ + 1, !.updated = t])
    BY OverSucceeds
  <2> QED BY <2>1, <2>2
<1>3. CASE ~(t >= a.expires) /\ ~(a.state = "waiting" /\ Plane(c)!CommitmentOver(a, t))
  <2>1. Plane(c)!Expired(a, t) = a BY <1>3 DEF Plane!Expired
  <2> QED BY <2>1 DEF Succeeds, Fit, Shaped
<1> QED BY <1>1, <1>2, <1>3

\* The transitions of one task.
LEMMA TransitionsKeep ==
    ASSUME NEW c, Plane(c)!TaskAssumption, TaskInv(c), NEW id, NEW t \in c.times,
           \/ Plane(c)!BeginPlanning(id, t) \/ Plane(c)!MarkReady(id, t)
           \/ Plane(c)!WaitFor(id, t) \/ Plane(c)!Resume(id, t)
           \/ \E k \in 1..c.steps : Plane(c)!BeginExecution(id, k, t)
           \/ Plane(c)!FinishStep(id, t) \/ Plane(c)!RetryCurrentStep(id, t)
           \/ Plane(c)!Replan(id, t) \/ Plane(c)!Cancel(id, t)
           \/ \E out \in {"completed", "failed", "cancelled", "not_verified"} :
                 \E g : Plane(c)!CommitVerification(id, g, out, t)
    PROVE  StepKeeps(c)
<1>1. t \in Nat /\ c.ttl \in Nat BY DEF Plane!TaskAssumption
<1> DEFINE a == active[id]
<1>2. id \in DOMAIN active => Fit(c, a) BY ActiveFits
<1>3. CASE Plane(c)!BeginPlanning(id, t)
  <2>1. id \in DOMAIN active /\ a.state = "accepted"
        /\ Plane(c)!Step(id, [a EXCEPT !.state = "planning", !.updated = t])
    BY <1>3 DEF Plane!BeginPlanning, Plane!In
  <2> HIDE DEF a
  <2>2. Succeeds(c, a, [a EXCEPT !.state = "planning", !.updated = t])
    BY <1>1, <1>2, <2>1, PlanningSucceeds
  <2> QED BY <2>1, <2>2, StepsKeep DEF a
<1>4. CASE Plane(c)!MarkReady(id, t)
  <2>1. id \in DOMAIN active /\ a.state = "planning"
        /\ Plane(c)!Step(id, [a EXCEPT !.state = "ready", !.updated = t])
    BY <1>4 DEF Plane!MarkReady, Plane!In
  <2> HIDE DEF a
  <2>2. Succeeds(c, a, [a EXCEPT !.state = "ready", !.updated = t])
    BY <1>1, <1>2, <2>1, ReadySucceeds
  <2> QED BY <2>1, <2>2, StepsKeep DEF a
<1>5. CASE Plane(c)!WaitFor(id, t)
  <2> DEFINE w == Plane(c)!Min({t + c.ttl, a.expires})
  <2>1. id \in DOMAIN active /\ a.state = "ready"
        /\ Plane(c)!Step(id, [a EXCEPT !.state = "waiting", !.updated = t, !.waits = w])
    BY <1>5 DEF Plane!WaitFor, Plane!In
  <2>2. w \in Nat
    <3>1. a.expires \in Nat BY <1>2, <2>1 DEF Fit, Shaped
    <3>2. t + c.ttl \in Nat BY <1>1
    <3> DEFINE x == t + c.ttl
               y == a.expires
    <3>3. x \in Nat /\ y \in Nat BY <3>1, <3>2
    <3> HIDE DEF x, y
    <3>4. Plane(c)!Min({x, y}) \in {x, y} BY <3>3, PlaneMin
    <3>5. Plane(c)!Min({x, y}) \in Nat BY <3>3, <3>4
    <3> QED BY <3>5 DEF x, y
  <2> HIDE DEF a, w
  <2>3. Succeeds(c, a, [a EXCEPT !.state = "waiting", !.updated = t, !.waits = w])
    BY <1>1, <1>2, <2>1, <2>2, WaitingSucceeds
  <2> QED BY <2>1, <2>3, StepsKeep DEF a
<1>6. CASE Plane(c)!Resume(id, t)
  <2>1. id \in DOMAIN active /\ a.state = "waiting"
        /\ \/ Plane(c)!Step(id, Plane(c)!Expired(a, t))
           \/ Plane(c)!Step(id, [Plane(c)!Expired(a, t) EXCEPT !.state = "ready", !.updated = t])
              /\ Plane(c)!Expired(a, t) = a
    BY <1>6 DEF Plane!Resume, Plane!In
  <2>2. CASE Plane(c)!Step(id, Plane(c)!Expired(a, t))
    BY <2>1, <2>2, <1>1, <1>2, ExpiredSucceeds, StepsKeep
  <2>3. CASE Plane(c)!Step(id, [a EXCEPT !.state = "ready", !.updated = t])
    <3> HIDE DEF a
    <3>1. Succeeds(c, a, [a EXCEPT !.state = "ready", !.updated = t])
      BY <1>1, <1>2, <2>1, ReadySucceeds
    <3> QED BY <2>1, <2>3, <3>1, StepsKeep DEF a
  <2> QED BY <2>1, <2>2, <2>3
<1>7. CASE \E k \in 1..c.steps : Plane(c)!BeginExecution(id, k, t)
  <2>1. PICK k \in 1..c.steps :
           /\ id \in DOMAIN active /\ a.state = "ready" /\ k \in DOMAIN a.steps
           /\ Plane(c)!Step(id, [a EXCEPT !.state = "executing", !.step = k, !.updated = t,
                               !.generation = a.generation + 1, !.steps[k] = "executing"])
    BY <1>7 DEF Plane!BeginExecution, Plane!In, Plane!ExecutionGeneration
  <2> DEFINE n == [a EXCEPT !.state = "executing", !.step = k, !.updated = t,
                               !.generation = a.generation + 1, !.steps[k] = "executing"]
  <2>2. k \in Nat OBVIOUS
  <2> HIDE DEF a
  <2>3. Succeeds(c, a, n) BY <1>1, <1>2, <2>1, <2>2, ExecutionSucceeds
  <2> HIDE DEF n
  <2>4. Plane(c)!Step(id, n) BY <2>1 DEF n
  <2> QED BY <2>1, <2>3, <2>4, StepsKeep DEF a
<1>8. CASE Plane(c)!FinishStep(id, t)
  <2> DEFINE steps == [a.steps EXCEPT ![a.step] = "executed"]
             all == \A k \in DOMAIN steps : steps[k] = "executed"
             n == [a EXCEPT !.steps = steps, !.updated = t,
                            !.state = IF all THEN "verifying" ELSE "ready"]
  <2>1. id \in DOMAIN active /\ a.state = "executing" /\ Plane(c)!Step(id, n)
    BY <1>8 DEF Plane!FinishStep, Plane!In
  <2>2. all \in BOOLEAN OBVIOUS
  <2>3. Succeeds(c, a, n)
    <3>1. all <=> \A k \in DOMAIN steps : steps[k] = "executed" OBVIOUS
    <3>2. steps = [a.steps EXCEPT ![a.step] = "executed"] OBVIOUS
    <3> HIDE DEF a, all, steps
    <3> QED BY <1>1, <1>2, <2>1, <2>2, <3>1, <3>2, FinishSucceeds
  <2> HIDE DEF n
  <2> QED BY <2>1, <2>3, StepsKeep
<1>9. CASE Plane(c)!RetryCurrentStep(id, t)
  <2> DEFINE n == [a EXCEPT !.state = "ready", !.updated = t,
                               !.retries = @ + 1, !.generation = @ + 1,
                               !.steps[a.step] = "pending"]
  <2>1. id \in DOMAIN active /\ a.state = "executing" /\ Plane(c)!Step(id, n)
    BY <1>9 DEF Plane!RetryCurrentStep, Plane!In
  <2>2. Succeeds(c, a, n)
    <3> HIDE DEF a
    <3> QED BY <1>1, <1>2, <2>1, RetrySucceeds
  <2> HIDE DEF n
  <2> QED BY <2>1, <2>2, StepsKeep
<1>10. CASE Plane(c)!Replan(id, t)
  <2> DEFINE n == [a EXCEPT !.state = "planning", !.updated = t,
                               !.replans = @ + 1, !.generation = @ + 1,
                               !.base = a.generation + 1,
                               !.steps = <<>>, !.observations = <<>>]
  <2>1. id \in DOMAIN active /\ a.state \in {"ready", "verifying"} /\ Plane(c)!Step(id, n)
    BY <1>10 DEF Plane!Replan, Plane!In, Plane!ReplannedSteps
  <2>2. Succeeds(c, a, n)
    <3> HIDE DEF a
    <3> QED BY <1>1, <1>2, <2>1, ReplanSucceeds
  <2> HIDE DEF n
  <2> QED BY <2>1, <2>2, StepsKeep
<1>11. CASE Plane(c)!Cancel(id, t)
  <2> DEFINE n == [a EXCEPT !.state = "cancelled", !.generation = @ + 1, !.updated = t]
  <2>1. id \in DOMAIN active /\ Plane(c)!Step(id, n) BY <1>11 DEF Plane!Cancel
  <2>2. Succeeds(c, a, n)
    <3> HIDE DEF a
    <3> QED BY <1>1, <1>2, <2>1, OverSucceeds
  <2> HIDE DEF n
  <2> QED BY <2>1, <2>2, StepsKeep
<1>12. CASE \E out \in {"completed", "failed", "cancelled", "not_verified"} :
               \E g : Plane(c)!CommitVerification(id, g, out, t)
  <2>1. PICK out \in {"completed", "failed", "cancelled", "not_verified"} :
           id \in DOMAIN active /\ a.state = "verifying"
           /\ Plane(c)!Step(id, [a EXCEPT !.state = out, !.updated = t])
    BY <1>12 DEF Plane!CommitVerification, Plane!In
  <2> DEFINE n == [a EXCEPT !.state = out, !.updated = t]
  <2>2. Succeeds(c, a, n)
    <3> HIDE DEF a
    <3> QED BY <1>1, <1>2, <2>1, VerdictSucceeds
  <2>3. Plane(c)!Step(id, n) BY <2>1
  <2> HIDE DEF n
  <2> QED BY <2>1, <2>2, <2>3, StepsKeep
<1> HIDE DEF a
<1> QED BY <1>3, <1>4, <1>5, <1>6, <1>7, <1>8, <1>9, <1>10, <1>11, <1>12

\* AddStep
LEMMA AddingKeeps ==
    ASSUME NEW c, Plane(c)!TaskAssumption, TaskInv(c), NEW id, Plane(c)!AddStep(id)
    PROVE  StepKeeps(c)
<1> DEFINE a == active[id]
           n == [a EXCEPT !.steps = Append(@, "pending")]
<1>1. id \in DOMAIN active /\ a.state = "planning" /\ Plane(c)!Step(id, n)
  BY DEF Plane!AddStep, Plane!In
<1>2. Fit(c, a) BY <1>1, ActiveFits
<1>3. Succeeds(c, a, n)
  <2> HIDE DEF a
  <2> QED BY <1>1, <1>2, AddingSucceeds
<1> HIDE DEF n
<1> QED BY <1>1, <1>3, StepsKeep

\* Expire
LEMMA ExpiryKeeps ==
    ASSUME NEW c, Plane(c)!TaskAssumption, TaskInv(c), NEW t \in c.times, Plane(c)!Expire(t)
    PROVE  StepKeeps(c)
<1>1. PICK ids \in SUBSET (DOMAIN active) :
         /\ Plane(c)!AcceptAll([id \in ids |-> Plane(c)!Expired(active[id], t)])
         /\ UNCHANGED <<tools, evidence, created>>
  BY DEF Plane!Expire, Plane!Expirations, Plane!Walked
<1> DEFINE changed == [id \in ids |-> Plane(c)!Expired(active[id], t)]
<1>2. DOMAIN changed \subseteq DOMAIN active /\ Plane(c)!AcceptAll(changed) BY <1>1
<1>3. ASSUME NEW i \in DOMAIN changed PROVE Succeeds(c, active[i], changed[i])
  <2>1. changed[i] = Plane(c)!Expired(active[i], t) /\ i \in DOMAIN active BY <1>2
  <2>2. t \in Nat BY DEF Plane!TaskAssumption
  <2> QED BY <2>1, <2>2, ActiveFits, ExpiredSucceeds
<1> HIDE DEF changed
<1> QED BY <1>1, <1>2, <1>3, AcceptsKeep

\* CreateTask
LEMMA CreationKeeps ==
    ASSUME NEW c, Plane(c)!TaskAssumption, TaskInv(c), NEW id \in c.tasks, NEW t \in c.times,
           Plane(c)!CreateTask(id, t)
    PROVE  StepKeeps(c)
<1> DEFINE n == Plane(c)!NewTask(id, t, created + 1)
<1>1. /\ id \notin DOMAIN active /\ \A k \in DOMAIN retained : retained[k].id # id
      /\ c.reuse \/ id = created + 1
      /\ created' = created + 1 /\ retained' = retained /\ tools' = tools /\ evidence' = evidence
      /\ active' = [i \in DOMAIN active \cup {id} |-> IF i = id THEN n ELSE active[i]]
  BY DEF Plane!CreateTask, Plane!Duplicate, Plane!Known
<1>2. id \in Nat /\ t \in Nat /\ created \in Nat /\ created + 1 \in Nat
  BY DEF Plane!TaskAssumption, TaskInv, SerialsPast
<1>3. Fit(c, n) /\ n.id = id /\ n.serial = created + 1 /\ n.state = "accepted"
  <2>1. Fit(c, n) BY <1>1, <1>2, NewFits
  <2> QED BY <2>1 DEF Plane!NewTask
<1> HIDE DEF n
<1>4. /\ DOMAIN active' = DOMAIN active \cup {id} /\ active'[id] = n
      /\ \A i \in DOMAIN active : active'[i] = active[i]
  BY <1>1
<1>5. /\ \A a \in Everyone' : a = n \/ a \in Everyone
      /\ \A a \in Everyone : a.id # id
  <2>1. ASSUME NEW a \in Everyone' PROVE a = n \/ a \in Everyone
    <3>1. CASE \E i \in DOMAIN active' : a = active'[i] BY <1>4, <3>1 DEF Everyone
    <3>2. CASE \E k \in DOMAIN retained' : a = retained'[k] BY <1>1, <3>2 DEF Everyone
    <3> QED BY <3>1, <3>2 DEF Everyone
  <2>2. \A a \in Everyone : a.id # id BY <1>1 DEF Everyone, TaskInv, TasksPlaced
  <2> QED BY <2>1, <2>2
<1>6. TasksFit(c)' BY <1>3, <1>5 DEF TaskInv, TasksFit
<1>7. TasksPlaced'
  <2>1. IsFiniteSet(DOMAIN active') BY <1>4, FS_AddElement DEF TaskInv, TasksPlaced
  <2>2. \A i \in DOMAIN active' : i \in Nat /\ active'[i].id = i /\ active'[i].state \notin Over
    BY <1>2, <1>3, <1>4 DEF TaskInv, TasksPlaced, Over
  <2>3. \A i \in DOMAIN active' : \A k \in DOMAIN retained' : retained'[k].id # i
    BY <1>1, <1>4 DEF TaskInv, TasksPlaced
  <2> QED BY <1>1, <2>1, <2>2, <2>3 DEF TaskInv, TasksPlaced
<1>8. \A a \in Everyone : a.serial \in Nat /\ a.serial <= created
  BY DEF TaskInv, TasksFit, Fit, Shaped, SerialsPast
<1>9. \A a \in Everyone : a.serial # created + 1 BY <1>2, <1>8
<1>10. NamesAgree' BY <1>3, <1>5, <1>9 DEF TaskInv, NamesAgree
<1>11. SerialsPast'
  <2>1. \A a \in Everyone' : a.serial <= created + 1 BY <1>2, <1>3, <1>5, <1>8
  <2> QED BY <1>1, <1>2, <2>1 DEF SerialsPast
<1>12. Running' = Running BY <1>1 DEF Running
<1>13. ToolsFit(c)'
  <2>1. ASSUME NEW x \in Running
        PROVE  /\ x.serial <= created + 1 /\ (c.reuse \/ x.serial = x.id)
               /\ \A a \in Everyone' : a.serial = x.serial =>
                     a.id = x.id /\ x.expected <= a.generation
    <3>1. /\ x.serial <= created /\ (c.reuse \/ x.serial = x.id)
          /\ \A a \in Everyone : a.serial = x.serial => a.id = x.id /\ x.expected <= a.generation
      BY DEF TaskInv, ToolsFit
    <3>2. x.serial \in Nat BY DEF TaskInv, ToolsFit, Running, Tools, Evidence
    <3>3. x.serial # created + 1 /\ x.serial <= created + 1 BY <1>2, <3>1, <3>2
    <3> QED BY <1>3, <1>5, <3>1, <3>3
  <2>2. tools' \subseteq Tools /\ evidence' \subseteq Evidence BY <1>1 DEF TaskInv, ToolsFit
  <2> QED BY <1>1, <1>12, <2>1, <2>2 DEF ToolsFit
<1>14. TaskInv(c)' BY <1>6, <1>7, <1>10, <1>11, <1>13 DEF TaskInv
<1>15. Plane(c)!FencedStep BY <1>1 DEF Plane!FencedStep
<1>16. Plane(c)!AttemptsStep BY <1>1, <1>4 DEF Plane!AttemptsStep
<1> QED BY <1>14, <1>15, <1>16 DEF StepKeeps

\* StartTool
LEMMA StartsKeep ==
    ASSUME NEW c, TaskInv(c), NEW id, Plane(c)!StartTool(id)
    PROVE  StepKeeps(c)
<1> DEFINE x == [id |-> id, expected |-> active[id].generation, serial |-> active[id].serial]
<1>1. /\ id \in DOMAIN active /\ tools' = tools \cup {x} /\ active' = active
      /\ retained' = retained /\ evidence' = evidence /\ created' = created
  BY DEF Plane!StartTool, Plane!In
<1>2. /\ Fit(c, active[id]) /\ active[id].id = id /\ active[id] \in Everyone
  BY <1>1, ActiveFits DEF Everyone
<1>3. /\ x \in Tools /\ x.id = id /\ x.expected = active[id].generation
      /\ x.serial = active[id].serial /\ x.serial <= created /\ (c.reuse \/ x.serial = x.id)
  BY <1>2 DEF Fit, Shaped, ObservationsFit, Tools, TaskInv, SerialsPast
<1> HIDE DEF x
<1>4. Everyone' = Everyone BY <1>1 DEF Everyone
<1>5. Running' = Running \cup {x} BY <1>1 DEF Running
<1>6. \A a \in Everyone : a.serial = x.serial => a.id = x.id /\ x.expected <= a.generation
  <2>1. ASSUME NEW a \in Everyone, a.serial = x.serial
        PROVE  a.id = x.id /\ x.expected <= a.generation
    <3>1. a.id = id BY <1>2, <1>3, <2>1 DEF TaskInv, NamesAgree
    <3>2. a = active[id] BY <1>1, <1>2, <3>1 DEF Everyone, TaskInv, TasksPlaced
    <3> QED BY <1>2, <1>3, <3>1, <3>2 DEF Fit, Shaped
  <2> QED BY <2>1
<1>7. ToolsFit(c)' BY <1>1, <1>3, <1>4, <1>5, <1>6 DEF ToolsFit, TaskInv
<1>8. TaskInv(c)'
  BY <1>1, <1>4, <1>7 DEF TaskInv, TasksFit, TasksPlaced, NamesAgree, SerialsPast
<1>9. Plane(c)!FencedStep BY <1>1 DEF Plane!FencedStep
<1>10. Plane(c)!AttemptsStep BY <1>1 DEF Plane!AttemptsStep
<1> QED BY <1>8, <1>9, <1>10 DEF StepKeeps

\* TaskPlane::task finds the task a tool was started for, if it is still known.
LEMMA ToolFinds ==
    ASSUME NEW c, TaskInv(c), NEW x \in Running, NEW a \in Everyone, a.serial = x.serial
    PROVE  Plane(c)!TaskOf(x.id) = a
<1>1. a.id = x.id BY DEF TaskInv, ToolsFit
<1>2. CASE x.id \in DOMAIN active
  <2>1. a = active[x.id] BY <1>1, <1>2 DEF Everyone, TaskInv, TasksPlaced
  <2> QED BY <1>2, <2>1 DEF Plane!TaskOf
<1>3. CASE x.id \notin DOMAIN active
  <2>1. PICK k \in DOMAIN retained : a = retained[k]
    BY <1>1, <1>3 DEF Everyone, TaskInv, TasksPlaced
  <2>2. {j \in DOMAIN retained : retained[j].id = x.id} = {k}
    BY <1>1, <2>1 DEF TaskInv, TasksPlaced, Kept
  <2>3. k \in Int
    <3>1. retained \in Seq({retained[j] : j \in DOMAIN retained})
      BY DEF TaskInv, TasksPlaced, Kept
    <3> DEFINE S == {retained[j] : j \in DOMAIN retained}
    <3> HIDE DEF S
    <3>2. retained \in Seq(S) BY <3>1 DEF S
    <3> QED BY <3>2
  <2>4. Plane(c)!Max({k}) = k
    <3>1. {k} = {k, k} OBVIOUS
    <3>2. Plane(c)!Max({k, k}) \in {k, k} BY <2>3, PlaneMax
    <3> QED BY <3>1, <3>2
  <2>5. Plane(c)!TaskOf(x.id) = retained[Plane(c)!Max({j \in DOMAIN retained :
                                                            retained[j].id = x.id})]
    BY <1>3 DEF Plane!TaskOf
  <2> QED BY <2>1, <2>2, <2>4, <2>5
<1> QED BY <1>2, <1>3

\* ToolReturns: the task is read again when the tool returns.
LEMMA ReturnsKeep ==
    ASSUME NEW c, TaskInv(c), NEW x \in tools, Plane(c)!ToolReturns(x)
    PROVE  StepKeeps(c)
<1>1. /\ tools' = tools \ {x} /\ active' = active /\ retained' = retained /\ created' = created
      /\ \/ evidence' = evidence
         \/ \E r \in {"verified", "failed", "not_proven"} :
               evidence' = evidence \cup
                  {[tool |-> x, verification |-> Plane(c)!VerifyToolResult(x, r)]}
  BY DEF Plane!ToolReturns
<1>2. \A r \in {"verified", "failed", "not_proven"} :
         Plane(c)!VerifyToolResult(x, r) \in Verdicts
  BY DEF Plane!VerifyToolResult, Verdicts
<1>3. x \in Tools /\ x \in Running /\ tools \subseteq Tools /\ evidence \subseteq Evidence
  BY DEF TaskInv, ToolsFit, Running
<1>4. \A e \in evidence' : e \in evidence \/ \E r \in {"verified", "failed", "not_proven"} :
         e = [tool |-> x, verification |-> Plane(c)!VerifyToolResult(x, r)]
  BY <1>1
<1>5. evidence' \subseteq Evidence BY <1>2, <1>3, <1>4 DEF Evidence
<1>6. \A e \in evidence' : e \in evidence \/ e.tool = x BY <1>4
<1>7. Running' \subseteq Running BY <1>1, <1>3, <1>6 DEF Running
<1>8. Everyone' = Everyone BY <1>1 DEF Everyone
<1>9. ToolsFit(c)' BY <1>1, <1>3, <1>5, <1>7, <1>8 DEF ToolsFit, TaskInv
<1>10. TaskInv(c)'
  BY <1>1, <1>8, <1>9 DEF TaskInv, TasksFit, TasksPlaced, NamesAgree, SerialsPast
<1>11. ASSUME NEW e \in evidence' \ evidence,
              NEW a \in Everyone, a.serial = e.tool.serial, a.generation # e.tool.expected
       PROVE  e.verification \in {"stale", "cancelled"}
  <2>1. PICK r \in {"verified", "failed", "not_proven"} :
           e = [tool |-> x, verification |-> Plane(c)!VerifyToolResult(x, r)]
    BY <1>4, <1>11
  <2>2. e.tool = x /\ e.verification = Plane(c)!VerifyToolResult(x, r) BY <2>1
  <2>3. Plane(c)!TaskOf(x.id) = a BY <1>3, <1>11, <2>2, ToolFinds
  <2>4. a.generation # x.expected BY <1>11, <2>2
  <2>5. Plane(c)!VerifyToolResult(x, r) \in {"stale", "cancelled"}
    BY <2>3, <2>4 DEF Plane!VerifyToolResult
  <2> QED BY <2>2, <2>5
<1>12. Plane(c)!FencedStep
  <2>1. Plane(c)!AllTasks = Everyone BY DEF Plane!AllTasks, Everyone
  <2> QED BY <1>11, <2>1 DEF Plane!FencedStep
<1>13. Plane(c)!AttemptsStep BY <1>1 DEF Plane!AttemptsStep
<1> QED BY <1>10, <1>12, <1>13 DEF StepKeeps

\* RecordToolEvidence
LEMMA RecordsKeep ==
    ASSUME NEW c, Plane(c)!TaskAssumption, TaskInv(c), NEW e \in evidence,
           Plane(c)!RecordToolEvidence(e)
    PROVE  StepKeeps(c)
<1> DEFINE id == e.tool.id
           a == active[id]
           old == IF Len(a.observations) = c.observations
                  THEN Tail(a.observations) ELSE a.observations
           o == [step |-> a.step, generation |-> e.tool.expected,
                 verification |-> e.verification, serial |-> e.tool.serial]
           n == [a EXCEPT !.observations = Append(old, o)]
<1>1. /\ evidence' = evidence \ {e} /\ retained' = retained /\ tools' = tools
      /\ created' = created
      /\ \/ active' = active
         \/ /\ id \in DOMAIN active /\ a.state = "executing" /\ a.generation = e.tool.expected
            /\ active' = [active EXCEPT ![id].observations = Append(old, o)]
  BY DEF Plane!RecordToolEvidence, Plane!Takes, Plane!In
<1>2. /\ tools' \subseteq Tools /\ evidence' \subseteq Evidence /\ Running' \subseteq Running
      /\ tools \subseteq Tools /\ evidence \subseteq Evidence
      /\ e.tool \in Running /\ e.tool \in Tools /\ e.verification \in Verdicts
  BY <1>1 DEF TaskInv, ToolsFit, Running, Evidence
<1>3. Plane(c)!FencedStep BY <1>1 DEF Plane!FencedStep
<1>4. CASE active' = active
  <2>1. Everyone' = Everyone BY <1>1, <1>4 DEF Everyone
  <2>2. TasksFit(c)' /\ TasksPlaced'
    BY <1>1, <1>4, <2>1 DEF TaskInv, TasksFit, TasksPlaced
  <2>3. \A b \in Everyone : b.generation <= b.generation BY DEF TaskInv, TasksFit, Fit, Shaped
  <2>4. TaskInv(c)' BY <1>1, <1>2, <2>1, <2>2, <2>3, InvDescends
  <2>5. Plane(c)!AttemptsStep BY <1>4 DEF Plane!AttemptsStep
  <2> QED BY <1>3, <2>4, <2>5 DEF StepKeeps
<1>5. CASE /\ id \in DOMAIN active /\ a.state = "executing" /\ a.generation = e.tool.expected
           /\ active' = [active EXCEPT ![id].observations = Append(old, o)]
  <2>1. Fit(c, a) /\ a.id = id /\ a \in Everyone BY <1>5, ActiveFits DEF Everyone
  <2>2. /\ DOMAIN active' = DOMAIN active /\ active'[id] = n
        /\ \A i \in DOMAIN active : i # id => active'[i] = active[i]
    BY <1>5
  <2>3. e.tool.serial \in Nat /\ e.tool.id \in Nat BY <1>2 DEF Tools
  <2>4. c.reuse \/ e.tool.serial = a.serial
    BY <1>2, <2>1 DEF TaskInv, ToolsFit, Fit, ObservationsFit
  <2>5. old = a.observations \/ (a.observations # <<>> /\ old = Tail(a.observations))
    <3>1. a.observations \in Seq(Observations) BY <2>1 DEF Fit, ObservationsFit
    <3>2. c.observations \in Nat /\ c.observations # 0 BY DEF Plane!TaskAssumption
    <3>3. Len(a.observations) = c.observations => a.observations # <<>> BY <3>1, <3>2
    <3> QED BY <3>3
  <2>6. o = [step |-> a.step, generation |-> a.generation, verification |-> e.verification,
             serial |-> e.tool.serial]
    BY <1>5
  <2>7. Succeeds(c, a, n)
    <3> DEFINE v == e.verification
               s == e.tool.serial
    <3>1. v \in Verdicts /\ s \in Nat /\ (c.reuse \/ s = a.serial) BY <1>2, <2>3, <2>4
    <3> HIDE DEF a, old, v, s
    <3>2. Succeeds(c, a, [a EXCEPT !.observations =
              Append(old, [step |-> a.step, generation |-> a.generation, verification |-> v,
                           serial |-> s])])
      BY <1>5, <2>1, <2>5, <3>1, RecordSucceeds
    <3> QED BY <2>6, <3>2 DEF v, s
  <2>8. n.state = "executing"
    BY <1>5, <2>1 DEF Fit, Shaped, Fields
  <2> HIDE DEF n
  <2>9. \A b \in Everyone' : b = n \/ b \in Everyone
    BY <1>1, <2>2 DEF Everyone
  <2>10. TasksFit(c)' BY <2>7, <2>9 DEF TaskInv, TasksFit, Succeeds
  <2>11. TasksPlaced'
    <3>1. \A i \in DOMAIN active' :
             i \in Nat /\ active'[i].id = i /\ active'[i].state \notin Over
      BY <2>1, <2>2, <2>3, <2>7, <2>8 DEF TaskInv, TasksPlaced, Succeeds, Over
    <3> QED BY <1>1, <2>2, <3>1 DEF TaskInv, TasksPlaced
  <2>12. \A b \in Everyone' : \E d \in Everyone :
            b.id = d.id /\ b.serial = d.serial /\ d.generation <= b.generation
    <3>1. \A d \in Everyone : d.generation <= d.generation BY DEF TaskInv, TasksFit, Fit, Shaped
    <3> QED BY <2>1, <2>7, <2>9, <3>1 DEF Succeeds
  <2>13. TaskInv(c)' BY <1>1, <1>2, <2>10, <2>11, <2>12, InvDescends
  <2>14. Plane(c)!AttemptsStep
    <3>1. \A i \in DOMAIN active' : active'[i].state = "executing" => active[i].state = "executing"
      BY <1>5, <2>2
    <3> QED BY <3>1 DEF Plane!AttemptsStep
  <2> QED BY <1>3, <2>13, <2>14 DEF StepKeeps
<1> QED BY <1>1, <1>4, <1>5

\* Every step of the plane.
LEMMA PlaneKeeps ==
    ASSUME NEW c, Plane(c)!TaskAssumption, TaskInv(c), Plane(c)!Next
    PROVE  StepKeeps(c)
<1>1. CASE \E id \in c.tasks, t \in c.times : Plane(c)!CreateTask(id, t)
  BY <1>1, CreationKeeps
<1>2. CASE \E id \in c.tasks, t \in c.times :
           \/ Plane(c)!BeginPlanning(id, t) \/ Plane(c)!MarkReady(id, t)
           \/ Plane(c)!WaitFor(id, t) \/ Plane(c)!Resume(id, t)
           \/ \E k \in 1..c.steps : Plane(c)!BeginExecution(id, k, t)
           \/ Plane(c)!FinishStep(id, t) \/ Plane(c)!RetryCurrentStep(id, t)
           \/ Plane(c)!Replan(id, t) \/ Plane(c)!Cancel(id, t)
           \/ \E out \in {"completed", "failed", "cancelled", "not_verified"} :
                 \E g : Plane(c)!CommitVerification(id, g, out, t)
  BY <1>2, TransitionsKeep
<1>3. CASE \E id \in c.tasks : Plane(c)!AddStep(id)
  <2>1. PICK id \in c.tasks : Plane(c)!AddStep(id) BY <1>3
  <2> QED BY <2>1, AddingKeeps
<1>4. CASE \E id \in c.tasks : Plane(c)!StartTool(id) BY <1>4, StartsKeep
<1>5. CASE \E t \in c.times : Plane(c)!Expire(t) BY <1>5, ExpiryKeeps
<1>6. CASE \E x \in tools : Plane(c)!ToolReturns(x) BY <1>6, ReturnsKeep
<1>7. CASE \E e \in evidence : Plane(c)!RecordToolEvidence(e) BY <1>7, RecordsKeep
<1> QED BY <1>1, <1>2, <1>3, <1>4, <1>5, <1>6, <1>7 DEF Plane!Next

\* A task that is over by t is at its end after expire_if_needed.
LEMMA ExpiredEnds ==
    ASSUME NEW c, Plane(c)!TaskAssumption, TaskInv(c), NEW t \in c.times, NEW id \in DOMAIN active
    PROVE  \/ Plane(c)!Expired(active[id], t).state \in Plane(c)!Terminal
           \/ ~Plane(c)!OverBy(Plane(c)!Expired(active[id], t), t)
<1> DEFINE a == active[id]
           n == Plane(c)!Expired(a, t)
<1>1. Fit(c, a) BY ActiveFits
<1>2. t \in Nat BY DEF Plane!TaskAssumption
<1> HIDE DEF a
<1>3. CASE t >= a.expires
  <2>1. n = [a EXCEPT !.state = "expired", !.generation = @ + 1, !.updated = t]
    BY <1>3 DEF Plane!Expired
  <2>2. n.state = "expired"
    <3> HIDE DEF n
    <3> QED BY <2>1, <1>1 DEF Fit, Shaped, Fields
  <2> QED BY <2>2 DEF Plane!Terminal, a
<1>4. CASE ~(t >= a.expires) /\ a.state = "waiting" /\ t >= a.waits
  <2>1. n = [a EXCEPT !.state = "not_verified", !.generation = @ + 1, !.updated = t]
    BY <1>4 DEF Plane!Expired, Plane!CommitmentOver
  <2>2. n.state = "not_verified"
    <3> HIDE DEF n
    <3> QED BY <2>1, <1>1 DEF Fit, Shaped, Fields
  <2> QED BY <2>2 DEF Plane!Terminal, a
<1>5. CASE ~(t >= a.expires) /\ ~(a.state = "waiting" /\ t >= a.waits)
  <2>1. n = a BY <1>5 DEF Plane!Expired, Plane!CommitmentOver
  <2>2. ~Plane(c)!OverBy(a, t) BY <1>5 DEF Plane!OverBy
  <2> HIDE DEF n
  <2>3. ~Plane(c)!OverBy(n, t) BY <2>1, <2>2
  <2> QED BY <2>3 DEF a, n
<1> QED BY <1>3, <1>4, <1>5

\* What expire would do at any time settles every task before the first one whose
\* own time is ahead.
LEMMA ExpirySettles ==
    ASSUME NEW c, Plane(c)!TaskAssumption, TaskInv(c)
    PROVE  Plane(c)!ExpireSettles
<1>1. ASSUME NEW t \in c.times, NEW id \in DOMAIN active, ~Plane(c)!Ahead(id, t)
      PROVE  /\ id \in DOMAIN Plane(c)!Expirations(t)
             /\ Plane(c)!Expirations(t)[id] = Plane(c)!Expired(active[id], t)
  <2>1. \A b \in DOMAIN active : active[b].updated > t => id < b
    <3>1. DOMAIN active \subseteq Nat BY DEF TaskInv, TasksPlaced
    <3> QED BY <3>1, <1>1 DEF Plane!Ahead
  <2> QED BY <2>1 DEF Plane!Expirations, Plane!Walked
<1>2. ASSUME NEW t \in c.times, NEW id \in DOMAIN active, ~Plane(c)!Ahead(id, t)
      PROVE  /\ id \in DOMAIN Plane(c)!Expirations(t)
             /\ \/ Plane(c)!Expirations(t)[id].state \in Plane(c)!Terminal
                \/ ~Plane(c)!OverBy(Plane(c)!Expirations(t)[id], t)
  BY <1>1, <1>2, ExpiredEnds
<1> QED BY <1>2 DEF Plane!ExpireSettles

\* Nor is any of them active once the call has returned.
LEMMA ExpiryEnds ==
    ASSUME NEW c, Plane(c)!TaskAssumption, TaskInv(c)
    PROVE  Plane(c)!ExpireStep
<1>1. ASSUME NEW t \in c.times, Plane(c)!Expire(t), NEW id \in DOMAIN active',
             ~Plane(c)!Ahead(id, t)
      PROVE  ~Plane(c)!OverBy(active'[id], t)
  <2> DEFINE changed == Plane(c)!Expirations(t)
  <2>1. Plane(c)!AcceptAll(changed) BY <1>1 DEF Plane!Expire
  <2>2. DOMAIN changed \subseteq DOMAIN active BY DEF Plane!Expirations, Plane!Walked
  <2>3. id \in DOMAIN active
    <3> HIDE DEF changed
    <3> QED BY <1>1, <2>1, <2>2 DEF Plane!AcceptAll
  <2>4. /\ id \in DOMAIN changed
        /\ changed[id].state \in Plane(c)!Terminal \/ ~Plane(c)!OverBy(changed[id], t)
    BY <1>1, <2>3, ExpirySettles DEF Plane!ExpireSettles
  <2> HIDE DEF changed
  <2>5. active'[id] = changed[id] /\ changed[id].state \notin Plane(c)!Terminal
    BY <1>1, <2>1, <2>4 DEF Plane!AcceptAll
  <2> QED BY <2>4, <2>5
<1> QED BY <1>1 DEF Plane!ExpireStep

\* TaskPlane::new
LEMMA TaskInvInit == ASSUME NEW c, Plane(c)!Init PROVE TaskInv(c)
<1>1. /\ DOMAIN active = {} /\ retained = <<>> /\ tools = {} /\ evidence = {} /\ created = 0
  BY DEF Plane!Init
<1>2. Everyone = {} BY <1>1 DEF Everyone
<1>3. Running = {} BY <1>1 DEF Running
<1>4. Kept(retained) BY <1>1 DEF Kept
<1>5. IsFiniteSet(DOMAIN active) BY <1>1, FS_EmptySet
<1> QED BY <1>1, <1>2, <1>3, <1>4, <1>5
    DEF TaskInv, TasksFit, TasksPlaced, NamesAgree, SerialsPast, ToolsFit

\* What the invariant says of the properties.
LEMMA TaskInvSays ==
    ASSUME NEW c, TaskInv(c)
    PROVE  /\ Plane(c)!OneTaskPerId /\ Plane(c)!StepsMatchState
           /\ c.reuse \/ Plane(c)!EvidenceCurrent
<1>1. Plane(c)!AllTasks = Everyone BY DEF Plane!AllTasks, Everyone
<1>2. Plane(c)!OneTaskPerId BY <1>1 DEF Plane!OneTaskPerId, TaskInv, NamesAgree
<1>3. Plane(c)!StepsMatchState
  BY <1>1 DEF Plane!StepsMatchState, TaskInv, TasksFit, Fit, StepsFit
<1>4. c.reuse \/ Plane(c)!EvidenceCurrent
  BY <1>1 DEF Plane!EvidenceCurrent, TaskInv, TasksFit, Fit, ObservationsFit
<1> QED BY <1>2, <1>3, <1>4

\* Of the part that moves.
TasksHold == part = "tasks" => \A c \in TaskLimits : c = limits => TaskInv(c)

\* At the start.
LEMMA TasksHoldInit == Init => TasksHold
<1> SUFFICES ASSUME Init, part = "tasks", NEW c \in TaskLimits, c = limits PROVE TaskInv(c)
  BY DEF TasksHold
<1>1. PICK d \in TaskLimits : Plane(d)!Init /\ (part = "tasks" => limits = d) BY DEF Init
<1> QED BY <1>1, TaskInvInit

\* While another part moves.
LEMMA TasksHoldKept == TasksHold /\ UNCHANGED <<part, limits, taskVars>> => TasksHold'
<1> SUFFICES ASSUME TasksHold, UNCHANGED <<part, limits, taskVars>> PROVE TasksHold' OBVIOUS
<1>1. /\ part' = part /\ limits' = limits /\ active' = active /\ retained' = retained
      /\ tools' = tools /\ evidence' = evidence /\ created' = created
  BY DEF taskVars
<1>2. Everyone' = Everyone /\ Running' = Running BY <1>1 DEF Everyone, Running
<1> QED BY <1>1, <1>2
    DEF TasksHold, TaskInv, TasksFit, TasksPlaced, NamesAgree, SerialsPast, ToolsFit

\* A step of the part.
LEMMA TasksStep ==
    ASSUME TasksHold, Next, part = "tasks", NEW c \in TaskLimits, c = limits
    PROVE  StepKeeps(c) /\ Plane(c)!ExpireStep
<1>1. PICK d \in TaskLimits : d = limits /\ Plane(d)!Next BY DEF Next
<1>2. TaskInv(d) /\ Plane(d)!TaskAssumption BY <1>1, TaskAssumption DEF TasksHold
<1>3. StepKeeps(d) /\ Plane(d)!ExpireStep BY <1>1, <1>2, PlaneKeeps, ExpiryEnds
<1> QED BY <1>1, <1>3

\* The invariant over a step.
LEMMA TasksHoldStep == TasksHold /\ Next => TasksHold'
<1> SUFFICES ASSUME TasksHold, Next, part' = "tasks", NEW c \in TaskLimits, c = limits'
             PROVE  TaskInv(c)'
  BY DEF TasksHold
<1>1. part = "tasks" /\ c = limits BY DEF Next
<1> QED BY <1>1, TasksStep DEF StepKeeps

\* Evidence is of the plan it is attached to, steps fit the state, an id names
\* one task, and expire settles what it walks past, for every value of the limits
\* (task.rs, task_plane.rs).
THEOREM TasksAreSound == Spec => []TasksSound
<1>1. TasksHold => TasksSound
  <2> SUFFICES ASSUME TasksHold, part = "tasks", NEW c \in TaskLimits, c = limits
               PROVE  /\ Plane(c)!OneTaskPerId /\ Plane(c)!StepsMatchState
                      /\ Plane(c)!ExpireSettles
                      /\ c.reuse \/ Plane(c)!EvidenceCurrent
    BY DEF TasksSound
  <2>1. TaskInv(c) BY DEF TasksHold
  <2>2. Plane(c)!TaskAssumption BY TaskAssumption
  <2> QED BY <2>1, <2>2, TaskInvSays, ExpirySettles
<1>2. TasksHold /\ [Next]_<<part, limits, playbackVars, taskVars, reflexVars>>
         => TasksHold'
  BY TasksHoldStep, TasksHoldKept
<1> QED BY <1>1, <1>2, TasksHoldInit, PTL DEF Spec

\* A tool that returns for an attempt that was left is stale, attempts do not
\* share a generation, and after expire nothing is active that was over, for
\* every value of the limits (tool_execution.rs, task.rs, task_plane.rs).
THEOREM ToolsAreFenced == Spec => ToolsFenced
<1>1. TasksHold /\ [Next]_<<part, limits, playbackVars, taskVars, reflexVars>>
         => TasksHold'
  BY TasksHoldStep, TasksHoldKept
<1>2. TasksHold /\ [Next]_<<part, limits, playbackVars, taskVars, reflexVars>> =>
         [part = "tasks" => \A c \in TaskLimits : c = limits =>
             Plane(c)!FencedStep /\ Plane(c)!AttemptsStep /\ Plane(c)!ExpireStep]_<<part, taskVars>>
  BY TasksStep DEF StepKeeps
<1> QED BY <1>1, <1>2, TasksHoldInit, PTL DEF Spec, ToolsFenced
----------------------------------------------------------------------------
(* The reflex call                                                         *)

Retryable == {429, 529}
Posts == [at : Nat, status : Nat]
Calling == {"start", "check", "post", "posted", "received", "sleep", "parsed"}

\* The numbers of a call.
CallNumbers(c) ==
    /\ clock \in Nat /\ until \in Nat /\ naps \in Nat
    /\ attempts \in Nat /\ attempts <= c.attempts
    /\ status \in Nat /\ late \in Nat /\ token \in BOOLEAN
    /\ request.backoff \in Nat /\ request.budget \in Nat
    /\ pc \in Calling \cup {"returned", "wake", "done"}

\* Every attempt was posted, those before the last were refused for now, and
\* each was followed by its pause.
PostsSpaced(c) ==
    /\ posts \in Seq(Posts) /\ Len(posts) = attempts
    /\ \A i \in 1 .. attempts : posts[i].at <= clock
    /\ \A i \in 1 .. attempts - 1 :
          /\ posts[i].status \in Retryable
          /\ posts[i + 1].at >= posts[i].at + Call(c)!Pause(i)

\* Where another post may follow, attempts are left, the last one was refused
\* for now, and its pause is over or has begun.
AnotherEarned(c) ==
    /\ pc = "start" => attempts = 0 /\ status = 0
    /\ pc \in {"check", "post", "sleep"} =>
          /\ attempts < c.attempts
          /\ attempts > 0 => posts[attempts].status \in Retryable
    /\ pc \in {"check", "post"} =>
          (attempts > 0 => clock >= posts[attempts].at + Call(c)!Pause(attempts))
    /\ pc = "sleep" => attempts > 0 /\ naps >= posts[attempts].at + Call(c)!Pause(attempts)
    /\ pc \in {"posted", "received"} => attempts > 0
    /\ pc = "received" => posts[attempts].status = status

\* A post of a dropped future was being started when it was dropped.
LateOnce == late <= 1 /\ (late = 1 => token /\ pc \notin {"start", "post"})

\* What a call returned, and what became of it.
ResultEarned(c) ==
    /\ pc \in Calling => result.kind = "none" /\ executed = Call(c)!Refused
    /\ result.kind = "ok" =>
          /\ result.at < until
          /\ Call(c)!Normalized(result.answer, Call(c)!Offered)
          /\ result.pick = IF Call(c)!Offered # {} THEN result.answer.pick ELSE "none"
    /\ executed # Call(c)!Refused => executed = Call(c)!Policy(result)
    /\ Call(c)!AskedIsEnough

CallInv(c) ==
    /\ CallNumbers(c) /\ PostsSpaced(c) /\ AnotherEarned(c) /\ LateOnce /\ ResultEarned(c)

\* backoff_for: the shifts of a pause.
LEMMA ShiftsAreNumbers == \A k \in 0 .. 16 : 2 ^ k \in Nat
<1> SUFFICES ASSUME NEW k \in 0 .. 16 PROVE 2 ^ k \in Nat OBVIOUS
<1>1. CASE k = 0
  <2>1. 2 ^ 0 = 1 OBVIOUS
  <2>2. 1 \in Nat OBVIOUS
  <2>3. 2 ^ k = 2 ^ 0 BY <1>1
  <2> QED BY <2>1, <2>2, <2>3
<1>2. CASE k = 1
  <2>1. 2 ^ 1 = 2 OBVIOUS
  <2>2. 2 \in Nat OBVIOUS
  <2>3. 2 ^ k = 2 ^ 1 BY <1>2
  <2> QED BY <2>1, <2>2, <2>3
<1>3. CASE k = 2
  <2>1. 2 ^ 2 = 4 OBVIOUS
  <2>2. 4 \in Nat OBVIOUS
  <2>3. 2 ^ k = 2 ^ 2 BY <1>3
  <2> QED BY <2>1, <2>2, <2>3
<1>4. CASE k = 3
  <2>1. 2 ^ 3 = 8 OBVIOUS
  <2>2. 8 \in Nat OBVIOUS
  <2>3. 2 ^ k = 2 ^ 3 BY <1>4
  <2> QED BY <2>1, <2>2, <2>3
<1>5. CASE k = 4
  <2>1. 2 ^ 4 = 16 OBVIOUS
  <2>2. 16 \in Nat OBVIOUS
  <2>3. 2 ^ k = 2 ^ 4 BY <1>5
  <2> QED BY <2>1, <2>2, <2>3
<1>6. CASE k = 5
  <2>1. 2 ^ 5 = 32 OBVIOUS
  <2>2. 32 \in Nat OBVIOUS
  <2>3. 2 ^ k = 2 ^ 5 BY <1>6
  <2> QED BY <2>1, <2>2, <2>3
<1>7. CASE k = 6
  <2>1. 2 ^ 6 = 64 OBVIOUS
  <2>2. 64 \in Nat OBVIOUS
  <2>3. 2 ^ k = 2 ^ 6 BY <1>7
  <2> QED BY <2>1, <2>2, <2>3
<1>8. CASE k = 7
  <2>1. 2 ^ 7 = 128 OBVIOUS
  <2>2. 128 \in Nat OBVIOUS
  <2>3. 2 ^ k = 2 ^ 7 BY <1>8
  <2> QED BY <2>1, <2>2, <2>3
<1>9. CASE k = 8
  <2>1. 2 ^ 8 = 256 OBVIOUS
  <2>2. 256 \in Nat OBVIOUS
  <2>3. 2 ^ k = 2 ^ 8 BY <1>9
  <2> QED BY <2>1, <2>2, <2>3
<1>10. CASE k = 9
  <2>1. 2 ^ 9 = 512 OBVIOUS
  <2>2. 512 \in Nat OBVIOUS
  <2>3. 2 ^ k = 2 ^ 9 BY <1>10
  <2> QED BY <2>1, <2>2, <2>3
<1>11. CASE k = 10
  <2>1. 2 ^ 10 = 1024 OBVIOUS
  <2>2. 1024 \in Nat OBVIOUS
  <2>3. 2 ^ k = 2 ^ 10 BY <1>11
  <2> QED BY <2>1, <2>2, <2>3
<1>12. CASE k = 11
  <2>1. 2 ^ 11 = 2048 OBVIOUS
  <2>2. 2048 \in Nat OBVIOUS
  <2>3. 2 ^ k = 2 ^ 11 BY <1>12
  <2> QED BY <2>1, <2>2, <2>3
<1>13. CASE k = 12
  <2>1. 2 ^ 12 = 4096 OBVIOUS
  <2>2. 4096 \in Nat OBVIOUS
  <2>3. 2 ^ k = 2 ^ 12 BY <1>13
  <2> QED BY <2>1, <2>2, <2>3
<1>14. CASE k = 13
  <2>1. 2 ^ 13 = 8192 OBVIOUS
  <2>2. 8192 \in Nat OBVIOUS
  <2>3. 2 ^ k = 2 ^ 13 BY <1>14
  <2> QED BY <2>1, <2>2, <2>3
<1>15. CASE k = 14
  <2>1. 2 ^ 14 = 16384 OBVIOUS
  <2>2. 16384 \in Nat OBVIOUS
  <2>3. 2 ^ k = 2 ^ 14 BY <1>15
  <2> QED BY <2>1, <2>2, <2>3
<1>16. CASE k = 15
  <2>1. 2 ^ 15 = 32768 OBVIOUS
  <2>2. 32768 \in Nat OBVIOUS
  <2>3. 2 ^ k = 2 ^ 15 BY <1>16
  <2> QED BY <2>1, <2>2, <2>3
<1>17. CASE k = 16
  <2>1. 2 ^ 16 = 65536 OBVIOUS
  <2>2. 65536 \in Nat OBVIOUS
  <2>3. 2 ^ k = 2 ^ 16 BY <1>17
  <2> QED BY <2>1, <2>2, <2>3
<1> QED BY <1>1, <1>2, <1>3, <1>4, <1>5, <1>6, <1>7, <1>8, <1>9, <1>10, <1>11, <1>12,
           <1>13, <1>14, <1>15, <1>16, <1>17

\* A pause is a length of time.
LEMMA PauseIsNat ==
    ASSUME NEW c, request.backoff \in Nat, NEW i \in Nat, i > 0
    PROVE  Call(c)!Pause(i) \in Nat
<1> DEFINE k == IF i - 1 < 16 THEN i - 1 ELSE 16
<1>1. k \in 0 .. 16 OBVIOUS
<1>2. 2 ^ k \in Nat BY <1>1, ShiftsAreNumbers
<1>3. Call(c)!Pause(i) = request.backoff * 2 ^ k BY DEF Call!Pause
<1> HIDE DEF k
<1>4. \A p \in Nat : request.backoff * p \in Nat OBVIOUS
<1> QED BY <1>2, <1>3, <1>4

\* An attempt that was posted.
LEMMA PostsAre ==
    ASSUME NEW c, PostsSpaced(c), attempts \in Nat, NEW i \in 1 .. attempts
    PROVE  i \in DOMAIN posts /\ posts[i] \in Posts /\ posts[i].at \in Nat
<1>1. posts \in Seq(Posts) /\ i \in 1 .. Len(posts) BY DEF PostsSpaced
<1>2. i \in DOMAIN posts /\ posts[i] \in Posts BY <1>1
<1> QED BY <1>2 DEF Posts

\* What a step that posts nothing keeps of the posts.
LEMMA PostsStay ==
    ASSUME NEW c, PostsSpaced(c), CallNumbers(c),
           UNCHANGED <<request, attempts, posts>>, clock' \in Nat, clock <= clock'
    PROVE  PostsSpaced(c)'
<1>1. \A i \in Nat : Call(c)!Pause(i)' = Call(c)!Pause(i) BY DEF Call!Pause
<1>2. \A i \in 1 .. attempts : posts[i].at \in Nat BY PostsAre DEF CallNumbers
<1> QED BY <1>1, <1>2 DEF PostsSpaced, CallNumbers

\* What was offered is what was asked for, and what was read of it stays.
LEMMA OfferedStays ==
    ASSUME NEW c, UNCHANGED request
    PROVE  /\ Call(c)!Offered' = Call(c)!Offered
           /\ \A i \in Nat : Call(c)!Pause(i)' = Call(c)!Pause(i)
BY DEF Call!Offered, Call!Pause

\* What a call returned is what it was.
LEMMA ResultStays ==
    ASSUME NEW c, ResultEarned(c),
           UNCHANGED <<request, status, answer, result, executed>>,
           until' = until \/ result.kind # "ok",
           pc' \in Calling => pc \in Calling
    PROVE  ResultEarned(c)'
<1>1. Call(c)!Offered' = Call(c)!Offered BY OfferedStays
<1>2. pc' \in Calling => result'.kind = "none" /\ executed' = Call(c)!Refused'
  BY DEF ResultEarned, Call!Refused
<1>3. result'.kind = "ok" =>
          /\ result'.at < until'
          /\ Call(c)!Normalized(result'.answer, Call(c)!Offered')
          /\ result'.pick = IF Call(c)!Offered' # {} THEN result'.answer.pick ELSE "none"
  BY <1>1 DEF ResultEarned
<1>4. executed' # Call(c)!Refused => executed' = Call(c)!Policy(result')
  BY DEF ResultEarned
<1>5. Call(c)!AskedIsEnough'
  BY <1>1 DEF ResultEarned, Call!AskedIsEnough, Call!Questions, Call!Routes
<1> QED BY <1>2, <1>3, <1>4, <1>5 DEF ResultEarned, Call!Normalized, Call!Questions, Call!Routes,
    Call!Policy, Call!Refused

\* A step that neither posts nor returns.
LEMMA StepStays ==
    ASSUME NEW c, CallInv(c),
           UNCHANGED <<request, attempts, status, answer, result, executed, posts, late>>,
           until' \in Nat, until' = until \/ result.kind # "ok",
           clock' \in Nat, clock <= clock', naps' \in Nat,
           token' \in BOOLEAN, token => token',
           pc' \in Calling \cup {"returned", "wake", "done"},
           pc' \in Calling => pc \in Calling,
           late = 1 => pc' \notin {"start", "post"},
           AnotherEarned(c)'
    PROVE  CallInv(c)'
<1>1. CallNumbers(c)' BY DEF CallInv, CallNumbers
<1>2. PostsSpaced(c)' BY PostsStay DEF CallInv
<1>3. LateOnce' BY DEF CallInv, LateOnce
<1>4. ResultEarned(c)' BY ResultStays DEF CallInv
<1> QED BY <1>1, <1>2, <1>3, <1>4 DEF CallInv

\* A call that returns.
LEMMA ReturnEarns ==
    ASSUME NEW c, CallInv(c), pc \in Calling, NEW kind \in Call(c)!Engine \cup {"ok"},
           Call(c)!Return(kind),
           UNCHANGED <<clock, request, attempts, status, answer, token, executed, posts, late>>,
           until' \in Nat, naps' \in Nat,
           kind = "ok" => clock < until' /\ Call(c)!Normalized(answer, Call(c)!Offered),
           kind = "invalid_request" =>
              status # 200 \/ ~Call(c)!Normalized(answer, Call(c)!Offered)
    PROVE  CallInv(c)'
<1>1. /\ pc' = "returned" /\ result'.kind = kind /\ result'.at = clock
      /\ result'.answer = answer
      /\ result'.pick = IF kind = "ok" /\ Call(c)!Offered # {} THEN answer.pick ELSE "none"
  BY DEF Call!Return
<1>2. CallNumbers(c)' BY <1>1 DEF CallInv, CallNumbers
<1>3. PostsSpaced(c)' BY <1>2, PostsStay DEF CallInv, CallNumbers
<1>4. AnotherEarned(c)' BY <1>1 DEF AnotherEarned
<1>5. LateOnce' BY <1>1 DEF CallInv, LateOnce
<1>6. Call(c)!Offered' = Call(c)!Offered BY OfferedStays
<1>7. ResultEarned(c)'
  <2>1. pc' \notin Calling BY <1>1 DEF Calling
  <2>2. result'.kind = "ok" =>
          /\ result'.at < until'
          /\ Call(c)!Normalized(result'.answer, Call(c)!Offered')
          /\ result'.pick = IF Call(c)!Offered' # {} THEN result'.answer.pick ELSE "none"
    BY <1>1, <1>6
  <2>3. executed' = Call(c)!Refused BY DEF CallInv, ResultEarned
  <2>4. Call(c)!AskedIsEnough'
    BY <1>1, <1>6 DEF Call!AskedIsEnough, Call!Normalized, Call!Questions, Call!Routes
  <2> QED BY <2>1, <2>2, <2>3, <2>4 DEF ResultEarned, Call!Normalized, Call!Questions,
      Call!Routes, Call!Refused
<1> QED BY <1>2, <1>3, <1>4, <1>5, <1>7 DEF CallInv

\* Start
LEMMA StartKeeps ==
    ASSUME NEW c, Call(c)!ConfigAssumption, CallInv(c), Call(c)!Start PROVE CallInv(c)'
<1> DEFINE budget == IF request.caller = "pipeline" /\ request.budget < c.deadline
                     THEN request.budget ELSE c.deadline
<1>1. /\ pc = "start" /\ until' = clock + budget
      /\ UNCHANGED <<clock, request, attempts, status, answer, naps, token, executed, posts, late>>
  BY DEF Call!Start, Call!owner
<1>2. \/ Call(c)!Return("timeout") \/ Call(c)!Return("invalid_request")
      \/ pc' = "check" /\ UNCHANGED result
  BY DEF Call!Start
<1>3. budget \in Nat BY DEF Call!ConfigAssumption, CallInv, CallNumbers
<1> HIDE DEF budget
<1>4. /\ clock \in Nat /\ until' \in Nat /\ naps \in Nat /\ pc \in Calling /\ attempts = 0
      /\ status = 0 /\ token \in BOOLEAN /\ c.attempts \in Nat \ {0}
      /\ result.kind = "none" /\ (late = 1 => pc # "start")
  BY <1>1, <1>3 DEF CallInv, CallNumbers, Calling, AnotherEarned, ResultEarned, LateOnce,
     Call!ConfigAssumption
<1>5. CASE Call(c)!Return("timeout") BY <1>1, <1>4, <1>5, ReturnEarns DEF Call!Engine
<1>6. CASE Call(c)!Return("invalid_request") BY <1>1, <1>4, <1>6, ReturnEarns DEF Call!Engine
<1>7. CASE pc' = "check" /\ UNCHANGED result
  <2>1. AnotherEarned(c)' BY <1>1, <1>4, <1>7 DEF AnotherEarned
  <2> QED BY <1>1, <1>4, <1>7, <2>1, StepStays DEF Calling
<1> QED BY <1>2, <1>5, <1>6, <1>7

\* Check
LEMMA CheckKeeps == ASSUME NEW c, CallInv(c), Call(c)!Check PROVE CallInv(c)'
<1>1. /\ pc = "check"
      /\ UNCHANGED <<clock, request, until, attempts, status, answer, naps, token, executed, posts,
                     late>>
      /\ \/ Call(c)!Return("timeout")
         \/ ~token /\ pc' = "post" /\ UNCHANGED result
  BY DEF Call!Check, Call!owner, Call!call
<1>2. /\ clock \in Nat /\ until \in Nat /\ naps \in Nat /\ pc \in Calling /\ token \in BOOLEAN
      /\ (late = 1 => token)
  BY <1>1 DEF CallInv, CallNumbers, Calling, LateOnce
<1>3. CASE Call(c)!Return("timeout") BY <1>1, <1>2, <1>3, ReturnEarns DEF Call!Engine
<1>4. CASE ~token /\ pc' = "post" /\ UNCHANGED result
  <2>1. Call(c)!Pause(attempts)' = Call(c)!Pause(attempts) BY <1>1 DEF Call!Pause
  <2>2. AnotherEarned(c)' BY <1>1, <1>4, <2>1 DEF AnotherEarned, CallInv
  <2> QED BY <1>1, <1>2, <1>4, <2>2, StepStays DEF Calling
<1> QED BY <1>1, <1>3, <1>4

\* Post
LEMMA PostKeeps ==
    ASSUME NEW c, Call(c)!ConfigAssumption, CallInv(c), Call(c)!Post PROVE CallInv(c)'
<1>1. /\ pc = "post" /\ attempts' = attempts + 1 /\ pc' = "posted"
      /\ posts' = Append(posts, [at |-> clock, status |-> 0])
      /\ late' = IF token THEN late + 1 ELSE late
      /\ UNCHANGED <<clock, request, until, status, answer, naps, token, result, executed>>
  BY DEF Call!Post, Call!owner, Call!call
<1>2. /\ CallNumbers(c) /\ PostsSpaced(c) /\ AnotherEarned(c) /\ LateOnce /\ ResultEarned(c)
  BY DEF CallInv
<1>3. /\ attempts \in Nat /\ attempts < c.attempts /\ late \in Nat /\ token \in BOOLEAN
      /\ late = 0 /\ clock \in Nat /\ pc \in Calling
  BY <1>1, <1>2 DEF CallNumbers, AnotherEarned, LateOnce, Calling
<1>4. CallNumbers(c)'
  <2>1. attempts' \in Nat /\ attempts' <= c.attempts /\ late' \in Nat
    <3>1. c.attempts \in Nat BY DEF Call!ConfigAssumption
    <3> QED BY <1>1, <1>3, <3>1
  <2> QED BY <1>1, <1>2, <2>1 DEF CallNumbers, Calling
<1>5. PostsSpaced(c)'
  <2>1. posts \in Seq(Posts) /\ Len(posts) = attempts /\ [at |-> clock, status |-> 0] \in Posts
    BY <1>2, <1>3 DEF PostsSpaced, Posts
  <2>2. /\ posts' \in Seq(Posts) /\ Len(posts') = attempts + 1
        /\ posts'[attempts + 1] = [at |-> clock, status |-> 0]
        /\ \A i \in 1 .. attempts : posts'[i] = posts[i]
    BY <1>1, <1>3, <2>1
  <2>3. posts'[attempts + 1].at = clock BY <2>2
  <2>4. \A i \in Nat : Call(c)!Pause(i)' = Call(c)!Pause(i) BY <1>1, OfferedStays
  <2>5. \A i \in 1 .. attempts' : posts'[i].at <= clock'
    BY <1>1, <1>2, <1>3, <2>2, <2>3 DEF PostsSpaced
  <2>6. ASSUME NEW i \in 1 .. attempts' - 1
        PROVE  /\ posts'[i].status \in Retryable
               /\ posts'[i + 1].at >= posts'[i].at + Call(c)!Pause(i)'
    <3>1. i \in 1 .. attempts /\ i \in Nat BY <1>1, <1>3
    <3>2. CASE i = attempts
      <4>1. attempts > 0 BY <3>1, <3>2
      <4>2. posts[attempts].status \in Retryable
            /\ clock >= posts[attempts].at + Call(c)!Pause(attempts)
        BY <1>1, <1>2, <4>1 DEF AnotherEarned
      <4> QED BY <3>1, <3>2, <4>2, <2>2, <2>3, <2>4
    <3>3. CASE i # attempts
      <4>1. i \in 1 .. attempts - 1 /\ i + 1 \in 1 .. attempts BY <1>3, <3>1, <3>3
      <4>2. posts[i].status \in Retryable /\ posts[i + 1].at >= posts[i].at + Call(c)!Pause(i)
        BY <1>2, <4>1 DEF PostsSpaced
      <4>3. posts'[i] = posts[i] /\ posts'[i + 1] = posts[i + 1] BY <2>2, <3>1, <4>1
      <4> QED BY <3>1, <4>2, <4>3, <2>4
    <3> QED BY <3>2, <3>3
  <2> QED BY <1>1, <2>2, <2>5, <2>6 DEF PostsSpaced
<1>6. AnotherEarned(c)' BY <1>1, <1>3 DEF AnotherEarned
<1>7. LateOnce' BY <1>1, <1>3 DEF LateOnce
<1>8. ResultEarned(c)' BY <1>1, <1>2, <1>3, ResultStays DEF Calling
<1> QED BY <1>4, <1>5, <1>6, <1>7, <1>8 DEF CallInv

\* The answer of an attempt: posts keep their times.
LEMMA RespondKeeps ==
    ASSUME NEW c, CallInv(c), NEW code \in Nat, NEW body, Call(c)!Respond(code, body)
    PROVE  CallInv(c)'
<1>1. /\ pc = "posted" /\ status' = code /\ pc' = "received"
      /\ posts' = [posts EXCEPT ![Len(posts)].status = code]
      /\ UNCHANGED <<clock, request, until, attempts, naps, token, result, executed, late>>
  BY DEF Call!Respond, Call!owner, Call!call
<1>2. /\ CallNumbers(c) /\ PostsSpaced(c) /\ AnotherEarned(c) /\ LateOnce /\ ResultEarned(c)
  BY DEF CallInv
<1>3. attempts \in Nat /\ attempts > 0 /\ pc \in Calling
  BY <1>1, <1>2 DEF CallNumbers, AnotherEarned, Calling
<1>4. posts \in Seq(Posts) /\ Len(posts) = attempts BY <1>2 DEF PostsSpaced
<1>5. /\ Len(posts') = attempts /\ posts'[attempts] = [posts[attempts] EXCEPT !.status = code]
      /\ \A i \in 1 .. attempts : i # attempts => posts'[i] = posts[i]
  BY <1>1, <1>3, <1>4
<1>6. posts[attempts] \in Posts BY <1>2, <1>3, PostsAre
<1>7. posts'[attempts] \in Posts /\ posts'[attempts].at = posts[attempts].at
      /\ posts'[attempts].status = code
  BY <1>5, <1>6 DEF Posts
<1>8. posts' \in Seq(Posts)
  <2> DEFINE post == [posts[attempts] EXCEPT !.status = code]
  <2>1. posts' = [posts EXCEPT ![attempts] = post] BY <1>1, <1>4
  <2>2. post \in Posts /\ attempts \in 1 .. Len(posts) BY <1>3, <1>4, <1>5, <1>7
  <2> HIDE DEF post
  <2> QED BY <1>4, <2>1, <2>2, ExceptSeq
<1>9. \A i \in 1 .. attempts : posts'[i].at = posts[i].at BY <1>5, <1>7
<1>10. CallNumbers(c)' BY <1>1, <1>2 DEF CallNumbers, Calling
<1>11. PostsSpaced(c)'
  <2>1. \A i \in Nat : Call(c)!Pause(i)' = Call(c)!Pause(i) BY <1>1, OfferedStays
  <2>2. ASSUME NEW i \in 1 .. attempts' - 1
        PROVE  /\ posts'[i].status \in Retryable
               /\ posts'[i + 1].at >= posts'[i].at + Call(c)!Pause(i)'
    <3>1. /\ i \in 1 .. attempts - 1 /\ i \in 1 .. attempts /\ i + 1 \in 1 .. attempts
          /\ i # attempts /\ i \in Nat
      BY <1>1, <1>3
    <3>2. posts[i].status \in Retryable /\ posts[i + 1].at >= posts[i].at + Call(c)!Pause(i)
      BY <1>2, <3>1 DEF PostsSpaced
    <3> QED BY <3>1, <3>2, <1>5, <1>9, <2>1
  <2>3. \A i \in 1 .. attempts' : posts'[i].at <= clock' BY <1>1, <1>2, <1>9 DEF PostsSpaced
  <2> QED BY <1>1, <1>5, <1>8, <2>2, <2>3 DEF PostsSpaced
<1>12. AnotherEarned(c)' BY <1>1, <1>3, <1>7 DEF AnotherEarned
<1>13. LateOnce' BY <1>1, <1>2 DEF LateOnce
<1>14. ResultEarned(c)'
  <2>1. result.kind = "none" /\ executed = Call(c)!Refused
    BY <1>2, <1>3 DEF ResultEarned
  <2> QED BY <1>1, <2>1 DEF ResultEarned, Call!AskedIsEnough, Call!Refused
<1> QED BY <1>10, <1>11, <1>12, <1>13, <1>14 DEF CallInv

\* TransportFails
LEMMA TransportKeeps == ASSUME NEW c, CallInv(c), Call(c)!TransportFails PROVE CallInv(c)'
<1>1. /\ pc = "posted"
      /\ UNCHANGED <<clock, request, until, attempts, status, answer, naps, token, executed, posts,
                     late>>
      /\ \E kind \in {"timeout", "unavailable"} : Call(c)!Return(kind)
  BY DEF Call!TransportFails, Call!owner, Call!call
<1>2. until \in Nat /\ naps \in Nat /\ pc \in Calling
  BY <1>1 DEF CallInv, CallNumbers, Calling
<1>3. PICK kind \in {"timeout", "unavailable"} : Call(c)!Return(kind) BY <1>1
<1>4. kind \in Call(c)!Engine \cup {"ok"} /\ kind # "ok" /\ kind # "invalid_request"
  BY DEF Call!Engine
<1> QED BY <1>1, <1>2, <1>3, <1>4, ReturnEarns

\* Classify: a pause that fits begins, and anything else returns.
LEMMA ClassifyKeeps == ASSUME NEW c, CallInv(c), Call(c)!Classify PROVE CallInv(c)'
<1>1. /\ pc = "received" /\ status # 200
      /\ UNCHANGED <<clock, request, until, attempts, status, answer, token, executed, posts, late>>
  BY DEF Call!Classify, Call!owner, Call!call
<1>2. \/ \E kind \in Call(c)!Engine : Call(c)!Return(kind) /\ UNCHANGED naps
      \/ /\ status \in Retryable /\ attempts < c.attempts
         /\ pc' = (IF Call(c)!Backoff = 0 THEN "check" ELSE "sleep")
         /\ naps' = clock + Call(c)!Backoff /\ UNCHANGED result
  BY DEF Call!Classify, Call!Engine, Call!RetryKind, Retryable
<1>3. /\ clock \in Nat /\ until \in Nat /\ naps \in Nat /\ attempts \in Nat /\ attempts > 0
      /\ pc \in Calling /\ token \in BOOLEAN /\ request.backoff \in Nat
      /\ (late = 1 => token) /\ posts[attempts].status = status
  BY <1>1 DEF CallInv, CallNumbers, Calling, AnotherEarned, LateOnce
<1>4. CASE \E kind \in Call(c)!Engine : Call(c)!Return(kind) /\ UNCHANGED naps
  <2>1. PICK kind \in Call(c)!Engine : Call(c)!Return(kind) /\ UNCHANGED naps BY <1>4
  <2>2. kind \in Call(c)!Engine \cup {"ok"} /\ kind # "ok" BY DEF Call!Engine
  <2> QED BY <1>1, <1>3, <2>1, <2>2, ReturnEarns
<1>5. CASE /\ status \in Retryable /\ attempts < c.attempts
           /\ pc' = (IF Call(c)!Backoff = 0 THEN "check" ELSE "sleep")
           /\ naps' = clock + Call(c)!Backoff /\ UNCHANGED result
  <2> DEFINE pause == Call(c)!Pause(attempts)
  <2>1. pause \in Nat BY <1>3, PauseIsNat
  <2>2. Call(c)!Backoff = pause /\ Call(c)!Pause(attempts)' = pause
    BY <1>1 DEF Call!Backoff, Call!Pause
  <2>3. posts[attempts].at \in Nat /\ posts[attempts].at <= clock
    <3>1. PostsSpaced(c) /\ attempts \in 1 .. attempts BY <1>3 DEF CallInv
    <3>2. posts[attempts].at <= clock BY <3>1 DEF PostsSpaced
    <3> QED BY <1>3, <3>1, <3>2, PostsAre
  <2> HIDE DEF pause
  <2>4. naps' \in Nat /\ naps' >= posts[attempts].at + pause
        /\ (pause = 0 => clock >= posts[attempts].at + pause)
    BY <1>3, <1>5, <2>1, <2>2, <2>3
  <2>5. pc' = (IF pause = 0 THEN "check" ELSE "sleep") BY <1>5, <2>2
  <2>6. AnotherEarned(c)' BY <1>1, <1>3, <1>5, <2>2, <2>4, <2>5 DEF AnotherEarned
  <2>7. pc' \in Calling /\ pc' \notin {"start", "post"} BY <2>5 DEF Calling
  <2> QED BY <1>1, <1>3, <1>5, <2>4, <2>6, <2>7, StepStays
<1> QED BY <1>2, <1>4, <1>5

\* Sleep
LEMMA SleepKeeps == ASSUME NEW c, CallInv(c), Call(c)!Sleep PROVE CallInv(c)'
<1>1. /\ pc = "sleep"
      /\ UNCHANGED <<clock, request, until, attempts, status, answer, naps, token, executed, posts,
                     late>>
      /\ \/ clock >= naps /\ pc' = "check" /\ UNCHANGED result
         \/ Call(c)!Return("timeout")
  BY DEF Call!Sleep, Call!owner, Call!call
<1>2. /\ clock \in Nat /\ until \in Nat /\ naps \in Nat /\ attempts \in Nat /\ attempts > 0
      /\ pc \in Calling /\ token \in BOOLEAN /\ request.backoff \in Nat
  BY <1>1 DEF CallInv, CallNumbers, Calling, AnotherEarned
<1>3. CASE Call(c)!Return("timeout") BY <1>1, <1>2, <1>3, ReturnEarns DEF Call!Engine
<1>4. CASE clock >= naps /\ pc' = "check" /\ UNCHANGED result
  <2> DEFINE pause == Call(c)!Pause(attempts)
  <2>1. pause \in Nat BY <1>2, PauseIsNat
  <2>2. Call(c)!Pause(attempts)' = pause BY <1>1 DEF Call!Pause
  <2>3. posts[attempts].at \in Nat BY <1>2, PostsAre DEF CallInv
  <2>4. naps >= posts[attempts].at + pause BY <1>1 DEF CallInv, AnotherEarned
  <2> HIDE DEF pause
  <2>5. clock >= posts[attempts].at + pause BY <1>2, <1>4, <2>1, <2>3, <2>4
  <2>6. AnotherEarned(c)' BY <1>1, <1>4, <2>2, <2>5 DEF AnotherEarned, CallInv
  <2> QED BY <1>1, <1>2, <1>4, <2>6, StepStays DEF Calling
<1> QED BY <1>1, <1>3, <1>4

\* Parse
LEMMA ParseKeeps == ASSUME NEW c, CallInv(c), Call(c)!Parse PROVE CallInv(c)'
<1>1. /\ pc = "received"
      /\ UNCHANGED <<clock, request, until, attempts, status, answer, naps, token, executed, posts,
                     late>>
      /\ \/ Call(c)!Return("timeout")
         \/ answer = Call(c)!NoAnswer /\ Call(c)!Return("invalid_request")
         \/ pc' = "parsed" /\ UNCHANGED result
  BY DEF Call!Parse, Call!owner, Call!call
<1>2. clock \in Nat /\ until \in Nat /\ naps \in Nat /\ token \in BOOLEAN /\ pc \in Calling
  BY <1>1 DEF CallInv, CallNumbers, Calling
<1>3. CASE Call(c)!Return("timeout") BY <1>1, <1>2, <1>3, ReturnEarns DEF Call!Engine
<1>4. CASE answer = Call(c)!NoAnswer /\ Call(c)!Return("invalid_request")
  <2>1. ~Call(c)!Normalized(answer, Call(c)!Offered)
    BY <1>4 DEF Call!Normalized, Call!NoAnswer, Call!Questions
  <2> QED BY <1>1, <1>2, <1>4, <2>1, ReturnEarns DEF Call!Engine
<1>5. CASE pc' = "parsed" /\ UNCHANGED result
  <2>1. AnotherEarned(c)' BY <1>5 DEF AnotherEarned
  <2> QED BY <1>1, <1>2, <1>5, <2>1, StepStays DEF Calling
<1> QED BY <1>1, <1>3, <1>4, <1>5

\* Normalize
LEMMA NormalizeKeeps == ASSUME NEW c, CallInv(c), Call(c)!Normalize PROVE CallInv(c)'
<1>1. /\ pc = "parsed"
      /\ UNCHANGED <<clock, request, until, attempts, status, answer, naps, token, executed, posts,
                     late>>
  BY DEF Call!Normalize, Call!owner, Call!call
<1>2. clock \in Nat /\ until \in Nat /\ naps \in Nat /\ pc \in Calling
  BY <1>1 DEF CallInv, CallNumbers, Calling
<1> DEFINE kind == IF Call(c)!Expired THEN "timeout"
                   ELSE IF Call(c)!Normalized(answer, Call(c)!Offered) THEN "ok"
                   ELSE "invalid_request"
<1>3. Call(c)!Return(kind) BY DEF Call!Normalize
<1>4. /\ kind \in Call(c)!Engine \cup {"ok"}
      /\ kind = "ok" => clock < until /\ Call(c)!Normalized(answer, Call(c)!Offered)
      /\ kind = "invalid_request" => ~Call(c)!Normalized(answer, Call(c)!Offered)
  BY <1>2 DEF Call!Engine, Call!Expired
<1> HIDE DEF kind
<1> QED BY <1>1, <1>2, <1>3, <1>4, ReturnEarns

\* The pipeline executes what the policy makes of the result.
LEMMA ExecuteKeeps == ASSUME NEW c, CallInv(c), Call(c)!Execute PROVE CallInv(c)'
<1>1. /\ pc = "returned" /\ pc' = "done" /\ executed' = Call(c)!Policy(result)
      /\ UNCHANGED <<clock, request, until, attempts, status, answer, naps, token, result, posts,
                     late>>
  BY DEF Call!Execute, Call!owner, Call!call
<1>2. CallNumbers(c)' BY <1>1 DEF CallInv, CallNumbers
<1>3. PostsSpaced(c)' BY <1>1, <1>2, PostsStay DEF CallInv, CallNumbers
<1>4. AnotherEarned(c)' BY <1>1 DEF AnotherEarned
<1>5. LateOnce' BY <1>1 DEF CallInv, LateOnce
<1>6. ResultEarned(c)'
  <2>1. Call(c)!Offered' = Call(c)!Offered BY <1>1, OfferedStays
  <2>2. result.kind = "ok" =>
          /\ result.at < until
          /\ Call(c)!Normalized(result.answer, Call(c)!Offered')
          /\ result.pick = IF Call(c)!Offered' # {} THEN result.answer.pick ELSE "none"
    BY <2>1 DEF CallInv, ResultEarned
  <2>3. Call(c)!AskedIsEnough'
    BY <1>1, <2>1 DEF CallInv, ResultEarned, Call!AskedIsEnough, Call!Questions, Call!Routes
  <2>4. pc' \notin Calling BY <1>1 DEF Calling
  <2> QED BY <1>1, <2>2, <2>3, <2>4 DEF ResultEarned, Call!Normalized, Call!Questions, Call!Routes,
      Call!Policy, Call!Refused
<1> QED BY <1>2, <1>3, <1>4, <1>5, <1>6 DEF CallInv

\* What the future and time do to the call: the token is set, or time passes.
LEMMA AsideKeeps ==
    ASSUME NEW c, CallInv(c),
           \/ Call(c)!Publish \/ Call(c)!Wake \/ Call(c)!Poll \/ Call(c)!Drop \/ Call(c)!Tick
    PROVE  CallInv(c)'
<1>1. /\ UNCHANGED <<request, until, attempts, status, answer, naps, result, executed, posts, late>>
      /\ clock' = clock \/ clock' = clock + 1
      /\ token' = token \/ token' = TRUE
      /\ pc' = pc \/ (pc' \in {"wake", "done"} /\ pc \in {"returned", "wake"})
  BY DEF Call!Publish, Call!Wake, Call!Poll, Call!Drop, Call!Tick, Call!owner, Call!call
<1>2. /\ clock \in Nat /\ clock' \in Nat /\ clock <= clock' /\ until \in Nat /\ naps \in Nat
      /\ token \in BOOLEAN /\ token' \in BOOLEAN /\ (token => token')
      /\ pc' \in Calling \cup {"returned", "wake", "done"} /\ (pc' \in Calling => pc \in Calling)
      /\ late = 1 => pc' \notin {"start", "post"}
  <2>1. CallNumbers(c) /\ LateOnce BY DEF CallInv
  <2>2. /\ clock \in Nat /\ clock' \in Nat /\ clock <= clock' /\ until \in Nat /\ naps \in Nat
    BY <1>1, <2>1 DEF CallNumbers
  <2>3. token \in BOOLEAN /\ token' \in BOOLEAN /\ (token => token')
    BY <1>1, <2>1 DEF CallNumbers
  <2>4. CASE pc' = pc BY <2>1, <2>2, <2>3, <2>4 DEF CallNumbers, LateOnce
  <2>5. CASE pc' \in {"wake", "done"} BY <2>2, <2>3, <2>5 DEF Calling
  <2> QED BY <1>1, <2>4, <2>5
<1>3. attempts > 0 => Call(c)!Pause(attempts)' = Call(c)!Pause(attempts)
                      /\ Call(c)!Pause(attempts) \in Nat /\ posts[attempts].at \in Nat
  <2>1. attempts \in Nat /\ request.backoff \in Nat /\ PostsSpaced(c) BY DEF CallInv, CallNumbers
  <2> QED BY <1>1, <2>1, PauseIsNat, PostsAre DEF Call!Pause
<1>4. AnotherEarned(c)'
  <2>1. AnotherEarned(c) BY DEF CallInv
  <2>2. CASE pc' = pc
    <3>1. attempts \in Nat BY DEF CallInv, CallNumbers
    <3> QED BY <1>1, <1>2, <1>3, <2>1, <2>2, <3>1 DEF AnotherEarned
  <2>3. CASE pc' \in {"wake", "done"} BY <2>3 DEF AnotherEarned
  <2> QED BY <1>1, <2>2, <2>3
<1> QED BY <1>1, <1>2, <1>4, StepStays

\* Every step of a call keeps the invariant.
LEMMA CallKeeps ==
    ASSUME NEW c, Call(c)!ConfigAssumption, CallInv(c), Call(c)!Next PROVE CallInv(c)'
<1>1. CASE Call(c)!Start \/ Call(c)!Check \/ Call(c)!Post
  BY <1>1, StartKeeps, CheckKeeps, PostKeeps
<1>2. CASE Call(c)!TransportFails \/ Call(c)!Classify \/ Call(c)!Sleep
  BY <1>2, TransportKeeps, ClassifyKeeps, SleepKeeps
<1>3. CASE Call(c)!Parse \/ Call(c)!Normalize \/ Call(c)!Execute
  BY <1>3, ParseKeeps, NormalizeKeeps, ExecuteKeeps
<1>4. CASE \/ Call(c)!Publish \/ Call(c)!Wake \/ Call(c)!Poll \/ Call(c)!Drop \/ Call(c)!Tick
  BY <1>4, AsideKeeps
<1>5. CASE \E code \in {401, 400, 429, 529, 500} : Call(c)!Respond(code, Call(c)!NoAnswer)
  BY <1>5, RespondKeeps
<1>6. CASE \E body \in c.bodies : Call(c)!Respond(200, body)
  BY <1>6, RespondKeeps
<1> QED BY <1>1, <1>2, <1>3, <1>4, <1>5, <1>6 DEF Call!Next, Call!Worker

\* A call before it starts.
LEMMA CallInvInit ==
    ASSUME NEW c, Call(c)!ConfigAssumption, Call(c)!Init PROVE CallInv(c)
<1>1. /\ clock = 0 /\ pc = "start" /\ attempts = 0 /\ until = 0 /\ status = 0 /\ naps = 0
      /\ token = FALSE /\ result = Call(c)!None /\ executed = Call(c)!Refused /\ posts = <<>>
      /\ late = 0
  BY DEF Call!Init
<1>2. request.backoff \in Nat /\ request.budget \in Nat
  BY DEF Call!Init, Call!ConfigAssumption
<1>3. result.kind = "none" BY <1>1 DEF Call!None
<1>4. CallNumbers(c)
  <2>1. 0 <= c.attempts BY DEF Call!ConfigAssumption
  <2> QED BY <1>1, <1>2, <2>1 DEF CallNumbers, Calling
<1>5. PostsSpaced(c) BY <1>1 DEF PostsSpaced
<1>6. AnotherEarned(c) BY <1>1 DEF AnotherEarned, Call!ConfigAssumption
<1>7. LateOnce BY <1>1 DEF LateOnce
<1>8. ResultEarned(c) BY <1>1, <1>3 DEF ResultEarned, Call!AskedIsEnough
<1> QED BY <1>4, <1>5, <1>6, <1>7, <1>8 DEF CallInv

\* What the invariant says of the properties.
LEMMA CallInvSays ==
    ASSUME NEW c, Call(c)!ConfigAssumption, CallInv(c)
    PROVE  /\ Call(c)!RetriesJustified /\ Call(c)!DropStopsPosts
           /\ Call(c)!ActionEarned /\ Call(c)!AskedIsEnough
<1>1. Call(c)!RetriesJustified
  BY DEF CallInv, CallNumbers, PostsSpaced, Retryable, Call!RetriesJustified
<1>2. Call(c)!DropStopsPosts BY DEF CallInv, LateOnce, Call!DropStopsPosts
<1>3. ASSUME executed.action \notin {"none", "fallback"}
      PROVE  /\ result.kind = "ok" /\ result.at < until
             /\ result.answer.confidence >= c.confidence
             /\ executed.asset # "none" <=> executed.action = "cached"
             /\ executed.action = "cached" =>
                   /\ executed.asset = result.answer.pick
                   /\ executed.asset \in Call(c)!Offered
                   /\ result.answer.reuse >= c.reuse
  <2>1. executed # Call(c)!Refused BY <1>3 DEF Call!Refused
  <2>2. executed = Call(c)!Policy(result) BY <2>1 DEF CallInv, ResultEarned
  <2>3. result.kind = "ok" /\ ~(result.answer.confidence < c.confidence)
    BY <1>3, <2>2 DEF Call!Policy
  <2>4. /\ result.at < until /\ Call(c)!Normalized(result.answer, Call(c)!Offered)
        /\ result.pick = IF Call(c)!Offered # {} THEN result.answer.pick ELSE "none"
    BY <2>3 DEF CallInv, ResultEarned
  <2>5. \/ /\ result.answer.route # "cached" /\ executed.action = result.answer.route
           /\ executed.asset = "none"
        \/ /\ executed.action = "cached" /\ executed.asset = result.pick /\ result.pick # "none"
           /\ result.answer.reuse >= c.reuse
    BY <1>3, <2>2, <2>3 DEF Call!Policy
  <2>6. result.answer.confidence \in 0 .. 2 /\ c.confidence \in 0 .. 2
    BY <2>4 DEF Call!Normalized, Call!ConfigAssumption
  <2>7. result.pick # "none" => result.pick = result.answer.pick /\ result.pick \in Call(c)!Offered
    BY <2>4 DEF Call!Normalized
  <2> QED BY <2>3, <2>4, <2>5, <2>6, <2>7
<1>4. Call(c)!ActionEarned BY <1>3 DEF Call!ActionEarned
<1> QED BY <1>1, <1>2, <1>4 DEF CallInv, ResultEarned

\* Of the part that moves.
CallsHold == part = "calls" => \A c \in CallLimits : c = limits => CallInv(c)

\* At the start.
LEMMA CallsHoldInit == Init => CallsHold
<1> SUFFICES ASSUME Init, part = "calls", NEW c \in CallLimits, c = limits PROVE CallInv(c)
  BY DEF CallsHold
<1>1. PICK d \in CallLimits : Call(d)!Init /\ (part = "calls" => limits = d) BY DEF Init
<1>2. Call(d)!ConfigAssumption BY CallAssumption
<1> QED BY <1>1, <1>2, CallInvInit

\* While another part moves.
LEMMA CallsHoldKept == CallsHold /\ UNCHANGED <<part, limits, reflexVars>> => CallsHold'
<1> SUFFICES ASSUME CallsHold, UNCHANGED <<part, limits, reflexVars>>,
                    part' = "calls", NEW c \in CallLimits, c = limits'
             PROVE  CallInv(c)'
  BY DEF CallsHold
<1>1. /\ UNCHANGED <<clock, request, pc, until, status, answer, naps, token, result, attempts,
                     executed, posts, late>>
      /\ CallInv(c)
  BY DEF CallsHold, reflexVars
<1>2. /\ clock \in Nat /\ until \in Nat /\ naps \in Nat /\ token \in BOOLEAN
      /\ pc \in Calling \cup {"returned", "wake", "done"}
      /\ late = 1 => pc \notin {"start", "post"}
  BY <1>1 DEF CallInv, CallNumbers, LateOnce
<1>3. AnotherEarned(c)'
  <2>1. Call(c)!Pause(attempts)' = Call(c)!Pause(attempts) BY <1>1 DEF Call!Pause
  <2> QED BY <1>1, <2>1 DEF CallInv, AnotherEarned
<1> QED BY <1>1, <1>2, <1>3, StepStays

\* The invariant over a step.
LEMMA CallsHoldStep == CallsHold /\ Next => CallsHold'
<1> SUFFICES ASSUME CallsHold, Next, part = "calls", NEW c \in CallLimits, c = limits
             PROVE  CallInv(c)'
  BY DEF CallsHold, Next
<1>1. PICK d \in CallLimits : d = limits /\ Call(d)!Next BY DEF Next
<1>2. CallInv(d) /\ Call(d)!ConfigAssumption BY <1>1, CallAssumption DEF CallsHold
<1> QED BY <1>1, <1>2, CallKeeps

\* Retries are earned and spaced and end with the token, an action was earned
\* by an answer, and what was asked is enough to answer, for every limit of
\* the adapter and of the policy (jev.rs, pipeline.rs).
THEOREM CallsAreSound == Spec => []ReflexSound
<1>1. CallsHold => ReflexSound
  <2> SUFFICES ASSUME CallsHold, part = "calls", NEW c \in CallLimits, c = limits
               PROVE  /\ Call(c)!RetriesJustified /\ Call(c)!DropStopsPosts
                      /\ Call(c)!ActionEarned /\ Call(c)!AskedIsEnough
    BY DEF ReflexSound
  <2>1. CallInv(c) /\ Call(c)!ConfigAssumption BY CallAssumption DEF CallsHold
  <2> QED BY <2>1, CallInvSays
<1>2. CallsHold /\ [Next]_<<part, limits, playbackVars, taskVars, reflexVars>> => CallsHold'
  BY CallsHoldStep, CallsHoldKept
<1> QED BY <1>1, <1>2, CallsHoldInit, PTL DEF Spec

----------------------------------------------------------------------------
(* Playback                                                                *)

Intervals == [from : Nat, until : Nat]
Performances == [via : {"intent", "asset"}, group : STRING, id : STRING]

\* What is live is as it was accepted or shorter, and is not over; what is
\* still queued lies ahead.
PlayNumbers ==
    /\ issued \in Nat /\ now \in Nat
    /\ DOMAIN plan = 1 .. issued /\ DOMAIN reach = 1 .. issued
    /\ DOMAIN window \subseteq 1 .. issued
    /\ \A g \in 1 .. issued : plan[g] \in Intervals /\ reach[g] \in Nat /\ reach[g] <= plan[g].until
    /\ \A g \in DOMAIN window :
          window[g] \in Intervals /\ reach[g] = window[g].until /\ now < window[g].until
    /\ \A d \in asked : d.gen \in 1 .. issued /\ d.at \in Nat
    /\ pending \subseteq asked /\ \A d \in pending : now < d.at

\* A command that went out, or was dropped behind a mute, went once and in
\* time, and is queued no longer.
WentOnce(c) ==
    /\ \A s \in sent :
          /\ s.cmd \in asked \ pending /\ s.time \in Nat
          /\ s.time <= now /\ s.time <= reach[s.cmd.gen]
          /\ s.cmd.at <= s.time /\ s.time - s.cmd.at <= c.lateness
    /\ \A s, r \in sent : s.cmd = r.cmd => s = r
    /\ \A d \in silenced : d \in asked \ pending /\ \A s \in sent : s.cmd # d

\* A command far enough from the end of a performance that is let play is gone,
\* or queued for a performance that is live.
Awaited(c) ==
    c.gap <= c.lateness + 1 =>
        \A d \in asked :
            reach[d.gen] = plan[d.gen].until /\ d.at + c.gap <= plan[d.gen].until =>
                \/ d \in silenced
                \/ \E s \in sent : s.cmd = d
                \/ d \in pending /\ d.gen \in DOMAIN window

\* A command lies in its performance, or a millisecond after it.
Placed == \A d \in asked : plan[d.gen].from <= d.at /\ d.at <= plan[d.gen].until + 1

\* The groups played after the performance i.
Since(i) == {plays[k].group : k \in i + 1 .. Len(plays)}

\* The performance i is the last one of its group.
LastOfGroup(i) == \A k \in i + 1 .. Len(plays) : plays[k].group # plays[i].group

\* A group that is remembered has its last variant remembered, and one that is
\* not has as many others after it as are remembered.
Rotated(c) ==
    c.recent > 0 /\ c.groups > 0 =>
        /\ DOMAIN touched = DOMAIN recent
        /\ IsFiniteSet(DOMAIN recent) /\ Cardinality(DOMAIN recent) <= c.groups
        /\ \A g \in DOMAIN recent :
              /\ touched[g] \in DOMAIN plays /\ plays[touched[g]].group = g
              /\ LastOfGroup(touched[g])
              /\ recent[g] \in Seq(STRING) /\ Len(recent[g]) \in 1 .. c.recent
              /\ recent[g][Len(recent[g])] = plays[touched[g]].id
        /\ \A i \in DOMAIN plays :
              plays[i].group \notin DOMAIN recent /\ LastOfGroup(i) =>
                  Cardinality(Since(i)) >= c.groups

\* The groups of the performances from i to j, and the ids of a group.
Spanned(i, j) == {plays[k].group : k \in i .. j}
Ids(c, group) == {a.id : a \in {b \in c.assets : b.group = group}}

\* An intent does not repeat its last variant (NoImmediateRepeat).
NotRepeated(c) ==
    \A i, j \in DOMAIN plays :
        /\ c.recent > 0
        /\ i < j /\ plays[i].group = plays[j].group /\ plays[j].via = "intent"
        /\ \A k \in i + 1 .. j - 1 : plays[k].group # plays[j].group
        /\ Cardinality(Spanned(i, j)) <= c.groups
        /\ Cardinality(Ids(c, plays[j].group)) > c.recent
        => plays[i].id # plays[j].id

PlayInv(c) ==
    /\ PlayNumbers /\ WentOnce(c) /\ Awaited(c) /\ Placed
    /\ plays \in Seq(Performances) /\ Rotated(c) /\ NotRepeated(c)

\* A non-empty finite set of numbers has a greatest one.
LEMMA GreatestExists ==
    ASSUME NEW S, S \subseteq Nat, S # {}, IsFiniteSet(S)
    PROVE  \E x \in S : \A y \in S : x >= y
<1> DEFINE Bad == {T \in SUBSET S : T # {} /\ \A x \in T : \E y \in T : ~ (x >= y)}
           Sizes == {Cardinality(T) : T \in Bad}
<1>1. \A T \in SUBSET S : IsFiniteSet(T) /\ Cardinality(T) \in Nat
  BY FS_Subset, FS_CardinalityType
<1>2. SUFFICES ASSUME Bad # {} PROVE FALSE
  OBVIOUS
<1>3. Sizes \subseteq Nat /\ Sizes # {} BY <1>1, <1>2
<1> HIDE DEF Sizes
<1>4. PICK n \in Sizes : \A m \in Sizes : ~ (<<m, n>> \in OpToRel(<, Nat))
  BY <1>3, NatLessThanWellFounded, WFMin
<1>5. PICK T \in Bad : Cardinality(T) = n BY DEF Sizes
<1>6. PICK x \in T : TRUE OBVIOUS
<1> DEFINE R == T \ {x}
<1>7. Cardinality(R) = n - 1 /\ Cardinality(R) \in Nat /\ n \in Nat
  BY <1>1, <1>3, <1>5, FS_RemoveElement
<1>8. Cardinality(R) < n BY <1>7
<1>9. R \notin Bad
  <2> SUFFICES ASSUME R \in Bad PROVE FALSE OBVIOUS
  <2>1. Cardinality(R) \in Sizes BY DEF Sizes
  <2>2. <<Cardinality(R), n>> \in OpToRel(<, Nat) BY <1>7, <1>8 DEF OpToRel
  <2> QED BY <2>1, <2>2, <1>4
<1>10. x \in Nat /\ T \subseteq Nat BY <1>6
<1>11. CASE R = {}
  <2>1. T = {x} BY <1>11, <1>6
  <2> QED BY <2>1, <1>10, <1>5
<1>12. CASE R # {}
  <2>1. PICK y \in R : \A z \in R : y >= z BY <1>9, <1>12, <1>5
  <2>2. y \in Nat /\ y \in T BY <1>10
  <2>3. \A z \in T : z \in Nat /\ (z = x \/ y >= z) BY <2>1, <1>10
  <2>4. x >= y \/ y >= x BY <2>2, <1>10
  <2>5. (\A z \in T : x >= z) \/ (\A z \in T : y >= z)
    <3>1. CASE x >= y BY <3>1, <2>2, <2>3, <1>10
    <3>2. CASE y >= x BY <3>2, <2>2, <2>3, <1>10
    <3> QED BY <3>1, <3>2, <2>4
  <2> QED BY <2>5, <2>2, <1>5
<1> QED BY <1>11, <1>12

\* What Max gives, of such a set.
LEMMA PlayerMax ==
    ASSUME NEW c, NEW S, S \subseteq Nat, S # {}, IsFiniteSet(S)
    PROVE  Player(c)!Max(S) \in S /\ \A y \in S : y <= Player(c)!Max(S)
<1>1. \E x \in S : \A y \in S : x >= y BY GreatestExists
<1>2. Player(c)!Max(S) \in S /\ \A y \in S : Player(c)!Max(S) >= y BY <1>1 DEF Player!Max
<1>3. Player(c)!Max(S) \in Nat BY <1>2
<1>4. \A y \in S : y \in Nat OBVIOUS
<1> QED BY <1>2, <1>3, <1>4

\* Of two numbers.
LEMMA PlayerMaxOfTwo ==
    ASSUME NEW c, NEW x \in Int, NEW y \in Int
    PROVE  /\ Player(c)!Max({x, y}) \in {x, y}
           /\ Player(c)!Max({x, y}) >= x /\ Player(c)!Max({x, y}) >= y
<1>1. \E k \in {x, y} : \A j \in {x, y} : k >= j OBVIOUS
<1> QED BY <1>1 DEF Player!Max

\* A number, raised to one.
LEMMA AtLeastOne ==
    ASSUME NEW c, NEW x \in Nat
    PROVE  Player(c)!Max({1, x}) \in Nat /\ x <= Player(c)!Max({1, x})
<1>1. 1 \in Int /\ x \in Int OBVIOUS
<1>2. Player(c)!Max({1, x}) \in {1, x} /\ Player(c)!Max({1, x}) >= x
  BY <1>1, PlayerMaxOfTwo
<1>3. Player(c)!Max({1, x}) \in Nat BY <1>2
<1> QED BY <1>2, <1>3

\* Rounding half up keeps the order, and two parts are rounded up by one at most.
LEMMA Rounding ==
    ASSUME NEW p \in Nat, NEW q \in Nat
    PROVE  /\ (p + 50) \div 100 \in Nat
           /\ p <= q => (p + 50) \div 100 <= (q + 50) \div 100
           /\ (p + 50) \div 100 + (q + 50) \div 100 <= (p + q + 50) \div 100 + 1
OBVIOUS

\* scale_offset
LEMMA Scales ==
    ASSUME NEW c, NEW x \in Nat, NEW y \in Nat, NEW speed \in Nat \ {0}
    PROVE  /\ Player(c)!ScaleOffset(x, speed) \in Nat
           /\ x <= y => Player(c)!ScaleOffset(x, speed) <= Player(c)!ScaleOffset(y, speed)
           /\ Player(c)!ScaleOffset(x, speed) + Player(c)!ScaleOffset(y, speed)
                 <= Player(c)!ScaleOffset(x + y, speed) + 1
<1>1. /\ x * speed \in Nat /\ y * speed \in Nat
      /\ (x + y) * speed = x * speed + y * speed
  OBVIOUS
<1>2. x <= y => x * speed <= y * speed
  <2> SUFFICES ASSUME x <= y PROVE x * speed <= y * speed OBVIOUS
  <2>1. PICK z \in Nat : y = x + z
    <3>1. y - x \in Nat /\ y = x + (y - x) OBVIOUS
    <3> QED BY <3>1
  <2>2. (x + z) * speed = x * speed + z * speed /\ z * speed \in Nat OBVIOUS
  <2> QED BY <2>1, <2>2, <1>1
<1> QED BY <1>1, <1>2, Rounding DEF Player!ScaleOffset

\* The fields of an asset.
LEMMA AssetIs ==
    ASSUME NEW c, Player(c)!PlaybackAssumption, NEW a \in c.assets
    PROVE  /\ a.id \in STRING /\ a.group \in STRING
           /\ a.speech \in Nat \cup {NoTrack} /\ a.length \in Nat
           /\ a.cues \subseteq Nat /\ a.points \subseteq Nat /\ IsFiniteSet(a.points)
           /\ a.expression \in Nat \cup {NoTrack} /\ a.gesture \in Nat \cup {NoTrack}
           /\ a.gaze \in Nat \cup {NoTrack}
           /\ \A cue \in a.cues : cue <= a.length
<1>1. a \in Player(c)!AssetType BY DEF Player!PlaybackAssumption
<1>2. /\ a.id \in STRING /\ a.group \in STRING
      /\ a.speech \in Nat \cup {NoTrack} /\ a.length \in Nat
      /\ a.cues \subseteq Nat /\ a.points \subseteq Nat
      /\ a.expression \in Nat \cup {NoTrack} /\ a.gesture \in Nat \cup {NoTrack}
      /\ a.gaze \in Nat \cup {NoTrack}
  BY <1>1 DEF Player!AssetType
<1>3. IsFiniteSet(a.points) BY DEF Player!PlaybackAssumption, Player!IsFiniteSet, IsFiniteSet
<1>4. \A cue \in a.cues : cue <= a.length BY DEF Player!PlaybackAssumption
<1> QED BY <1>2, <1>3, <1>4

\* The timeline of an asset reaches behind every marker and the speech.
LEMMA BaseCovers ==
    ASSUME NEW c, Player(c)!PlaybackAssumption, NEW a \in c.assets
    PROVE  /\ Player(c)!AssetBaseDuration(a) \in Nat
           /\ \A m \in {a.speech, a.expression, a.gesture, a.gaze} :
                 m # NoTrack => m \in Nat /\ m <= Player(c)!AssetBaseDuration(a)
           /\ a.speech # NoTrack => a.speech + a.length <= Player(c)!AssetBaseDuration(a)
<1> DEFINE marks == {a.speech, a.expression, a.gesture, a.gaze} \ {NoTrack}
           ends == IF a.speech = NoTrack THEN {} ELSE {a.speech + a.length}
           all == {0} \cup marks \cup a.points \cup ends
<1>1. marks \subseteq Nat /\ ends \subseteq Nat /\ a.points \subseteq Nat BY AssetIs
<1>2. IsFiniteSet(all)
  <2>1. IsFiniteSet({0}) /\ IsFiniteSet(ends)
    BY FS_Singleton, FS_EmptySet
  <2>2. IsFiniteSet({a.speech, a.expression, a.gesture, a.gaze})
    <3>1. /\ IsFiniteSet({a.speech}) /\ IsFiniteSet({a.expression})
          /\ IsFiniteSet({a.gesture}) /\ IsFiniteSet({a.gaze})
      BY FS_Singleton
    <3>2. IsFiniteSet({a.speech} \cup {a.expression}) BY <3>1, FS_Union
    <3>3. IsFiniteSet(({a.speech} \cup {a.expression}) \cup {a.gesture}) BY <3>1, <3>2, FS_Union
    <3>4. IsFiniteSet((({a.speech} \cup {a.expression}) \cup {a.gesture}) \cup {a.gaze})
      BY <3>1, <3>3, FS_Union
    <3>5. {a.speech, a.expression, a.gesture, a.gaze}
              = (({a.speech} \cup {a.expression}) \cup {a.gesture}) \cup {a.gaze}
      OBVIOUS
    <3> QED BY <3>4, <3>5
  <2>3. IsFiniteSet(marks) BY <2>2, FS_Subset
  <2>4. IsFiniteSet({0} \cup marks) BY <2>1, <2>3, FS_Union
  <2>5. IsFiniteSet(({0} \cup marks) \cup a.points) BY <2>4, AssetIs, FS_Union
  <2>6. IsFiniteSet((({0} \cup marks) \cup a.points) \cup ends) BY <2>1, <2>5, FS_Union
  <2> QED BY <2>6
<1>3. all \subseteq Nat /\ all # {} BY <1>1
<1>4. Player(c)!AssetBaseDuration(a) = Player(c)!Max(all)
  BY DEF Player!AssetBaseDuration, Player!Markers
<1> HIDE DEF all
<1>5. Player(c)!Max(all) \in all /\ \A y \in all : y <= Player(c)!Max(all)
  BY <1>2, <1>3, PlayerMax
<1>6. Player(c)!AssetBaseDuration(a) \in Nat BY <1>3, <1>4, <1>5
<1>7. marks \subseteq all /\ ends \subseteq all BY DEF all
<1>8. \A m \in marks : m \in Nat /\ m <= Player(c)!AssetBaseDuration(a)
  BY <1>1, <1>4, <1>5, <1>7
<1>9. \A m \in ends : m <= Player(c)!AssetBaseDuration(a) BY <1>4, <1>5, <1>7
<1> QED BY <1>6, <1>8, <1>9

\* schedule_asset: the duration covers what lies before the end of the timeline.
LEMMA DurationCovers ==
    ASSUME NEW c, Player(c)!PlaybackAssumption, NEW a \in c.assets, NEW speed \in c.speeds
    PROVE  /\ speed \in Nat \ {0} /\ Player(c)!Duration(a, speed) \in Nat
           /\ \A m \in Nat : m <= Player(c)!AssetBaseDuration(a) =>
                 Player(c)!ScaleOffset(m, speed) <= Player(c)!Duration(a, speed)
<1> DEFINE base == Player(c)!Max({1, Player(c)!AssetBaseDuration(a)})
           scaled == Player(c)!ScaleOffset(base, speed)
<1>1. speed \in Nat \ {0} BY DEF Player!PlaybackAssumption
<1>2. Player(c)!AssetBaseDuration(a) \in Nat BY BaseCovers
<1>3. base \in Nat /\ Player(c)!AssetBaseDuration(a) <= base BY <1>2, AtLeastOne
<1>4. scaled \in Nat BY <1>1, <1>3, Scales
<1>5. Player(c)!Duration(a, speed) = Player(c)!Max({1, scaled}) BY DEF Player!Duration
<1> HIDE DEF base, scaled
<1>6. Player(c)!Duration(a, speed) \in Nat /\ scaled <= Player(c)!Duration(a, speed)
  BY <1>4, <1>5, AtLeastOne
<1>7. ASSUME NEW m \in Nat, m <= Player(c)!AssetBaseDuration(a)
      PROVE  Player(c)!ScaleOffset(m, speed) <= Player(c)!Duration(a, speed)
  <2>1. m <= base BY <1>2, <1>3, <1>7
  <2>2. Player(c)!ScaleOffset(m, speed) <= scaled
    BY <2>1, <1>1, <1>3, Scales DEF scaled
  <2>3. Player(c)!ScaleOffset(m, speed) \in Nat BY <1>1, Scales
  <2> QED BY <2>2, <2>3, <1>4, <1>6
<1> QED BY <1>1, <1>6, <1>7

\* dispatch_asset: commands lie between the start and a millisecond after the
\* end.
LEMMA DispatchLies ==
    ASSUME NEW c, Player(c)!PlaybackAssumption, NEW a \in c.assets, NEW speed \in c.speeds,
           NEW gen, NEW start \in Nat, NEW d \in Player(c)!DispatchAsset(a, gen, start, speed)
    PROVE  /\ d.gen = gen /\ d.at \in Nat /\ start <= d.at
           /\ d.at <= start + Player(c)!Duration(a, speed) + 1
<1> DEFINE S(x) == Player(c)!ScaleOffset(x, speed)
           base == Player(c)!AssetBaseDuration(a)
           long == Player(c)!Duration(a, speed)
<1>1. /\ speed \in Nat \ {0} /\ long \in Nat
      /\ \A m \in Nat : m <= base => S(m) <= long
  BY DurationCovers
<1>2. base \in Nat BY BaseCovers
<1>3. \/ \E m \in {a.speech, a.expression, a.gesture, a.gaze} :
            m # NoTrack /\ d.gen = gen /\ d.at = start + S(m)
      \/ a.speech # NoTrack /\ d.gen = gen
         /\ \E cue \in a.cues : d.at = start + S(a.speech) + S(cue)
  BY DEF Player!DispatchAsset
<1> HIDE DEF base, long
<1>4. ASSUME NEW m \in {a.speech, a.expression, a.gesture, a.gaze}, m # NoTrack
      PROVE  m \in Nat /\ S(m) \in Nat /\ S(m) <= long
  <2>1. m \in Nat /\ m <= base BY <1>4, BaseCovers DEF base
  <2>2. S(m) \in Nat BY <2>1, <1>1, Scales
  <2> QED BY <2>1, <2>2, <1>1
<1>5. CASE \E m \in {a.speech, a.expression, a.gesture, a.gaze} :
               m # NoTrack /\ d.gen = gen /\ d.at = start + S(m)
  <2>1. PICK m \in {a.speech, a.expression, a.gesture, a.gaze} :
                m # NoTrack /\ d.gen = gen /\ d.at = start + S(m)
    BY <1>5
  <2>2. S(m) \in Nat /\ S(m) <= long BY <2>1, <1>4
  <2> HIDE DEF S
  <2> QED BY <2>1, <2>2, <1>1 DEF long
<1>6. CASE /\ a.speech # NoTrack /\ d.gen = gen
           /\ \E cue \in a.cues : d.at = start + S(a.speech) + S(cue)
  <2>1. PICK cue \in a.cues : d.at = start + S(a.speech) + S(cue) BY <1>6
  <2>2. a.speech \in Nat /\ S(a.speech) \in Nat BY <1>4, <1>6
  <2>3. cue \in Nat /\ cue <= a.length /\ a.length \in Nat BY AssetIs
  <2>4. a.speech + cue \in Nat /\ a.speech + cue <= base
    <3>1. a.speech + a.length <= base BY <1>6, BaseCovers DEF base
    <3> QED BY <3>1, <2>2, <2>3, <1>2
  <2>5. S(cue) \in Nat /\ S(a.speech) + S(cue) <= S(a.speech + cue) + 1
    BY <2>2, <2>3, <1>1, Scales
  <2>6. S(a.speech + cue) \in Nat /\ S(a.speech + cue) <= long
    <3>1. S(a.speech + cue) \in Nat BY <2>4, <1>1, Scales
    <3> QED BY <3>1, <2>4, <1>1
  <2> HIDE DEF S
  <2> QED BY <1>6, <2>1, <2>2, <2>5, <2>6, <1>1 DEF long
<1> QED BY <1>3, <1>5, <1>6

----------------------------------------------------------------------------
\* A call at t leaves what is live to w and gives the commands cmds the chance
\* to go out: no performance is extended, one that is not let play on is
\* reached to t, the new ones keep what was accepted, and nothing new is due
\* before t.
Plays(c, w, cmds, t) ==
    /\ t \in Nat /\ now <= t /\ t <= now + c.gap
    /\ Player(c)!Tick(w, cmds, t)
    /\ issued' \in Nat /\ issued <= issued' /\ asked \subseteq asked'
    /\ DOMAIN plan' = 1 .. issued' /\ DOMAIN reach' = 1 .. issued'
    /\ \A g \in 1 .. issued : plan'[g] = plan[g]
    /\ DOMAIN w \subseteq 1 .. issued' /\ \A g \in DOMAIN w : w[g] \in Intervals
    /\ \A g \in DOMAIN w \cap 1 .. issued :
          /\ g \in DOMAIN window /\ w[g].until <= window[g].until
          /\ reach'[g] = w[g].until /\ now <= w[g].until
    /\ \A g \in DOMAIN window \ DOMAIN w :
          \/ window[g].until > t /\ reach'[g] = t
          \/ window[g].until <= t /\ reach'[g] = reach[g]
    /\ \A g \in (1 .. issued) \ (DOMAIN window \cup DOMAIN w) : reach'[g] = reach[g]
    /\ \A g \in issued + 1 .. issued' :
          g \in DOMAIN w /\ w[g] = plan'[g] /\ reach'[g] = plan'[g].until
    /\ cmds \subseteq pending \cup (asked' \ asked)
    /\ \A d \in pending : d \in cmds \/ d.gen \notin DOMAIN w
    /\ \A d \in asked' \ asked :
          /\ d \in cmds /\ d.gen \in issued + 1 .. issued' /\ d.at \in Nat /\ t <= d.at
          /\ plan'[d.gen].from <= d.at /\ d.at <= plan'[d.gen].until + 1

\* What goes out of cmds at t, with w live.
Due(c, w, cmds, t) ==
    {d \in cmds : /\ d.at <= t /\ t - d.at <= c.lateness
                  /\ d.gen \in DOMAIN w /\ w[d.gen].until > t /\ d.at < w[d.gen].until}

\* What such a call does to what is live and to the queue.
LEMMA PlaysMoves ==
    ASSUME NEW c, NEW w, NEW cmds, NEW t, Plays(c, w, cmds, t)
    PROVE  /\ now' = t
           /\ \A g : g \in DOMAIN window' <=> g \in DOMAIN w /\ w[g].until > t
           /\ \A g \in DOMAIN window' : window'[g] = w[g]
           /\ \A d : d \in pending' <=> d \in cmds /\ d.at > t
<1>1. /\ window' = Player(c)!Advanced(w, t)
      /\ pending' = Player(c)!Keep(cmds, t) /\ now' = t
  BY DEF Plays, Player!Tick
<1>2. /\ DOMAIN Player(c)!Advanced(w, t) = {g \in DOMAIN w : w[g].until > t}
      /\ \A g \in DOMAIN Player(c)!Advanced(w, t) : Player(c)!Advanced(w, t)[g] = w[g]
  BY DEF Player!Advanced
<1> QED BY <1>1, <1>2 DEF Player!Keep

\* What it does to the devices: a part of what is due is dropped behind a mute.
LEMMA PlaysOut ==
    ASSUME NEW c, NEW w, NEW cmds, NEW t, Plays(c, w, cmds, t)
    PROVE  \E mute \in SUBSET Due(c, w, cmds, t) :
              /\ sent' = sent \cup {[cmd |-> d, time |-> t] : d \in Due(c, w, cmds, t) \ mute}
              /\ silenced' = silenced \cup mute
<1> DEFINE live ==
            {d \in cmds : d.at <= t /\ Player(c)!CommandIsLive(d, Player(c)!Advanced(w, t), t)}
           mute == {d \in live : muted' /\ d.device = "audio"}
<1>1. /\ sent' = sent \cup {[cmd |-> d, time |-> t] : d \in live \ mute}
      /\ silenced' = silenced \cup mute
  BY DEF Plays, Player!Tick
<1>2. /\ DOMAIN Player(c)!Advanced(w, t) = {g \in DOMAIN w : w[g].until > t}
      /\ \A g \in DOMAIN Player(c)!Advanced(w, t) : Player(c)!Advanced(w, t)[g] = w[g]
  BY DEF Player!Advanced
<1>3. live = Due(c, w, cmds, t)
  BY <1>2 DEF Player!CommandIsLive, Due
<1>4. mute \in SUBSET live OBVIOUS
<1> HIDE DEF live, mute
<1> QED BY <1>1, <1>3, <1>4

\* How far a performance is let play never grows, and never shrinks into what
\* was played.
LEMMA ReachShrinks ==
    ASSUME NEW c, NEW w, NEW cmds, NEW t, PlayNumbers, Plays(c, w, cmds, t),
           NEW g \in 1 .. issued
    PROVE  /\ reach[g] \in Nat /\ reach'[g] \in Nat /\ reach'[g] <= reach[g]
           /\ now <= reach'[g] \/ reach'[g] = reach[g]
<1>1. /\ t \in Nat /\ now \in Nat /\ now <= t /\ reach[g] \in Nat
  BY DEF PlayNumbers, Plays
<1>2. \A h \in DOMAIN window : window[h].until \in Nat /\ reach[h] = window[h].until
  BY DEF PlayNumbers, Intervals
<1>3. \A h \in DOMAIN w : w[h].until \in Nat BY DEF Plays, Intervals
<1>4. CASE g \in DOMAIN w
  <2>1. /\ g \in DOMAIN window /\ w[g].until <= window[g].until
        /\ reach'[g] = w[g].until /\ now <= w[g].until
    BY <1>4 DEF Plays
  <2> QED BY <2>1, <1>1, <1>2, <1>3, <1>4
<1>5. CASE g \in DOMAIN window \ DOMAIN w
  <2>1. \/ window[g].until > t /\ reach'[g] = t
        \/ window[g].until <= t /\ reach'[g] = reach[g]
    BY <1>5 DEF Plays
  <2> QED BY <2>1, <1>1, <1>2, <1>5
<1>6. CASE g \notin DOMAIN window \cup DOMAIN w
  <2>1. reach'[g] = reach[g] BY <1>6 DEF Plays
  <2> QED BY <2>1, <1>1
<1> QED BY <1>4, <1>5, <1>6

\* The numbers of the timeline over a call that plays on.
LEMMA PlaysNumbers ==
    ASSUME NEW c, NEW w, NEW cmds, NEW t, PlayNumbers, Plays(c, w, cmds, t)
    PROVE  PlayNumbers'
<1>0. t \in Nat BY DEF Plays
<1>1. /\ now' = t /\ t \in Nat
      /\ \A g : g \in DOMAIN window' <=> g \in DOMAIN w /\ w[g].until > t
      /\ \A g \in DOMAIN window' : window'[g] = w[g]
      /\ \A d : d \in pending' <=> d \in cmds /\ d.at > t
  BY <1>0, PlaysMoves
<1>2. /\ issued \in Nat /\ issued' \in Nat /\ issued <= issued'
      /\ DOMAIN plan' = 1 .. issued' /\ DOMAIN reach' = 1 .. issued'
      /\ DOMAIN w \subseteq 1 .. issued' /\ \A g \in DOMAIN w : w[g] \in Intervals
  BY DEF PlayNumbers, Plays
<1>3. \A g \in 1 .. issued' : g \in 1 .. issued \/ g \in issued + 1 .. issued' BY <1>2
<1>4. ASSUME NEW g \in 1 .. issued'
      PROVE  plan'[g] \in Intervals /\ reach'[g] \in Nat /\ reach'[g] <= plan'[g].until
  <2>1. CASE g \in 1 .. issued
    <3>1. plan'[g] = plan[g] /\ plan[g] \in Intervals /\ reach[g] <= plan[g].until
      BY <2>1 DEF Plays, PlayNumbers
    <3>2. plan[g].until \in Nat BY <3>1 DEF Intervals
    <3>3. reach[g] \in Nat /\ reach'[g] \in Nat /\ reach'[g] <= reach[g]
      BY <2>1, ReachShrinks
    <3> QED BY <3>1, <3>2, <3>3
  <2>2. CASE g \in issued + 1 .. issued'
    <3>1. g \in DOMAIN w /\ w[g] = plan'[g] /\ reach'[g] = plan'[g].until
      BY <2>2 DEF Plays
    <3>2. plan'[g] \in Intervals BY <3>1, <1>2
    <3>3. plan'[g].until \in Nat BY <3>2 DEF Intervals
    <3> QED BY <3>1, <3>2, <3>3
  <2> QED BY <2>1, <2>2, <1>3
<1>5. ASSUME NEW g \in DOMAIN window'
      PROVE  window'[g] \in Intervals /\ reach'[g] = window'[g].until /\ now' < window'[g].until
  <2>1. g \in DOMAIN w /\ w[g].until > t /\ window'[g] = w[g] /\ w[g] \in Intervals
    BY <1>1, <1>2
  <2>2. reach'[g] = w[g].until
    <3>1. g \in 1 .. issued \/ g \in issued + 1 .. issued' BY <2>1, <1>2, <1>3
    <3> QED BY <3>1, <2>1 DEF Plays
  <2>3. w[g].until \in Nat BY <2>1 DEF Intervals
  <2> QED BY <2>1, <2>2, <2>3, <1>1
<1>6. DOMAIN window' \subseteq 1 .. issued' BY <1>1, <1>2
<1>7. ASSUME NEW d \in asked' PROVE d.gen \in 1 .. issued' /\ d.at \in Nat
  <2>1. CASE d \in asked
    <3>1. d.gen \in 1 .. issued /\ d.at \in Nat BY <2>1 DEF PlayNumbers
    <3> QED BY <3>1, <1>2
  <2>2. CASE d \in asked' \ asked
    <3>1. d.gen \in issued + 1 .. issued' /\ d.at \in Nat BY <2>2 DEF Plays
    <3> QED BY <3>1, <1>2
  <2> QED BY <2>1, <2>2
<1>8. pending' \subseteq asked'
  <2>1. cmds \subseteq pending \cup asked' /\ pending \subseteq asked /\ asked \subseteq asked'
    BY DEF Plays, PlayNumbers
  <2> QED BY <2>1, <1>1
<1>9. \A d \in pending' : now' < d.at
  <2>1. \A d \in pending' : d.at > t BY <1>1
  <2>2. \A d \in pending' : d.at \in Nat BY <1>7, <1>8
  <2> QED BY <2>1, <2>2, <1>1
<1> QED BY <1>1, <1>2, <1>4, <1>5, <1>6, <1>7, <1>8, <1>9 DEF PlayNumbers

\* A command goes out once.
LEMMA PlaysOnce ==
    ASSUME NEW c, NEW w, NEW cmds, NEW t, PlayNumbers, WentOnce(c), Plays(c, w, cmds, t)
    PROVE  WentOnce(c)'
<1> DEFINE live == Due(c, w, cmds, t)
<1>0. PICK mute \in SUBSET live :
        /\ sent' = sent \cup {[cmd |-> d, time |-> t] : d \in live \ mute}
        /\ silenced' = silenced \cup mute
  BY PlaysOut
<1>1. /\ live = {d \in cmds : /\ d.at <= t /\ t - d.at <= c.lateness
                               /\ d.gen \in DOMAIN w /\ w[d.gen].until > t
                               /\ d.at < w[d.gen].until}
      /\ mute \subseteq live
      /\ sent' = sent \cup {[cmd |-> d, time |-> t] : d \in live \ mute}
      /\ silenced' = silenced \cup mute
  BY <1>0 DEF Due
<1> HIDE DEF live
<1>2. /\ now' = t /\ t \in Nat /\ now \in Nat /\ now <= t
      /\ \A d : d \in pending' <=> d \in cmds /\ d.at > t
      /\ asked \subseteq asked' /\ cmds \subseteq pending \cup (asked' \ asked)
      /\ pending \subseteq asked
  <2>1. now' = t /\ \A d : d \in pending' <=> d \in cmds /\ d.at > t
    BY PlaysMoves
  <2>2. /\ t \in Nat /\ now \in Nat /\ now <= t
        /\ asked \subseteq asked' /\ cmds \subseteq pending \cup (asked' \ asked)
        /\ pending \subseteq asked
    BY DEF Plays, PlayNumbers
  <2> QED BY <2>1, <2>2
<1>3. PlayNumbers' BY PlaysNumbers
<1>4. \A d \in cmds : d \in asked' /\ d.at \in Nat /\ d.gen \in 1 .. issued'
  <2>1. \A d \in cmds : d \in asked' BY <1>2
  <2> QED BY <2>1, <1>3 DEF PlayNumbers
<1>5. \A d \in live :
          d \in cmds \ pending' /\ d.at <= t /\ t - d.at <= c.lateness /\ t <= reach'[d.gen]
  <2> SUFFICES ASSUME NEW d \in live
               PROVE  /\ d \in cmds \ pending' /\ d.at <= t /\ t - d.at <= c.lateness
                      /\ t <= reach'[d.gen]
    OBVIOUS
  <2>1. /\ d \in cmds /\ d.at <= t /\ t - d.at <= c.lateness
        /\ d.gen \in DOMAIN w /\ w[d.gen].until > t
    BY <1>1
  <2>2. d \notin pending'
    <3>1. d.at \in Nat BY <2>1, <1>4
    <3> QED BY <3>1, <2>1, <1>2
  <2>3. d.gen \in DOMAIN window' /\ window'[d.gen] = w[d.gen] BY <2>1, PlaysMoves
  <2>4. window'[d.gen] \in Intervals /\ reach'[d.gen] = window'[d.gen].until
    BY <2>3, <1>3 DEF PlayNumbers
  <2>5. window'[d.gen].until \in Nat BY <2>4 DEF Intervals
  <2> QED BY <2>1, <2>2, <2>3, <2>4, <2>5, <1>2
<1>6. \A d \in cmds : d \notin silenced /\ \A s \in sent : s.cmd # d
  BY <1>2 DEF WentOnce
<1>7. ASSUME NEW s \in sent
      PROVE  /\ s.cmd \in asked' \ pending' /\ s.time \in Nat
             /\ s.time <= now' /\ s.time <= reach'[s.cmd.gen]
             /\ s.cmd.at <= s.time /\ s.time - s.cmd.at <= c.lateness
  <2>1. /\ s.cmd \in asked \ pending /\ s.time \in Nat
        /\ s.time <= now /\ s.time <= reach[s.cmd.gen]
        /\ s.cmd.at <= s.time /\ s.time - s.cmd.at <= c.lateness
    BY DEF WentOnce
  <2>2. s.cmd \notin pending' BY <2>1, <1>2
  <2>3. s.cmd.gen \in 1 .. issued BY <2>1 DEF PlayNumbers
  <2>4. /\ reach[s.cmd.gen] \in Nat /\ reach'[s.cmd.gen] \in Nat
        /\ now <= reach'[s.cmd.gen] \/ reach'[s.cmd.gen] = reach[s.cmd.gen]
    BY <2>3, ReachShrinks
  <2>5. s.time <= reach'[s.cmd.gen] /\ s.time <= now' BY <2>1, <2>4, <1>2
  <2> QED BY <2>1, <2>2, <2>5, <1>2
<1>8. ASSUME NEW d \in live, NEW s, s = [cmd |-> d, time |-> t]
      PROVE  /\ s.cmd \in asked' \ pending' /\ s.time \in Nat
             /\ s.time <= now' /\ s.time <= reach'[s.cmd.gen]
             /\ s.cmd.at <= s.time /\ s.time - s.cmd.at <= c.lateness
  <2>1. s.cmd = d /\ s.time = t BY <1>8
  <2> QED BY <2>1, <1>2, <1>4, <1>5
<1>9. \A s \in sent' : s \in sent \/ \E d \in live \ mute : s = [cmd |-> d, time |-> t] BY <1>1
<1>10. ASSUME NEW s \in sent', NEW r \in sent', s.cmd = r.cmd PROVE s = r
  <2>1. CASE s \in sent /\ r \in sent BY <2>1, <1>10 DEF WentOnce
  <2>2. CASE s \notin sent /\ r \notin sent
    <3>1. PICK d \in live \ mute : s = [cmd |-> d, time |-> t] BY <2>2, <1>9
    <3>2. PICK e \in live \ mute : r = [cmd |-> e, time |-> t] BY <2>2, <1>9
    <3>3. s.cmd = d /\ r.cmd = e BY <3>1, <3>2
    <3> QED BY <3>1, <3>2, <3>3, <1>10
  <2>3. ASSUME NEW x \in sent, NEW y \in sent' \ sent PROVE x.cmd # y.cmd
    <3>1. PICK d \in live \ mute : y = [cmd |-> d, time |-> t] BY <1>9
    <3>2. y.cmd = d /\ d \in cmds BY <3>1, <1>1
    <3> QED BY <3>2, <1>6
  <2> QED BY <2>1, <2>2, <2>3, <1>10
<1>11. ASSUME NEW d \in silenced' PROVE d \in asked' \ pending' /\ \A s \in sent' : s.cmd # d
  <2>1. CASE d \in silenced
    <3>1. d \in asked \ pending /\ \A s \in sent : s.cmd # d BY <2>1 DEF WentOnce
    <3>2. d \notin cmds BY <2>1, <1>6
    <3>3. \A e \in live \ mute : e # d BY <3>2, <1>1
    <3>4. \A s \in sent' : s.cmd # d
      <4> TAKE s \in sent'
      <4>1. CASE s \in sent BY <4>1, <3>1
      <4>2. CASE s \notin sent
        <5>1. PICK e \in live \ mute : s = [cmd |-> e, time |-> t] BY <4>2, <1>9
        <5>2. s.cmd = e BY <5>1
        <5> QED BY <5>2, <3>3
      <4> QED BY <4>1, <4>2
    <3> QED BY <3>1, <3>2, <3>4, <1>2
  <2>2. CASE d \in mute
    <3>1. d \in cmds \ pending' BY <2>2, <1>1, <1>5
    <3>2. \A s \in sent' : s.cmd # d
      <4> TAKE s \in sent'
      <4>1. CASE s \in sent BY <4>1, <3>1, <1>6
      <4>2. CASE s \notin sent
        <5>1. PICK e \in live \ mute : s = [cmd |-> e, time |-> t] BY <4>2, <1>9
        <5>2. s.cmd = e BY <5>1
        <5> QED BY <5>2, <2>2
      <4> QED BY <4>1, <4>2
    <3> QED BY <3>1, <3>2, <1>4
  <2> QED BY <2>1, <2>2, <1>1
<1>12. ASSUME NEW s \in sent'
       PROVE  /\ s.cmd \in asked' \ pending' /\ s.time \in Nat
              /\ s.time <= now' /\ s.time <= reach'[s.cmd.gen]
              /\ s.cmd.at <= s.time /\ s.time - s.cmd.at <= c.lateness
  <2>1. CASE s \in sent BY <2>1, <1>7
  <2>2. CASE s \notin sent
    <3>1. PICK d \in live \ mute : s = [cmd |-> d, time |-> t] BY <2>2, <1>9
    <3> QED BY <3>1, <1>8
  <2> QED BY <2>1, <2>2
<1> QED BY <1>10, <1>11, <1>12 DEF WentOnce

\* A command far enough from the end of a performance is not missed.
LEMMA PlaysAwaited ==
    ASSUME NEW c, c.gap \in Nat \ {0}, c.lateness \in Nat, NEW w, NEW cmds, NEW t,
           PlayNumbers, Awaited(c), Plays(c, w, cmds, t)
    PROVE  Awaited(c)'
<1> SUFFICES ASSUME c.gap <= c.lateness + 1, NEW d \in asked',
                    reach'[d.gen] = plan'[d.gen].until, d.at + c.gap <= plan'[d.gen].until
             PROVE  \/ d \in silenced'
                    \/ \E s \in sent' : s.cmd = d
                    \/ d \in pending' /\ d.gen \in DOMAIN window'
  BY DEF Awaited
<1> DEFINE g == d.gen
           live == Due(c, w, cmds, t)
<1>1. PICK mute \in SUBSET live :
        /\ sent' = sent \cup {[cmd |-> e, time |-> t] : e \in live \ mute}
        /\ silenced' = silenced \cup mute
  BY PlaysOut
<1>2. /\ now' = t
      /\ \A h : h \in DOMAIN window' <=> h \in DOMAIN w /\ w[h].until > t
      /\ \A e : e \in pending' <=> e \in cmds /\ e.at > t
  BY PlaysMoves
<1>3. /\ t \in Nat /\ now \in Nat /\ now <= t /\ t <= now + c.gap
      /\ issued \in Nat /\ issued' \in Nat /\ issued <= issued'
  BY DEF Plays, PlayNumbers
<1>4. PlayNumbers' BY PlaysNumbers
<1>5. g \in 1 .. issued' /\ d.at \in Nat /\ plan'[g] \in Intervals BY <1>4 DEF PlayNumbers
<1>6. plan'[g].until \in Nat BY <1>5 DEF Intervals
\* What is due goes out.
<1>7. ASSUME d \in live PROVE d \in silenced' \/ \E s \in sent' : s.cmd = d
  <2>1. CASE d \in mute BY <2>1, <1>1
  <2>2. CASE d \notin mute
    <3>1. [cmd |-> d, time |-> t] \in sent' BY <2>2, <1>1, <1>7
    <3>2. [cmd |-> d, time |-> t].cmd = d OBVIOUS
    <3> QED BY <3>1, <3>2
  <2> QED BY <2>1, <2>2
<1> HIDE DEF live
\* What is live with enough of it left is handed out or stays.
<1>8. ASSUME d \in cmds, g \in DOMAIN w, w[g].until = plan'[g].until,
             t < d.at + c.gap, d.at > t \/ t - d.at <= c.lateness
      PROVE  \/ d \in silenced'
             \/ \E s \in sent' : s.cmd = d
             \/ d \in pending' /\ d.gen \in DOMAIN window'
  <2>1. w[g].until > t /\ d.at + c.gap <= w[g].until BY <1>8, <1>3, <1>5, <1>6
  <2>2. CASE d.at > t BY <2>1, <2>2, <1>2, <1>8
  <2>3. CASE d.at <= t
    <3>1. d.at < w[g].until BY <2>3, <2>1, <1>3, <1>5, <1>6, <1>8
    <3>2. t - d.at <= c.lateness BY <2>3, <1>3, <1>5, <1>8
    <3>3. d \in live BY <2>1, <2>3, <3>1, <3>2, <1>8 DEF live, Due
    <3> QED BY <3>3, <1>7
  <2> QED BY <2>2, <2>3, <1>3, <1>5
<1>9. CASE d \in asked
  <2>1. g \in 1 .. issued BY <1>9 DEF PlayNumbers
  <2>2. /\ reach[g] \in Nat /\ reach'[g] <= reach[g]
        /\ plan'[g] = plan[g] /\ reach[g] <= plan[g].until
    BY <2>1, ReachShrinks DEF Plays, PlayNumbers
  <2>3. reach[g] = plan[g].until BY <2>2, <1>6
  <2>4. \/ d \in silenced
        \/ \E s \in sent : s.cmd = d
        \/ d \in pending /\ g \in DOMAIN window
    BY <2>2, <2>3, <1>9 DEF Awaited
  <2>5. CASE d \in pending /\ g \in DOMAIN window
    <3>1. now < d.at /\ window[g].until = reach[g] BY <2>5 DEF PlayNumbers
    <3>2. window[g].until > t
      <4>1. d.at + c.gap <= reach[g] BY <2>2, <2>3
      <4> QED BY <4>1, <3>1, <2>2, <1>3, <1>5
    <3>3. g \in DOMAIN w
      <4>1. g \notin DOMAIN w => reach'[g] = t \/ window[g].until <= t BY <2>5 DEF Plays
      <4>2. reach'[g] = window[g].until BY <2>2, <2>3, <3>1
      <4> QED BY <4>1, <4>2, <3>1, <3>2, <2>2, <1>3
    <3>4. w[g].until = plan'[g].until BY <2>1, <3>3 DEF Plays
    <3>5. d \in cmds BY <2>5, <3>3 DEF Plays
    <3>6. t < d.at + c.gap /\ (d.at > t \/ t - d.at <= c.lateness)
      BY <3>1, <1>3, <1>5
    <3> QED BY <3>3, <3>4, <3>5, <3>6, <1>8
  <2>6. CASE d \in silenced BY <2>6, <1>1
  <2>7. CASE \E s \in sent : s.cmd = d BY <2>7, <1>1
  <2> QED BY <2>4, <2>5, <2>6, <2>7
<1>10. CASE d \in asked' \ asked
  <2>1. d \in cmds /\ g \in issued + 1 .. issued' /\ t <= d.at BY <1>10 DEF Plays
  <2>2. g \in DOMAIN w /\ w[g] = plan'[g] BY <2>1 DEF Plays
  <2>3. t < d.at + c.gap /\ (d.at > t \/ t - d.at <= c.lateness) BY <2>1, <1>3, <1>5
  <2> QED BY <2>1, <2>2, <2>3, <1>8
<1> QED BY <1>9, <1>10

\* A command lies in its performance.
LEMMA PlaysPlaced ==
    ASSUME NEW c, NEW w, NEW cmds, NEW t, PlayNumbers, Placed, Plays(c, w, cmds, t)
    PROVE  Placed'
<1> SUFFICES ASSUME NEW d \in asked'
             PROVE  plan'[d.gen].from <= d.at /\ d.at <= plan'[d.gen].until + 1
  BY DEF Placed
<1>1. CASE d \in asked
  <2>1. d.gen \in 1 .. issued BY <1>1 DEF PlayNumbers
  <2>2. plan'[d.gen] = plan[d.gen] BY <2>1 DEF Plays
  <2> QED BY <2>2, <1>1 DEF Placed
<1>2. CASE d \in asked' \ asked BY <1>2 DEF Plays
<1> QED BY <1>1, <1>2

\* How far each performance is let play when w is left at t.
LEMMA ReachIs ==
    ASSUME NEW c, NEW w, NEW t, PlayNumbers
    PROVE  /\ DOMAIN Player(c)!Reach(w, t) = 1 .. issued
           /\ \A g \in 1 .. issued :
                 /\ g \in DOMAIN w => Player(c)!Reach(w, t)[g] = w[g].until
                 /\ g \in DOMAIN window \ DOMAIN w =>
                       \/ window[g].until > t /\ Player(c)!Reach(w, t)[g] = t
                       \/ ~ (window[g].until > t) /\ Player(c)!Reach(w, t)[g] = reach[g]
                 /\ g \notin DOMAIN window \cup DOMAIN w => Player(c)!Reach(w, t)[g] = reach[g]
BY DEF PlayNumbers, Player!Reach

\* A call at t with nothing new, and the windows as they are or all dropped.
LEMMA QuietPlays ==
    ASSUME NEW c, c.gap \in Nat, PlayNumbers, NEW t \in Nat, Player(c)!OnTime(t),
           UNCHANGED <<issued, asked, plan>>, NEW w, NEW cmds, NEW v, Player(c)!Tick(w, cmds, t),
           reach' = Player(c)!Reach(v, t),
           \/ w = window /\ cmds = pending /\ v = Player(c)!Advanced(window, t)
           \/ DOMAIN w = {} /\ cmds \subseteq pending /\ v = w
    PROVE  Plays(c, w, cmds, t)
<1>1. /\ now <= t /\ t <= now + c.gap
      /\ issued' = issued /\ asked' = asked /\ plan' = plan
  BY DEF Player!OnTime
<1>2. /\ issued \in Nat /\ now \in Nat /\ DOMAIN plan = 1 .. issued
      /\ DOMAIN window \subseteq 1 .. issued /\ pending \subseteq asked
  BY DEF PlayNumbers
<1>3. \A g \in DOMAIN window :
        /\ window[g] \in Intervals /\ window[g].until \in Nat
        /\ reach[g] = window[g].until /\ now < window[g].until
  BY DEF PlayNumbers, Intervals
<1>4. DOMAIN reach' = 1 .. issued BY ReachIs
<1>5. CASE w = window /\ cmds = pending /\ v = Player(c)!Advanced(window, t)
  <2>1. /\ DOMAIN v = {h \in DOMAIN window : window[h].until > t}
        /\ \A g \in DOMAIN v : v[g] = window[g]
    BY <1>5 DEF Player!Advanced
  <2>2. ASSUME NEW g \in DOMAIN window PROVE reach'[g] = window[g].until /\ now <= window[g].until
    <3>1. g \in 1 .. issued BY <1>2
    <3>2. CASE g \in DOMAIN v BY <3>1, <3>2, <2>1, <1>2, <1>3, ReachIs
    <3>3. CASE g \notin DOMAIN v
      <4>1. ~ (window[g].until > t) BY <3>3, <2>1
      <4>2. reach'[g] = reach[g] BY <3>1, <3>3, <4>1, ReachIs
      <4> QED BY <4>2, <1>2, <1>3
    <3> QED BY <3>2, <3>3
  <2>3. ASSUME NEW g \in (1 .. issued) \ (DOMAIN window \cup DOMAIN w) PROVE reach'[g] = reach[g]
    BY <2>1, ReachIs
  <2>4. issued + 1 .. issued' = {} BY <1>1, <1>2
  <2>5. \A d \in pending : d \in cmds BY <1>5
  <2> QED BY <1>1, <1>2, <1>3, <1>4, <1>5, <2>2, <2>3, <2>4, <2>5 DEF Plays
<1>6. CASE DOMAIN w = {} /\ cmds \subseteq pending /\ v = w
  <2>1. ASSUME NEW g \in DOMAIN window \ DOMAIN w
        PROVE  \/ window[g].until > t /\ reach'[g] = t
               \/ window[g].until <= t /\ reach'[g] = reach[g]
    <3>1. g \in 1 .. issued /\ g \in DOMAIN window \ DOMAIN v BY <1>2, <1>6
    <3>2. \/ window[g].until > t /\ reach'[g] = t
          \/ ~ (window[g].until > t) /\ reach'[g] = reach[g]
      BY <3>1, ReachIs
    <3> QED BY <3>2, <1>3
  <2>2. ASSUME NEW g \in (1 .. issued) \ (DOMAIN window \cup DOMAIN w) PROVE reach'[g] = reach[g]
    BY <1>6, ReachIs
  <2>3. issued + 1 .. issued' = {} BY <1>1, <1>2
  <2>4. asked' \ asked = {} /\ cmds \subseteq pending BY <1>1, <1>6
  <2> QED BY <1>1, <1>2, <1>4, <1>6, <2>1, <2>2, <2>3, <2>4 DEF Plays
<1> QED BY <1>5, <1>6

\* tick
LEMMA AppTickPlays ==
    ASSUME NEW c, c.gap \in Nat, PlayNumbers, NEW t \in Nat, Player(c)!AppTick(t)
    PROVE  \E w, cmds : Plays(c, w, cmds, t)
<1>1. /\ Player(c)!OnTime(t) /\ UNCHANGED <<issued, asked, plan>>
      /\ Player(c)!Tick(window, pending, t)
      /\ reach' = Player(c)!Reach(Player(c)!Advanced(window, t), t)
  BY DEF Player!AppTick
<1> QED BY <1>1, QuietPlays

\* handle_control, mute and unmute
LEMMA MutePlays ==
    ASSUME NEW c, c.gap \in Nat, PlayNumbers, NEW t \in Nat, NEW on, Player(c)!Mute(t, on)
    PROVE  \E w, cmds : Plays(c, w, cmds, t)
<1>1. /\ Player(c)!OnTime(t) /\ UNCHANGED <<issued, asked, plan>>
      /\ Player(c)!Tick(window, pending, t)
      /\ reach' = Player(c)!Reach(Player(c)!Advanced(window, t), t)
  BY DEF Player!Mute
<1> QED BY <1>1, QuietPlays

\* stop and shutdown
LEMMA StopPlays ==
    ASSUME NEW c, c.gap \in Nat, PlayNumbers, NEW t \in Nat, Player(c)!Stop(t)
    PROVE  \E w, cmds : Plays(c, w, cmds, t)
<1> DEFINE none == [g \in {} |-> 0]
<1>1. /\ Player(c)!OnTime(t) /\ UNCHANGED <<issued, asked, plan>>
      /\ Player(c)!Tick(none, Player(c)!Purged(none), t)
      /\ reach' = Player(c)!Reach(none, t)
  BY DEF Player!Stop
<1>2. DOMAIN none = {} /\ Player(c)!Purged(none) \subseteq pending BY DEF Player!Purged
<1> HIDE DEF none
<1> QED BY <1>1, <1>2, QuietPlays

\* What accepting another plan at t leaves of the live windows.
LEMMA YieldedAre ==
    ASSUME NEW c, c.time \in Nat, NEW t \in Nat, PlayNumbers, NEW w \in Player(c)!Yielded(t)
    PROVE  /\ DOMAIN w \subseteq DOMAIN window
           /\ \A g \in DOMAIN w :
                 /\ w[g] \in Intervals /\ w[g].until <= window[g].until /\ t <= w[g].until
<1> DEFINE cuts(keep) == {f \in [keep -> t .. c.time] : \A g \in keep : f[g] <= window[g].until}
           ways(keep) == {[g \in keep |-> [window[g] EXCEPT !.until = cut[g]]] : cut \in cuts(keep)}
<1>0. w \in UNION {ways(keep) : keep \in SUBSET DOMAIN Player(c)!Advanced(window, t)}
  BY DEF Player!Yielded
<1> HIDE DEF ways
<1>1. PICK keep \in SUBSET DOMAIN Player(c)!Advanced(window, t) : w \in ways(keep) BY <1>0
<1>2. PICK cut \in [keep -> t .. c.time] :
         /\ \A g \in keep : cut[g] <= window[g].until
         /\ w = [g \in keep |-> [window[g] EXCEPT !.until = cut[g]]]
  BY <1>1 DEF ways
<1>3. keep \subseteq DOMAIN window BY <1>1 DEF Player!Advanced
<1>4. ASSUME NEW g \in keep
      PROVE  w[g] \in Intervals /\ w[g].until <= window[g].until /\ t <= w[g].until
  <2>1. window[g] \in Intervals /\ cut[g] \in t .. c.time /\ cut[g] \in Nat
    BY <1>2, <1>3 DEF PlayNumbers
  <2>2. w[g] = [window[g] EXCEPT !.until = cut[g]] BY <1>2
  <2>3. w[g] \in Intervals /\ w[g].until = cut[g] BY <2>1, <2>2 DEF Intervals
  <2> QED BY <2>1, <2>3, <1>2
<1>5. DOMAIN w = keep BY <1>2
<1> QED BY <1>3, <1>4, <1>5

\* schedule_asset, accepted
LEMMA SchedulePlays ==
    ASSUME NEW c, Player(c)!PlaybackAssumption, c.time \in Nat, PlayNumbers, NEW t \in Nat,
           NEW a \in c.assets, NEW speed \in c.speeds, NEW delay \in c.delays, NEW via, NEW group,
           Player(c)!ScheduleAsset(a, t, speed, delay, via, group)
    PROVE  \E w, cmds : Plays(c, w, cmds, t)
<1> DEFINE gen == issued + 1
           new(start) == Player(c)!DispatchAsset(a, gen, start, speed)
           placed(w, i) == [g \in DOMAIN w \cup {gen} |-> IF g = gen THEN i ELSE w[g]]
<1>1. Player(c)!OnTime(t) BY DEF Player!ScheduleAsset
<1>2. PICK w \in Player(c)!Yielded(t), slip \in 0 .. c.slip :
        LET start == t + delay + slip
            end   == start + Player(c)!Duration(a, speed)
            i     == [from |-> start, until |-> end]
        IN  /\ issued' = gen
            /\ plan' = [g \in DOMAIN plan \cup {gen} |->
                           IF g = gen THEN placed(w, i)[gen] ELSE plan[g]]
            /\ asked' = asked \cup new(start)
            /\ Player(c)!Tick(placed(w, i), pending \cup new(start), t)
            /\ reach' = [g \in DOMAIN plan' |->
                            IF g = gen THEN end ELSE Player(c)!Reach(w, t)[g]]
  BY DEF Player!ScheduleAsset
<1> DEFINE start == t + delay + slip
           end == start + Player(c)!Duration(a, speed)
           i == [from |-> start, until |-> end]
           p == placed(w, i)
           D == new(start)
<1>3. /\ issued' = gen
      /\ plan' = [g \in DOMAIN plan \cup {gen} |-> IF g = gen THEN p[gen] ELSE plan[g]]
      /\ asked' = asked \cup D
      /\ Player(c)!Tick(p, pending \cup D, t)
      /\ reach' = [g \in DOMAIN plan' |-> IF g = gen THEN end ELSE Player(c)!Reach(w, t)[g]]
  BY <1>2
<1>4. start \in Nat /\ t <= start /\ end \in Nat
  <2>1. delay \in Nat /\ c.slip \in Nat /\ slip \in Nat BY DEF Player!PlaybackAssumption
  <2>2. Player(c)!Duration(a, speed) \in Nat BY DurationCovers
  <2> QED BY <2>1, <2>2
<1>5. \A d \in D : /\ d.gen = gen /\ d.at \in Nat /\ start <= d.at
                   /\ d.at <= end + 1
  BY <1>4, DispatchLies
<1> HIDE DEF start, end
<1>6. i \in Intervals /\ i.from = start /\ i.until = end BY <1>4 DEF Intervals
<1> HIDE DEF i
<1>7. /\ DOMAIN p = DOMAIN w \cup {gen} /\ p[gen] = i
      /\ \A g \in DOMAIN w : g # gen => p[g] = w[g]
  OBVIOUS
<1> HIDE DEF p, D
<1>8. /\ issued \in Nat /\ now \in Nat /\ DOMAIN plan = 1 .. issued /\ gen \in Nat
      /\ DOMAIN window \subseteq 1 .. issued /\ pending \subseteq asked
      /\ \A d \in asked : d.gen \in 1 .. issued
  BY DEF PlayNumbers
<1>9. /\ DOMAIN w \subseteq DOMAIN window
      /\ \A g \in DOMAIN w :
            /\ w[g] \in Intervals /\ w[g].until <= window[g].until /\ t <= w[g].until
  BY YieldedAre
<1>10. /\ DOMAIN plan' = 1 .. issued' /\ plan'[gen] = i
       /\ \A g \in 1 .. issued : plan'[g] = plan[g] /\ g # gen
  BY <1>3, <1>7, <1>8
<1>11. /\ DOMAIN reach' = 1 .. issued' /\ reach'[gen] = end
       /\ \A g \in 1 .. issued : reach'[g] = Player(c)!Reach(w, t)[g]
  BY <1>3, <1>8, <1>10
<1>12. t \in Nat /\ now <= t /\ t <= now + c.gap BY <1>1 DEF Player!OnTime
<1>13. DOMAIN p \subseteq 1 .. issued' /\ \A g \in DOMAIN p : p[g] \in Intervals
  BY <1>3, <1>6, <1>7, <1>8, <1>9
<1>14. ASSUME NEW g \in DOMAIN p \cap 1 .. issued
       PROVE  /\ g \in DOMAIN window /\ p[g].until <= window[g].until
              /\ reach'[g] = p[g].until /\ now <= p[g].until
  <2>1. g \in DOMAIN w /\ p[g] = w[g] /\ g \in 1 .. issued BY <1>7, <1>8
  <2>2. reach'[g] = w[g].until BY <2>1, <1>11, ReachIs
  <2>3. w[g].until \in Nat /\ t <= w[g].until BY <2>1, <1>9 DEF Intervals
  <2> QED BY <2>1, <2>2, <2>3, <1>8, <1>9, <1>12
<1>15. ASSUME NEW g \in DOMAIN window \ DOMAIN p
       PROVE  \/ window[g].until > t /\ reach'[g] = t
              \/ window[g].until <= t /\ reach'[g] = reach[g]
  <2>1. g \in 1 .. issued /\ g \in DOMAIN window \ DOMAIN w BY <1>7, <1>8
  <2>2. \/ window[g].until > t /\ reach'[g] = t
        \/ ~ (window[g].until > t) /\ reach'[g] = reach[g]
    BY <2>1, <1>11, ReachIs
  <2>3. window[g].until \in Nat BY DEF PlayNumbers, Intervals
  <2> QED BY <2>2, <2>3, <1>12
<1>16. ASSUME NEW g \in (1 .. issued) \ (DOMAIN window \cup DOMAIN p) PROVE reach'[g] = reach[g]
  BY <1>7, <1>11, ReachIs
<1>17. ASSUME NEW g \in issued + 1 .. issued'
       PROVE  g \in DOMAIN p /\ p[g] = plan'[g] /\ reach'[g] = plan'[g].until
  <2>1. g = gen BY <1>3, <1>8
  <2> QED BY <2>1, <1>6, <1>7, <1>10, <1>11
<1>18. /\ asked \subseteq asked' /\ issued' \in Nat /\ issued <= issued' BY <1>3, <1>8
<1>19. pending \cup D \subseteq pending \cup (asked' \ asked)
  <2>1. \A d \in D : d \notin asked BY <1>5, <1>8
  <2> QED BY <2>1, <1>3
<1>20. ASSUME NEW d \in asked' \ asked
       PROVE  /\ d \in pending \cup D /\ d.gen \in issued + 1 .. issued'
              /\ d.at \in Nat /\ t <= d.at
              /\ plan'[d.gen].from <= d.at /\ d.at <= plan'[d.gen].until + 1
  <2>1. d \in D BY <1>3
  <2>2. d.gen = gen /\ d.at \in Nat /\ start <= d.at /\ d.at <= end + 1 BY <2>1, <1>5
  <2> QED BY <2>1, <2>2, <1>3, <1>4, <1>6, <1>8, <1>10
<1>21. Plays(c, p, pending \cup D, t)
  BY <1>3, <1>10, <1>11, <1>12, <1>13, <1>14, <1>15, <1>16, <1>17, <1>18, <1>19, <1>20
  DEF Plays
<1> QED BY <1>21

----------------------------------------------------------------------------
\* The model counts as the library does.
LEMMA PlayerCounts == ASSUME NEW c, NEW S PROVE Player(c)!Cardinality(S) = Cardinality(S)
BY DEF Player!Cardinality, Cardinality

\* A non-empty set of numbers has a least one.
LEMMA LeastExists ==
    ASSUME NEW S, S \subseteq Nat, S # {}
    PROVE  \E x \in S : \A y \in S : x <= y
<1>1. PICK x \in S : \A y \in S : ~ (<<y, x>> \in OpToRel(<, Nat))
  BY NatLessThanWellFounded, WFMin
<1>2. ASSUME NEW y \in S PROVE x <= y
  <2>1. x \in Nat /\ y \in Nat OBVIOUS
  <2>2. y < x => <<y, x>> \in OpToRel(<, Nat) BY <2>1 DEF OpToRel
  <2>3. ~ (y < x) BY <1>1, <2>2, Zenon
  <2> QED BY <2>1, <2>3
<1> QED BY <1>2

\* record_recent keeps the last ids of a group, as many as the window holds.
LEMMA RememberedIs ==
    ASSUME NEW c, c.recent \in Nat \ {0}, NEW old \in Seq(STRING), Len(old) <= c.recent,
           NEW id \in STRING
    PROVE  LET q == Player(c)!Remembered(old, id)
           IN  /\ q \in Seq(STRING) /\ Len(q) \in 1 .. c.recent /\ q[Len(q)] = id
<1> DEFINE new == Append(old, id)
           n == Len(old) + 1
           m == Player(c)!Max({1, n - c.recent + 1})
<1>1. /\ new \in Seq(STRING) /\ Len(new) = n /\ new[n] = id /\ n \in Nat
      /\ Len(old) \in Nat
  OBVIOUS
<1>2. m \in 1 .. n /\ n - m + 1 <= c.recent
  <2>1. n - c.recent + 1 \in Int /\ 1 \in Int BY <1>1
  <2>2. m \in {1, n - c.recent + 1} /\ m >= 1 /\ m >= n - c.recent + 1 BY <2>1, PlayerMaxOfTwo
  <2> HIDE DEF m
  <2> QED BY <2>1, <2>2, <1>1
<1>3. Player(c)!Remembered(old, id) = SubSeq(new, m, n) BY <1>1 DEF Player!Remembered
<1> HIDE DEF m, new
<1>4. /\ SubSeq(new, m, n) \in Seq(STRING) /\ Len(SubSeq(new, m, n)) = n - m + 1
      /\ SubSeq(new, m, n)[n - m + 1] = new[m + (n - m + 1) - 1]
  BY <1>1, <1>2, SubSeqProperties
<1>5. m + (n - m + 1) - 1 = n /\ n - m + 1 \in 1 .. c.recent BY <1>1, <1>2
<1> QED BY <1>1, <1>3, <1>4, <1>5

\* One more performance.
LEMMA PlaysAppend ==
    ASSUME plays \in Seq(Performances), NEW via \in {"intent", "asset"},
           NEW group \in STRING, NEW id \in STRING,
           plays' = Append(plays, [via |-> via, group |-> group, id |-> id])
    PROVE  /\ Len(plays) \in Nat /\ plays' \in Seq(Performances)
           /\ Len(plays') = Len(plays) + 1 /\ DOMAIN plays' = 1 .. Len(plays) + 1
           /\ DOMAIN plays = 1 .. Len(plays)
           /\ \A k \in 1 .. Len(plays) : plays'[k] = plays[k]
           /\ plays'[Len(plays) + 1].via = via /\ plays'[Len(plays) + 1].group = group
           /\ plays'[Len(plays) + 1].id = id
<1> DEFINE new == [via |-> via, group |-> group, id |-> id]
<1>1. new \in Performances /\ new.via = via /\ new.group = group /\ new.id = id
  BY DEF Performances
<1> HIDE DEF new
<1>2. plays' = Append(plays, new) BY DEF new
<1> QED BY <1>1, <1>2

\* Its group is the last one played.
LEMMA SinceGrows ==
    ASSUME plays \in Seq(Performances), NEW via \in {"intent", "asset"},
           NEW group \in STRING, NEW id \in STRING,
           plays' = Append(plays, [via |-> via, group |-> group, id |-> id]),
           NEW i \in DOMAIN plays
    PROVE  /\ i \in 1 .. Len(plays) /\ plays'[i] = plays[i]
           /\ Since(i)' = Since(i) \cup {group} /\ IsFiniteSet(Since(i))
           /\ LastOfGroup(i)' <=> LastOfGroup(i) /\ plays[i].group # group
<1> DEFINE n == Len(plays)
<1>1. /\ n \in Nat /\ Len(plays') = n + 1 /\ DOMAIN plays = 1 .. n
      /\ \A k \in 1 .. n : plays'[k] = plays[k]
      /\ plays'[n + 1].group = group
  BY PlaysAppend
<1>2. i \in 1 .. n BY <1>1
<1> HIDE DEF n
<1>3. i + 1 .. n + 1 = (i + 1 .. n) \cup {n + 1} BY <1>1, <1>2
<1>4. \A k \in i + 1 .. n : k \in 1 .. n BY <1>1, <1>2
<1>5. Since(i)' = {plays'[k].group : k \in i + 1 .. n + 1} BY <1>1 DEF Since
<1>6. Since(i) = {plays[k].group : k \in i + 1 .. n} BY DEF Since, n
<1>7. Since(i)' = Since(i) \cup {group} BY <1>1, <1>3, <1>4, <1>5, <1>6
<1>8. IsFiniteSet(Since(i))
  <2>0. i + 1 \in Int /\ n \in Int BY <1>1, <1>2
  <2>1. IsFiniteSet(i + 1 .. n) BY <2>0, FS_Interval
  <2> DEFINE f == [k \in i + 1 .. n |-> plays[k].group]
  <2>2. Since(i) = {f[k] : k \in i + 1 .. n} BY <1>6
  <2>3. f \in Surjection(i + 1 .. n, Since(i)) BY <2>2 DEF Surjection
  <2> QED BY <2>1, <2>3, FS_Surjection
<1>9. LastOfGroup(i)' <=> \A k \in i + 1 .. n + 1 : plays'[k].group # plays'[i].group
  BY <1>1 DEF LastOfGroup
<1>10. LastOfGroup(i) <=> \A k \in i + 1 .. n : plays[k].group # plays[i].group
  BY DEF LastOfGroup, n
<1>11. LastOfGroup(i)' <=> LastOfGroup(i) /\ plays[i].group # group
  BY <1>1, <1>2, <1>3, <1>4, <1>9, <1>10
<1> QED BY <1>1, <1>2, <1>7, <1>8, <1>11

\* record_recent: a group that makes room was touched before every other.
LEMMA VictimIs ==
    ASSUME NEW c, NEW K, DOMAIN touched = K, K # {}, \A g \in K : touched[g] \in Nat
    PROVE  Player(c)!Victim \in K /\ \A g \in K : touched[Player(c)!Victim] <= touched[g]
<1> DEFINE T == {touched[g] : g \in K}
<1>1. T \subseteq Nat /\ T # {} OBVIOUS
<1> HIDE DEF T
<1>2. PICK x \in T : \A y \in T : x <= y BY <1>1, LeastExists
<1>3. PICK v \in K : touched[v] = x BY DEF T
<1>4. \A h \in K : touched[v] <= touched[h] BY <1>2, <1>3 DEF T
<1>5. \E g \in DOMAIN touched : \A h \in DOMAIN touched : touched[g] <= touched[h] BY <1>3, <1>4
<1> QED BY <1>5 DEF Player!Victim

\* The memory of variants after one more performance.
LEMMA RecordKeeps ==
    ASSUME NEW c, c.recent \in Nat, c.groups \in Nat, plays \in Seq(Performances), Rotated(c),
           NEW via \in {"intent", "asset"}, NEW group \in STRING, NEW id \in STRING,
           plays' = Append(plays, [via |-> via, group |-> group, id |-> id]),
           Player(c)!RecordRecent(group, id)
    PROVE  Rotated(c)'
<1> SUFFICES ASSUME c.recent > 0, c.groups > 0 PROVE Rotated(c)' BY DEF Rotated
<1> DEFINE n == Len(plays)
           known == DOMAIN recent
           full == ~ (group \in known \/ Cardinality(known) < c.groups)
           v == Player(c)!Victim
           kept == IF full THEN known \ {v} ELSE known
           old == IF group \in known THEN recent[group] ELSE <<>>
           queue == Player(c)!Remembered(old, id)
<1>1. /\ n \in Nat /\ Len(plays') = n + 1 /\ DOMAIN plays' = 1 .. n + 1 /\ DOMAIN plays = 1 .. n
      /\ \A k \in 1 .. n : plays'[k] = plays[k]
      /\ plays'[n + 1].group = group /\ plays'[n + 1].id = id
  BY PlaysAppend
<1>2. /\ DOMAIN touched = known /\ IsFiniteSet(known) /\ Cardinality(known) <= c.groups
      /\ Cardinality(known) \in Nat
      /\ \A g \in known :
            /\ touched[g] \in DOMAIN plays /\ plays[touched[g]].group = g
            /\ LastOfGroup(touched[g])
            /\ recent[g] \in Seq(STRING) /\ Len(recent[g]) \in 1 .. c.recent
            /\ recent[g][Len(recent[g])] = plays[touched[g]].id
      /\ \A i \in DOMAIN plays : plays[i].group \notin known /\ LastOfGroup(i) =>
            Cardinality(Since(i)) >= c.groups
  BY FS_CardinalityType DEF Rotated
<1>3. /\ recent' = [g \in kept \cup {group} |-> IF g = group THEN queue ELSE recent[g]]
      /\ touched' = [g \in kept \cup {group} |-> IF g = group THEN n + 1 ELSE touched[g]]
  <2>1. ~ (c.recent = 0 \/ c.groups = 0) OBVIOUS
  <2> QED BY <2>1, PlayerCounts DEF Player!RecordRecent
<1>4. full => v \in known /\ \A g \in known : touched[v] <= touched[g]
  <2> SUFFICES ASSUME full PROVE v \in known /\ \A g \in known : touched[v] <= touched[g] OBVIOUS
  <2>1. known # {}
    <3>1. Cardinality({}) = 0 BY FS_EmptySet
    <3> QED BY <3>1, <1>2
  <2>2. \A g \in known : touched[g] \in Nat BY <1>1, <1>2
  <2> QED BY <2>1, <2>2, <1>2, VictimIs
<1>5. old \in Seq(STRING) /\ Len(old) <= c.recent
  <2>1. CASE group \in known BY <2>1, <1>2
  <2>2. CASE group \notin known BY <2>2
  <2> QED BY <2>1, <2>2
<1> HIDE DEF v, old
<1>6. queue \in Seq(STRING) /\ Len(queue) \in 1 .. c.recent /\ queue[Len(queue)] = id
  BY <1>5, RememberedIs
<1> HIDE DEF queue
<1>7. kept \subseteq known OBVIOUS
<1>8. /\ DOMAIN recent' = kept \cup {group} /\ DOMAIN touched' = kept \cup {group}
      /\ recent'[group] = queue /\ touched'[group] = n + 1
      /\ \A g \in kept : g # group => recent'[g] = recent[g] /\ touched'[g] = touched[g]
  BY <1>3
<1>9. IsFiniteSet(kept \cup {group}) /\ Cardinality(kept \cup {group}) <= c.groups
  <2>1. CASE group \in known
    <3>1. kept \cup {group} = known BY <2>1
    <3> QED BY <3>1, <1>2
  <2>2. CASE group \notin known /\ ~ full
    <3>1. Cardinality(known) < c.groups /\ kept = known BY <2>2
    <3>2. /\ IsFiniteSet(known \cup {group})
          /\ Cardinality(known \cup {group}) = Cardinality(known) + 1
      BY <2>2, <1>2, FS_AddElement
    <3>3. Cardinality(known) + 1 <= c.groups BY <3>1, <1>2
    <3>4. kept \cup {group} = known \cup {group} BY <3>1
    <3> HIDE DEF kept, known
    <3> QED BY <3>2, <3>3, <3>4
  <2>3. CASE group \notin known /\ full
    <3>1. kept = known \ {v} /\ v \in known BY <2>3, <1>4
    <3>2. IsFiniteSet(kept) /\ Cardinality(kept) = Cardinality(known) - 1
      BY <3>1, <1>2, FS_RemoveElement
    <3>3. group \notin kept BY <2>3, <3>1
    <3>4. /\ IsFiniteSet(kept \cup {group})
          /\ Cardinality(kept \cup {group}) = Cardinality(kept) + 1
      BY <3>2, <3>3, FS_AddElement
    <3> QED BY <3>2, <3>4, <1>2
  <2> QED BY <2>1, <2>2, <2>3
<1>10. ASSUME NEW g \in DOMAIN recent'
       PROVE  /\ touched'[g] \in DOMAIN plays' /\ plays'[touched'[g]].group = g
              /\ LastOfGroup(touched[g])'
              /\ recent'[g] \in Seq(STRING) /\ Len(recent'[g]) \in 1 .. c.recent
              /\ recent'[g][Len(recent'[g])] = plays'[touched'[g]].id
  <2>1. CASE g = group
    <3>1. touched'[g] = n + 1 /\ recent'[g] = queue BY <2>1, <1>8
    <3>2. LastOfGroup(n + 1)'
      <4>1. n + 1 + 1 .. Len(plays') = {} BY <1>1
      <4> QED BY <4>1, <1>1 DEF LastOfGroup
    <3>3. LastOfGroup(touched[g])' <=> LastOfGroup(n + 1)' BY <3>1, <1>1 DEF LastOfGroup
    <3> QED BY <2>1, <3>1, <3>2, <3>3, <1>1, <1>6
  <2>2. CASE g # group
    <3>1. g \in kept /\ g \in known BY <2>2, <1>8, <1>7
    <3>2. recent'[g] = recent[g] /\ touched'[g] = touched[g] BY <2>2, <3>1, <1>8
    <3>3. PICK i \in DOMAIN plays : i = touched[g] BY <3>1, <1>2
    <3>4. plays[i].group = g /\ LastOfGroup(i) BY <3>1, <3>3, <1>2
    <3>5. /\ i \in 1 .. n /\ plays'[i] = plays[i]
          /\ LastOfGroup(i)' <=> LastOfGroup(i) /\ plays[i].group # group
      BY SinceGrows
    <3>6. LastOfGroup(i)' BY <2>2, <3>4, <3>5
    <3>7. touched'[g] = i BY <3>2, <3>3
    <3>8. LastOfGroup(touched[g])' <=> LastOfGroup(i)' BY <3>7 DEF LastOfGroup
    <3>9. /\ recent[g] \in Seq(STRING) /\ Len(recent[g]) \in 1 .. c.recent
          /\ recent[g][Len(recent[g])] = plays[i].id
      BY <3>1, <3>3, <1>2
    <3>10. i \in DOMAIN plays' BY <3>5, <1>1
    <3> QED BY <3>2, <3>4, <3>5, <3>6, <3>7, <3>8, <3>9, <3>10
  <2> QED BY <2>1, <2>2
<1>11. ASSUME NEW i \in DOMAIN plays', plays'[i].group \notin DOMAIN recent', LastOfGroup(i)'
       PROVE  Cardinality(Since(i)') >= c.groups
  <2>1. i # n + 1 BY <1>1, <1>8, <1>11
  <2>2. i \in DOMAIN plays BY <2>1, <1>1
  <2>3. /\ i \in 1 .. n /\ plays'[i] = plays[i]
        /\ Since(i)' = Since(i) \cup {group} /\ IsFiniteSet(Since(i))
        /\ LastOfGroup(i) /\ plays[i].group # group
    BY <2>2, <1>11, SinceGrows
  <2>4. /\ IsFiniteSet(Since(i)') /\ Cardinality(Since(i)') \in Nat
        /\ Cardinality(Since(i)) \in Nat
    BY <2>3, FS_AddElement, FS_CardinalityType
  <2>5. CASE plays[i].group \notin known
    <3>1. Cardinality(Since(i)) >= c.groups BY <2>5, <2>2, <2>3, <1>2
    <3>2. Cardinality(Since(i)) <= Cardinality(Since(i)') BY <2>3, <2>4, FS_Subset
    <3> QED BY <3>1, <3>2, <2>4
  <2>6. CASE plays[i].group \in known
    <3>1. full /\ plays[i].group = v /\ v \in known
      <4>1. plays[i].group \notin kept BY <2>3, <1>8, <1>11
      <4> QED BY <4>1, <2>6, <1>4
    <3>2. \A k \in DOMAIN plays : k > i => plays[k].group # v
      <4>1. \A k \in i + 1 .. n : plays[k].group # v BY <2>3, <3>1 DEF LastOfGroup
      <4>2. \A k \in DOMAIN plays : k > i => k \in i + 1 .. n BY <1>1, <2>3
      <4> QED BY <4>1, <4>2
    <3>3. touched[v] \in 1 .. n /\ plays[touched[v]].group = v /\ touched[v] <= i
      <4>1. touched[v] \in 1 .. n /\ plays[touched[v]].group = v BY <3>1, <1>1, <1>2
      <4>2. ~ (touched[v] > i) BY <4>1, <3>2, <1>1
      <4> QED BY <4>1, <4>2, <2>3
    <3>4. touched[v] = i
      <4>1. ~ (touched[v] < i)
        <5> SUFFICES ASSUME touched[v] < i PROVE FALSE OBVIOUS
        <5>1. i \in touched[v] + 1 .. Len(plays) BY <2>3, <3>3
        <5>2. LastOfGroup(touched[v]) BY <3>1, <1>2
        <5>3. plays[i].group # plays[touched[v]].group BY <5>1, <5>2 DEF LastOfGroup
        <5> QED BY <5>3, <3>1, <3>3
      <4> QED BY <4>1, <3>3, <2>3
    <3>5. ASSUME NEW g \in known \ {v} PROVE g \in Since(i)
      <4>1. touched[g] \in 1 .. n /\ plays[touched[g]].group = g /\ touched[v] <= touched[g]
        BY <1>1, <1>2, <1>4, <3>1
      <4>2. touched[g] # i
        <5>1. plays[i].group # g BY <3>1
        <5> QED BY <5>1, <4>1
      <4>3. touched[g] \in i + 1 .. Len(plays) BY <4>1, <4>2, <3>4, <2>3
      <4> QED BY <4>1, <4>3 DEF Since
    <3>6. kept = known \ {v} /\ group \notin kept BY <3>1
    <3>7. kept \cup {group} \subseteq Since(i)' BY <3>5, <3>6, <2>3
    <3>8. IsFiniteSet(kept) /\ Cardinality(kept) = Cardinality(known) - 1
      BY <3>1, <3>6, <1>2, FS_RemoveElement
    <3>9. Cardinality(kept \cup {group}) = Cardinality(kept) + 1
      BY <3>6, <3>8, FS_AddElement
    <3>10. Cardinality(kept \cup {group}) <= Cardinality(Since(i)') BY <3>7, <2>4, FS_Subset
    <3>11. Cardinality(known) >= c.groups BY <3>1, <1>2
    <3> QED BY <3>8, <3>9, <3>10, <3>11, <1>2, <2>4
  <2> QED BY <2>5, <2>6
<1> QED BY <1>8, <1>9, <1>10, <1>11 DEF Rotated

\* The numbers up to m are m.
LEMMA UpTo == ASSUME NEW m \in Nat PROVE IsFiniteSet(1 .. m) /\ Cardinality(1 .. m) = m
<1>1. 1 \in Int /\ m \in Int OBVIOUS
<1>2. /\ IsFiniteSet(1 .. m)
      /\ Cardinality(1 .. m) = IF 1 > m THEN 0 ELSE m - 1 + 1
  BY <1>1, FS_Interval
<1> QED BY <1>2

\* A group with more variants than are remembered has a fresh one, and that is
\* not its last.
LEMMA FreshIs ==
    ASSUME NEW c, c.recent \in Nat, Rotated(c), c.recent > 0, c.groups > 0,
           NEW intent \in DOMAIN recent, Cardinality(Ids(c, intent)) > c.recent,
           NEW a \in Player(c)!Fresh(intent)
    PROVE  a.id # recent[intent][Len(recent[intent])]
<1> DEFINE q == recent[intent]
           R == {q[k] : k \in DOMAIN q}
<1>1. q \in Seq(STRING) /\ Len(q) \in 1 .. c.recent BY DEF Rotated
<1> HIDE DEF q
<1>2. IsFiniteSet(R) /\ Cardinality(R) <= c.recent
  <2>1. DOMAIN q = 1 .. Len(q) /\ Len(q) \in Nat BY <1>1
  <2>2. q \in Surjection(1 .. Len(q), R)
    <3>1. q = [k \in 1 .. Len(q) |-> q[k]] BY <1>1
    <3>2. q \in [1 .. Len(q) -> R] BY <3>1, <2>1
    <3> QED BY <3>2, <2>1 DEF Surjection
  <2>3. IsFiniteSet(1 .. Len(q)) /\ Cardinality(1 .. Len(q)) = Len(q)
    <3>1. Len(q) \in Nat BY <1>1
    <3> QED BY <3>1, UpTo
  <2>4. IsFiniteSet(R) /\ Cardinality(R) <= Cardinality(1 .. Len(q))
    BY <2>2, <2>3, FS_Surjection
  <2>5. Cardinality(R) \in Nat BY <2>4, FS_CardinalityType
  <2> QED BY <2>3, <2>4, <2>5, <1>1
<1>3. PICK x \in Ids(c, intent) : x \notin R
  <2>1. SUFFICES ASSUME Ids(c, intent) \subseteq R PROVE FALSE OBVIOUS
  <2>2. Cardinality(Ids(c, intent)) <= Cardinality(R) BY <2>1, <1>2, FS_Subset
  <2>3. Cardinality(Ids(c, intent)) \in Nat /\ Cardinality(R) \in Nat
    BY <2>1, <1>2, FS_Subset, FS_CardinalityType
  <2> QED BY <2>2, <2>3, <1>2
<1>4. PICK b \in c.assets : b.group = intent /\ b.id = x BY DEF Ids
<1>5. Player(c)!Range(q) = R BY DEF Player!Range
<1>6. LET all   == {e \in c.assets : e.group = intent}
          fresh == {e \in all : intent \notin DOMAIN recent \/ e.id \notin Player(c)!Range(q)}
      IN  Player(c)!Fresh(intent) = IF fresh = {} THEN all ELSE fresh
  BY DEF Player!Fresh, q
<1> HIDE DEF R
<1>7. a.id \notin R
  <2> DEFINE all == {e \in c.assets : e.group = intent}
             fresh == {e \in all : intent \notin DOMAIN recent \/ e.id \notin Player(c)!Range(q)}
  <2>1. b \in fresh BY <1>3, <1>4, <1>5
  <2>2. Player(c)!Fresh(intent) = fresh BY <2>1, <1>6
  <2>3. a \in fresh BY <2>2
  <2> QED BY <2>3, <1>5
<1>8. q[Len(q)] \in R BY <1>1 DEF R
<1> QED BY <1>7, <1>8 DEF q

\* An intent does not repeat its last variant.
LEMMA RepeatKeeps ==
    ASSUME NEW c, c.recent \in Nat, c.groups \in Nat, plays \in Seq(Performances), Rotated(c),
           NotRepeated(c),
           NEW via \in {"intent", "asset"}, NEW group \in STRING, NEW id \in STRING,
           plays' = Append(plays, [via |-> via, group |-> group, id |-> id]),
           via = "intent" => \E a \in Player(c)!Fresh(group) : a.id = id
    PROVE  NotRepeated(c)'
<1> DEFINE n == Len(plays)
<1>1. /\ n \in Nat /\ DOMAIN plays' = 1 .. n + 1 /\ DOMAIN plays = 1 .. n
      /\ \A k \in 1 .. n : plays'[k] = plays[k]
      /\ plays'[n + 1].via = via /\ plays'[n + 1].group = group /\ plays'[n + 1].id = id
  BY PlaysAppend
<1>2. SUFFICES ASSUME NEW i \in DOMAIN plays', NEW j \in DOMAIN plays', c.recent > 0, i < j,
                      plays'[i].group = plays'[j].group, plays'[j].via = "intent",
                      \A k \in i + 1 .. j - 1 : plays'[k].group # plays'[j].group,
                      Cardinality(Spanned(i, j)') <= c.groups,
                      Cardinality(Ids(c, plays'[j].group)) > c.recent
               PROVE  plays'[i].id # plays'[j].id
  BY DEF NotRepeated
<1>0. Spanned(i, j)' = {plays'[k].group : k \in i .. j} BY DEF Spanned
<1> HIDE DEF n
<1>3. i \in 1 .. n /\ plays'[i] = plays[i] /\ j \in 1 .. n + 1 BY <1>1, <1>2
<1>4. CASE j \in 1 .. n
  <2>1. \A k \in i .. j : k \in 1 .. n /\ plays'[k] = plays[k] BY <1>1, <1>3, <1>4
  <2>2. {plays'[k].group : k \in i .. j} = {plays[k].group : k \in i .. j} BY <2>1
  <2>3. plays'[j] = plays[j] /\ i \in DOMAIN plays /\ j \in DOMAIN plays BY <1>1, <1>3, <1>4
  <2>4. \A k \in i + 1 .. j - 1 : plays[k].group # plays[j].group
    <3>1. \A k \in i + 1 .. j - 1 : k \in i .. j BY <1>3, <1>4
    <3> QED BY <3>1, <2>1, <2>3, <1>2
  <2>5. /\ i < j /\ plays[i].group = plays[j].group /\ plays[j].via = "intent"
        /\ Cardinality({plays[k].group : k \in i .. j}) <= c.groups
        /\ Cardinality(Ids(c, plays[j].group)) > c.recent
    BY <2>2, <2>3, <1>0, <1>2, <1>3
  <2>6. plays[i].id # plays[j].id
    BY <2>3, <2>4, <2>5, <1>2 DEF NotRepeated, Spanned
  <2> QED BY <2>3, <2>6, <1>3
<1>5. CASE j = n + 1
  <2>1. plays[i].group = group /\ via = "intent" /\ i \in DOMAIN plays BY <1>1, <1>2, <1>3, <1>5
  <2>2. LastOfGroup(i)
    <3>1. \A k \in i + 1 .. n : k \in i + 1 .. j - 1 /\ plays'[k] = plays[k]
      BY <1>1, <1>3, <1>5
    <3>2. plays'[j].group = group BY <1>1, <1>5
    <3> QED BY <3>1, <3>2, <2>1, <1>2 DEF LastOfGroup, n
  <2>3. {plays'[k].group : k \in i .. j} = Since(i) \cup {group}
    <3>1. \A k \in i .. j : \/ k = i \/ k = n + 1
                            \/ k \in i + 1 .. n /\ plays'[k] = plays[k]
      BY <1>1, <1>3, <1>5
    <3>2. i \in i .. j /\ \A k \in i + 1 .. n : k \in i .. j /\ plays'[k] = plays[k]
      BY <1>1, <1>3, <1>5
    <3>3. Since(i) = {plays[k].group : k \in i + 1 .. n} BY DEF Since, n
    <3>4. plays'[i].group = group /\ plays'[n + 1].group = group BY <2>1, <1>1, <1>3
    <3> QED BY <3>1, <3>2, <3>3, <3>4
  <2>4. IsFiniteSet(Since(i)) BY <2>1, SinceGrows
  <2>5. group \notin Since(i) BY <2>1, <2>2 DEF Since, LastOfGroup
  <2>6. Cardinality(Since(i)) + 1 <= c.groups /\ Cardinality(Since(i)) \in Nat
    <3>1. Cardinality(Since(i) \cup {group}) = Cardinality(Since(i)) + 1
      BY <2>4, <2>5, FS_AddElement
    <3>2. Cardinality(Since(i) \cup {group}) <= c.groups BY <2>3, <1>0, <1>2
    <3> QED BY <3>1, <3>2, <2>4, FS_CardinalityType
  <2>7. c.groups > 0 /\ ~ (Cardinality(Since(i)) >= c.groups) BY <2>6
  <2>8. group \in DOMAIN recent BY <2>1, <2>2, <2>7, <1>2 DEF Rotated
  <2>9. /\ touched[group] \in DOMAIN plays /\ plays[touched[group]].group = group
        /\ LastOfGroup(touched[group])
        /\ recent[group][Len(recent[group])] = plays[touched[group]].id
    BY <2>7, <2>8, <1>2 DEF Rotated
  <2>10. touched[group] = i
    <3>1. PICK m \in 1 .. n : m = touched[group] BY <2>9, <1>1
    <3>2. ~ (m < i)
      <4>1. m < i => i \in m + 1 .. Len(plays) BY <1>3, <3>1 DEF n
      <4> QED BY <4>1, <3>1, <2>1, <2>9 DEF LastOfGroup
    <3>3. ~ (i < m)
      <4>1. i < m => m \in i + 1 .. Len(plays) BY <1>3, <3>1 DEF n
      <4> QED BY <4>1, <3>1, <2>1, <2>2, <2>9 DEF LastOfGroup
    <3> QED BY <3>1, <3>2, <3>3, <1>3
  <2>11. PICK a \in Player(c)!Fresh(group) : a.id = id BY <2>1
  <2>12. a.id # recent[group][Len(recent[group])]
    <3>1. Cardinality(Ids(c, group)) > c.recent BY <1>1, <1>2, <1>5
    <3> QED BY <3>1, <2>7, <2>8, <1>2, FreshIs
  <2> QED BY <2>9, <2>10, <2>11, <2>12, <1>1, <1>3, <1>5
<1> QED BY <1>1, <1>3, <1>4, <1>5

----------------------------------------------------------------------------
\* The variants and their memory while nothing new is played.
LEMMA RotationStays ==
    ASSUME NEW c, UNCHANGED <<recent, touched, plays>>,
           plays \in Seq(Performances), Rotated(c), NotRepeated(c)
    PROVE  /\ plays' \in Seq(Performances) /\ Rotated(c)' /\ NotRepeated(c)'
<1>1. recent' = recent /\ touched' = touched /\ plays' = plays OBVIOUS
<1>2. \A i : Since(i)' = Since(i) /\ (LastOfGroup(i)' <=> LastOfGroup(i))
  BY <1>1 DEF Since, LastOfGroup
<1>3. \A i, j : Spanned(i, j)' = Spanned(i, j) BY <1>1 DEF Spanned
<1>4. Rotated(c)' BY <1>1, <1>2 DEF Rotated
<1>5. NotRepeated(c)' BY <1>1, <1>3 DEF NotRepeated
<1> QED BY <1>1, <1>4, <1>5

\* A call that plays on, and what it does to the variants.
LEMMA PlaysKeep ==
    ASSUME NEW c, Player(c)!PlaybackAssumption, PlayInv(c),
           \E w, cmds, t : Plays(c, w, cmds, t),
           plays' \in Seq(Performances), Rotated(c)', NotRepeated(c)'
    PROVE  PlayInv(c)'
<1>1. PICK w, cmds, t : Plays(c, w, cmds, t) OBVIOUS
<1>2. c.gap \in Nat \ {0} /\ c.lateness \in Nat BY DEF Player!PlaybackAssumption
<1>3. PlayNumbers /\ WentOnce(c) /\ Awaited(c) /\ Placed BY DEF PlayInv
<1>4. PlayNumbers' BY <1>1, <1>3, PlaysNumbers
<1>5. WentOnce(c)' BY <1>1, <1>3, PlaysOnce
<1>6. Awaited(c)' BY <1>1, <1>2, <1>3, PlaysAwaited
<1>7. Placed' BY <1>1, <1>3, PlaysPlaced
<1> QED BY <1>4, <1>5, <1>6, <1>7 DEF PlayInv

\* A tick of the app: the timeline moves, the variants do not.
LEMMA AppTickKeeps ==
    ASSUME NEW c, Player(c)!PlaybackAssumption, PlayInv(c), NEW t \in Nat, Player(c)!AppTick(t)
    PROVE  PlayInv(c)'
<1>1. UNCHANGED <<recent, touched, plays>> BY DEF Player!AppTick
<1>2. c.gap \in Nat /\ PlayNumbers BY DEF Player!PlaybackAssumption, PlayInv
<1>3. \E w, cmds : Plays(c, w, cmds, t) BY <1>2, AppTickPlays
<1>4. plays' \in Seq(Performances) /\ Rotated(c)' /\ NotRepeated(c)'
  BY <1>1, RotationStays DEF PlayInv
<1> QED BY <1>3, <1>4, PlaysKeep

\* Muting drops commands and plays nothing new.
LEMMA MuteKeeps ==
    ASSUME NEW c, Player(c)!PlaybackAssumption, PlayInv(c), NEW t \in Nat, NEW on,
           Player(c)!Mute(t, on)
    PROVE  PlayInv(c)'
<1>1. UNCHANGED <<recent, touched, plays>> BY DEF Player!Mute
<1>2. c.gap \in Nat /\ PlayNumbers BY DEF Player!PlaybackAssumption, PlayInv
<1>3. \E w, cmds : Plays(c, w, cmds, t) BY <1>2, MutePlays
<1>4. plays' \in Seq(Performances) /\ Rotated(c)' /\ NotRepeated(c)'
  BY <1>1, RotationStays DEF PlayInv
<1> QED BY <1>3, <1>4, PlaysKeep

\* Stopping cuts what is live and plays nothing new.
LEMMA StopKeeps ==
    ASSUME NEW c, Player(c)!PlaybackAssumption, PlayInv(c), NEW t \in Nat, Player(c)!Stop(t)
    PROVE  PlayInv(c)'
<1>1. UNCHANGED <<recent, touched, plays>> BY DEF Player!Stop
<1>2. c.gap \in Nat /\ PlayNumbers BY DEF Player!PlaybackAssumption, PlayInv
<1>3. \E w, cmds : Plays(c, w, cmds, t) BY <1>2, StopPlays
<1>4. plays' \in Seq(Performances) /\ Rotated(c)' /\ NotRepeated(c)'
  BY <1>1, RotationStays DEF PlayInv
<1> QED BY <1>3, <1>4, PlaysKeep

\* An asset is played: its commands are queued and its variant remembered.
LEMMA ScheduleKeeps ==
    ASSUME NEW c, Player(c)!PlaybackAssumption, PlayInv(c), NEW t \in Nat,
           NEW a \in c.assets, NEW speed \in c.speeds, NEW delay \in c.delays,
           NEW via \in {"intent", "asset"}, NEW group \in STRING,
           Player(c)!ScheduleAsset(a, t, speed, delay, via, group),
           via = "intent" => a \in Player(c)!Fresh(group)
    PROVE  PlayInv(c)'
<1>1. /\ Player(c)!RecordRecent(group, a.id)
      /\ plays' = Append(plays, [via |-> via, group |-> group, id |-> a.id])
  BY DEF Player!ScheduleAsset
<1>2. /\ c.time \in Nat /\ c.recent \in Nat /\ c.groups \in Nat
      /\ PlayNumbers /\ plays \in Seq(Performances) /\ Rotated(c) /\ NotRepeated(c)
  BY DEF Player!PlaybackAssumption, PlayInv
<1>3. a.id \in STRING BY AssetIs
<1>4. \E w, cmds : Plays(c, w, cmds, t) BY <1>2, SchedulePlays
<1>5. plays' \in Seq(Performances) BY <1>1, <1>2, <1>3, PlaysAppend
<1>6. Rotated(c)' BY <1>1, <1>2, <1>3, RecordKeeps
<1>7. via = "intent" => \E e \in Player(c)!Fresh(group) : e.id = a.id OBVIOUS
<1>8. NotRepeated(c)' BY <1>1, <1>2, <1>3, <1>7, RepeatKeeps
<1> QED BY <1>4, <1>5, <1>6, <1>8, PlaysKeep

\* The invariant over a call into the app.
LEMMA PlayKeeps ==
    ASSUME NEW c, Player(c)!PlaybackAssumption, PlayInv(c), Player(c)!Next
    PROVE  PlayInv(c)'
<1>1. PICK t \in 0 .. c.time :
        \/ Player(c)!AppTick(t)
        \/ Player(c)!Stop(t)
        \/ \E on \in BOOLEAN : Player(c)!Mute(t, on)
        \/ \E s \in c.speeds, d \in c.delays :
              \/ \E i \in Player(c)!Intents : Player(c)!HandleEvent(t, i, s, d)
              \/ \E a \in c.assets : Player(c)!HandleAssetId(t, a, s, d)
  BY DEF Player!Next
<1>2. t \in Nat BY DEF Player!PlaybackAssumption
<1>3. CASE Player(c)!AppTick(t) BY <1>2, <1>3, AppTickKeeps
<1>4. CASE Player(c)!Stop(t) BY <1>2, <1>4, StopKeeps
<1>5. CASE \E on \in BOOLEAN : Player(c)!Mute(t, on) BY <1>2, <1>5, MuteKeeps
<1>6. ASSUME NEW s \in c.speeds, NEW d \in c.delays, NEW i \in Player(c)!Intents,
             Player(c)!HandleEvent(t, i, s, d)
      PROVE  PlayInv(c)'
  <2>1. i \in STRING BY AssetIs DEF Player!Intents
  <2>2. PICK a \in Player(c)!Fresh(i) : Player(c)!ScheduleAsset(a, t, s, d, "intent", i)
    BY <1>6 DEF Player!HandleEvent
  <2>3. a \in c.assets BY DEF Player!Fresh
  <2>4. "intent" \in {"intent", "asset"} OBVIOUS
  <2> QED BY <1>2, <2>1, <2>2, <2>3, <2>4, ScheduleKeeps
<1>7. ASSUME NEW s \in c.speeds, NEW d \in c.delays, NEW a \in c.assets,
             Player(c)!HandleAssetId(t, a, s, d)
      PROVE  PlayInv(c)'
  <2>1. a.group \in STRING BY AssetIs
  <2>2. Player(c)!ScheduleAsset(a, t, s, d, "asset", a.group)
    BY <1>7 DEF Player!HandleAssetId
  <2>3. "asset" \in {"intent", "asset"} /\ "asset" # "intent" OBVIOUS
  <2> QED BY <1>2, <2>1, <2>2, <2>3, ScheduleKeeps
<1> QED BY <1>1, <1>3, <1>4, <1>5, <1>6, <1>7

\* Before the first call.
LEMMA PlayInvInit ==
    ASSUME NEW c, Player(c)!PlaybackAssumption, Player(c)!Init PROVE PlayInv(c)
<1>1. /\ issued = 0 /\ now = 0 /\ pending = {} /\ asked = {} /\ sent = {} /\ silenced = {}
      /\ plays = <<>> /\ DOMAIN window = {} /\ DOMAIN plan = {} /\ DOMAIN reach = {}
      /\ DOMAIN recent = {} /\ DOMAIN touched = {}
  BY DEF Player!Init, Player!TimelineInit
<1>2. PlayNumbers BY <1>1 DEF PlayNumbers
<1>3. WentOnce(c) /\ Awaited(c) /\ Placed BY <1>1 DEF WentOnce, Awaited, Placed
<1>4. plays \in Seq(Performances) /\ DOMAIN plays = {} BY <1>1
<1>5. NotRepeated(c) BY <1>4 DEF NotRepeated
<1>6. IsFiniteSet({}) /\ Cardinality({}) = 0 BY FS_EmptySet
<1>7. c.groups \in Nat BY DEF Player!PlaybackAssumption
<1>8. Rotated(c) BY <1>1, <1>4, <1>6, <1>7 DEF Rotated
<1> QED BY <1>2, <1>3, <1>4, <1>5, <1>8 DEF PlayInv

\* What the invariant says.
LEMMA PlayInvSays ==
    ASSUME NEW c, PlayInv(c)
    PROVE  /\ Player(c)!AtMostOnce /\ Player(c)!NoStale /\ Player(c)!NoBacklog
           /\ Player(c)!CommandsDelivered /\ Player(c)!InsidePerformance
           /\ Player(c)!NoImmediateRepeat
<1>1. PlayNumbers /\ WentOnce(c) /\ Awaited(c) /\ Placed /\ NotRepeated(c) BY DEF PlayInv
<1>2. Player(c)!AtMostOnce BY <1>1 DEF WentOnce, Player!AtMostOnce
<1>3. Player(c)!NoStale BY <1>1 DEF WentOnce, Player!NoStale
<1>4. Player(c)!NoBacklog BY <1>1 DEF WentOnce, Player!NoBacklog
<1>5. Player(c)!InsidePerformance BY <1>1 DEF Placed, Player!InsidePerformance
<1>6. Player(c)!CommandsDelivered BY <1>1 DEF Awaited, Player!CommandsDelivered
<1>7. Player(c)!NoImmediateRepeat
  <2> SUFFICES ASSUME NEW i \in DOMAIN plays, NEW j \in DOMAIN plays, c.recent > 0, i < j,
                      plays[i].group = plays[j].group, plays[j].via = "intent",
                      \A k \in i + 1 .. j - 1 : plays[k].group # plays[j].group,
                      Cardinality({plays[k].group : k \in i .. j}) <= c.groups,
                      Cardinality({a.id : a \in {b \in c.assets : b.group = plays[j].group}})
                          > c.recent
               PROVE  plays[i].id # plays[j].id
    BY PlayerCounts DEF Player!NoImmediateRepeat
  <2> QED BY <1>1 DEF NotRepeated, Spanned, Ids
<1> QED BY <1>2, <1>3, <1>4, <1>5, <1>6, <1>7

\* Of the part that moves.
PlayHolds == part = "player" => \A c \in PlayLimits : c = limits => PlayInv(c)

\* At the start.
LEMMA PlayHoldsInit == Init => PlayHolds
<1> SUFFICES ASSUME Init, part = "player", NEW c \in PlayLimits, c = limits PROVE PlayInv(c)
  BY DEF PlayHolds
<1>1. PICK d \in PlayLimits : Player(d)!Init /\ (part = "player" => limits = d) BY DEF Init
<1>2. Player(d)!PlaybackAssumption BY PlayAssumption
<1> QED BY <1>1, <1>2, PlayInvInit

\* While another part moves.
LEMMA PlayHoldsKept == PlayHolds /\ UNCHANGED <<part, limits, playbackVars>> => PlayHolds'
<1> SUFFICES ASSUME PlayHolds, UNCHANGED <<part, limits, playbackVars>>,
                    part' = "player", NEW c \in PlayLimits, c = limits'
             PROVE  PlayInv(c)'
  BY DEF PlayHolds
<1>1. UNCHANGED <<issued, window, now, pending, recent, touched, plays, asked, plan, reach,
                  sent, silenced>>
  BY DEF playbackVars
<1>2. PlayInv(c) BY DEF PlayHolds
<1>3. PlayNumbers' BY <1>1, <1>2 DEF PlayInv, PlayNumbers
<1>4. WentOnce(c)' BY <1>1, <1>2 DEF PlayInv, WentOnce
<1>5. Awaited(c)' /\ Placed' BY <1>1, <1>2 DEF PlayInv, Awaited, Placed
<1>6. plays' \in Seq(Performances) /\ Rotated(c)' /\ NotRepeated(c)'
  BY <1>1, <1>2, RotationStays DEF PlayInv
<1> QED BY <1>3, <1>4, <1>5, <1>6 DEF PlayInv

\* The invariant over a step.
LEMMA PlayHoldsStep == PlayHolds /\ Next => PlayHolds'
<1> SUFFICES ASSUME PlayHolds, Next, part = "player", NEW c \in PlayLimits, c = limits
             PROVE  PlayInv(c)'
  BY DEF PlayHolds, Next
<1>1. PICK d \in PlayLimits : d = limits /\ Player(d)!Next BY DEF Next
<1>2. PlayInv(d) /\ Player(d)!PlaybackAssumption BY <1>1, PlayAssumption DEF PlayHolds
<1> QED BY <1>1, <1>2, PlayKeeps

\* A command goes out once, in time, inside its performance, never for a
\* performance that is over and never from behind a mute, and is not missed
\* while calls come often enough; an intent does not repeat its last variant,
\* for every set of assets, speeds and limits (app/src/lib.rs,
\* cached_playback.rs).
THEOREM PlaybackIsSound == Spec => []PlaybackSound
<1>1. Init => PlayHolds BY PlayHoldsInit
<1>2. PlayHolds /\ [Next]_<<part, limits, playbackVars, taskVars, reflexVars>> => PlayHolds'
  BY PlayHoldsStep, PlayHoldsKept
<1>3. PlayHolds => PlaybackSound
  <2> SUFFICES ASSUME PlayHolds, part = "player", NEW c \in PlayLimits, c = limits
               PROVE  /\ Player(c)!AtMostOnce /\ Player(c)!NoStale /\ Player(c)!NoBacklog
                      /\ Player(c)!CommandsDelivered /\ Player(c)!InsidePerformance
                      /\ Player(c)!NoImmediateRepeat
    BY DEF PlaybackSound
  <2>1. PlayInv(c) BY DEF PlayHolds
  <2> QED BY <2>1, PlayInvSays
<1> QED BY <1>1, <1>2, <1>3, PTL DEF Spec

=============================================================================
