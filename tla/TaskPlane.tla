------------------------------ MODULE TaskPlane ------------------------------
(***************************************************************************)
(* Agent tasks (AgentTask, TaskPlane) and the tools they run: a task is    *)
(* planned, executes its steps, waits for approvals, retries, is replanned *)
(* and verified, cancelled or expired, while tool executions that were     *)
(* started for it return at any later time (execute_verified_tool) and     *)
(* their evidence is recorded later still.  The time of a call is the      *)
(* caller's: a call may come with an earlier time than the last one.       *)
(***************************************************************************)
EXTENDS Integers, FiniteSets, FiniteSetsExt, Sequences

CONSTANTS
    Tasks,            \* task ids, numbered in the order of the active map
    Times,            \* times a call may carry
    MaxSteps, MaxObservations, MaxRetries, MaxReplans,   \* TaskLimits
    Lifetime,         \* max_lifetime_ms
    Ttl,              \* ttl of a pending commitment, at most max_pending_ttl_ms
    MaxActive,        \* max_active_tasks
    MaxRetained,      \* max_retained_tasks
    MaxCreated,       \* bound: tasks created in a behaviour
    MaxTools,         \* bound: tool executions whose evidence is not yet recorded
    ReuseIds          \* whether a caller creates a task under an id used before

TaskAssumption ==
    /\ Tasks \subseteq Nat \ {0} /\ Times \subseteq Nat
    /\ MaxSteps \in Nat \ {0} /\ MaxObservations \in Nat \ {0}
    /\ MaxRetries \in Nat /\ MaxReplans \in Nat
    /\ Lifetime \in Nat \ {0} /\ Ttl \in 1..Lifetime
    /\ MaxActive \in Nat \ {0} /\ MaxRetained \in Nat \ {0}
    /\ MaxCreated \in Nat /\ MaxTools \in Nat /\ ReuseIds \in BOOLEAN

VARIABLES
    active,    \* task id -> its AgentTask
    retained,  \* terminal tasks, oldest first
    tools,     \* executions in flight
    evidence,  \* evidence of executions that returned, not yet recorded
    created    \* tasks created so far (history)

vars == <<active, retained, tools, evidence, created>>

Terminal == {"completed", "failed", "cancelled", "not_verified", "expired"}

\* `step` is the step of Executing; `waits` the expiry of the commitment of
\* Waiting; `serial` and `base` are history: which creation this is, and the
\* generation its plan began with.
NewTask(id, t, serial) ==
    [id |-> id, state |-> "accepted", step |-> 0, waits |-> 0, steps |-> <<>>,
     observations |-> <<>>, updated |-> t, expires |-> t + Lifetime,
     generation |-> 0, retries |-> 0, replans |-> 0, serial |-> serial, base |-> 0]

Init ==
    /\ active = [id \in {} |-> 0] /\ retained = <<>>
    /\ tools = {} /\ evidence = {} /\ created = 0

-----------------------------------------------------------------------------
(* The plane.                                                              *)

\* TaskPlane::task: the active task, else the newest retained one of that id.
Known(id) == id \in DOMAIN active \/ \E k \in DOMAIN retained : retained[k].id = id

TaskOf(id) ==
    IF id \in DOMAIN active THEN active[id]
    ELSE retained[Max({k \in DOMAIN retained : retained[k].id = id})]

\* Newest MaxRetained of a sequence of terminal tasks.
Trimmed(s) == SubSeq(s, Max({1, Len(s) - MaxRetained + 1}), Len(s))

\* The one sequence of the ids in the order of the map.
Ascending(ids) ==
    {s \in [1..Cardinality(ids) -> ids] : \A j, k \in DOMAIN s : j < k => s[j] < s[k]}

\* accept_transition: the tasks of `changed` (id -> task) take the place of the
\* active ones; the terminal ones among them move to the retained queue in order.
AcceptAll(changed) ==
    LET over == {id \in DOMAIN changed : changed[id].state \in Terminal}
    IN  /\ active' = [id \in DOMAIN active \ over |->
                         IF id \in DOMAIN changed THEN changed[id] ELSE active[id]]
        /\ \E order \in Ascending(over) :
              retained' = Trimmed(retained \o [k \in DOMAIN order |-> changed[order[k]]])

Accept(id, task) == AcceptAll([i \in {id} |-> task])

Duplicate(id) == Known(id)

CreateTask(id, t) ==
    /\ created < MaxCreated
    /\ ~Duplicate(id) /\ Cardinality(DOMAIN active) < MaxActive
    /\ ReuseIds \/ id = created + 1
    /\ created' = created + 1
    /\ active' = [i \in DOMAIN active \cup {id} |->
                     IF i = id THEN NewTask(id, t, created + 1) ELSE active[i]]
    /\ UNCHANGED <<retained, tools, evidence>>

-----------------------------------------------------------------------------
(* The transitions of one task.  A call that fails changes nothing.        *)

Step(id, task) == Accept(id, task) /\ UNCHANGED <<tools, evidence, created>>

In(id, states) == id \in DOMAIN active /\ active[id].state \in states

OnTime(id, t) == t >= active[id].updated

BeginPlanning(id, t) ==
    /\ In(id, {"accepted"}) /\ OnTime(id, t)
    /\ Step(id, [active[id] EXCEPT !.state = "planning", !.updated = t])

AddStep(id) ==
    /\ In(id, {"planning"}) /\ Len(active[id].steps) < MaxSteps
    /\ Step(id, [active[id] EXCEPT !.steps = Append(@, "pending")])

MarkReady(id, t) ==
    /\ In(id, {"planning"}) /\ active[id].steps # <<>> /\ OnTime(id, t)
    /\ Step(id, [active[id] EXCEPT !.state = "ready", !.updated = t])

\* Approval and dependency differ only in the words of the outcome.
WaitFor(id, t) ==
    /\ In(id, {"ready"}) /\ OnTime(id, t)
    /\ Step(id, [active[id] EXCEPT !.state = "waiting", !.updated = t,
                                   !.waits = Min({t + Ttl, active[id].expires})])

CommitmentOver(task, t) == t >= task.waits

\* expire_if_needed for a task that is active; itself if nothing is over.
Expired(task, t) ==
    IF t >= task.expires
    THEN [task EXCEPT !.state = "expired", !.generation = @ + 1, !.updated = t]
    ELSE IF task.state = "waiting" /\ CommitmentOver(task, t)
    THEN [task EXCEPT !.state = "not_verified", !.generation = @ + 1, !.updated = t]
    ELSE task

Resume(id, t) ==
    /\ In(id, {"waiting"}) /\ OnTime(id, t)
    /\ LET task == Expired(active[id], t)
       IN  Step(id, IF task # active[id] THEN task
                    ELSE [task EXCEPT !.state = "ready", !.updated = t])

ExecutionGeneration(task) == task.generation + 1

BeginExecution(id, k, t) ==
    /\ In(id, {"ready"}) /\ OnTime(id, t)
    /\ k \in DOMAIN active[id].steps /\ active[id].steps[k] = "pending"
    /\ Step(id, [active[id] EXCEPT !.state = "executing", !.step = k, !.updated = t,
                                   !.generation = ExecutionGeneration(active[id]),
                                   !.steps[k] = "executing"])

FinishStep(id, t) ==
    /\ In(id, {"executing"}) /\ OnTime(id, t)
    /\ LET steps == [active[id].steps EXCEPT ![active[id].step] = "executed"]
           all   == \A k \in DOMAIN steps : steps[k] = "executed"
       IN  Step(id, [active[id] EXCEPT !.steps = steps, !.updated = t,
                         !.state = IF all THEN "verifying" ELSE "ready"])

RetryCurrentStep(id, t) ==
    /\ In(id, {"executing"}) /\ active[id].retries < MaxRetries /\ OnTime(id, t)
    /\ Step(id, [active[id] EXCEPT !.state = "ready", !.updated = t,
                     !.retries = @ + 1, !.generation = @ + 1,
                     !.steps[active[id].step] = "pending"])

ReplannedSteps(task) == <<>>

Replan(id, t) ==
    /\ In(id, {"ready", "verifying"}) /\ active[id].replans < MaxReplans /\ OnTime(id, t)
    /\ Step(id, [active[id] EXCEPT !.state = "planning", !.updated = t,
                     !.replans = @ + 1, !.generation = @ + 1, !.base = active[id].generation + 1,
                     !.steps = ReplannedSteps(active[id]), !.observations = <<>>])

Cancel(id, t) ==
    /\ id \in DOMAIN active /\ OnTime(id, t)
    /\ Step(id, [active[id] EXCEPT !.state = "cancelled", !.generation = @ + 1, !.updated = t])

\* commit_verification: the verifier's answer, for the generation it looked at.
CommitVerification(id, expected, outcome, t) ==
    /\ In(id, {"verifying"}) /\ active[id].generation = expected /\ OnTime(id, t)
    /\ Step(id, [active[id] EXCEPT !.state = outcome, !.updated = t])

\* expire goes through the ids in order, up to a task whose time is ahead of t;
\* the tasks before it stay expired although the call fails.
Walked(t) ==
    {id \in DOMAIN active :
        \A a \in DOMAIN active : active[a].updated > t => id < a}
Expirations(t) == [id \in Walked(t) |-> Expired(active[id], t)]
Expire(t) == AcceptAll(Expirations(t)) /\ UNCHANGED <<tools, evidence, created>>

-----------------------------------------------------------------------------
(* Tools.  The generation a result must match is the caller's, taken when  *)
(* the execution starts; the task is read again when the tool returns.     *)

StartTool(id) ==
    /\ In(id, {"executing"}) /\ Cardinality(tools) + Cardinality(evidence) < MaxTools
    /\ tools' = tools \cup {[id |-> id, expected |-> active[id].generation,
                             serial |-> active[id].serial]}
    /\ UNCHANGED <<active, retained, evidence, created>>

\* Mutant: the fence is not looked at.
IgnoreFence(tool, result) == result

\* verify_tool_result: the fence decides before the result does.
VerifyToolResult(tool, result) ==
    CASE TaskOf(tool.id).state = "cancelled"                 -> "cancelled"
      [] TaskOf(tool.id).state # "cancelled"
         /\ TaskOf(tool.id).generation # tool.expected       -> "stale"
      [] OTHER                                               -> result

\* The adapter answers; if the task is gone or the adapter fails, no evidence.
ToolReturns(tool) ==
    /\ tool \in tools /\ tools' = tools \ {tool}
    /\ \/ UNCHANGED evidence
       \/ /\ Known(tool.id)
          /\ \E result \in {"verified", "failed", "not_proven"} :
                evidence' = evidence \cup
                    {[tool |-> tool, verification |-> VerifyToolResult(tool, result)]}
    /\ UNCHANGED <<active, retained, created>>

\* record_tool_evidence: only an executing task of that generation takes it.
\* Mutant: the generation is not compared.
TakesAny(e) == In(e.tool.id, {"executing"})

Takes(e) == In(e.tool.id, {"executing"}) /\ active[e.tool.id].generation = e.tool.expected

RecordToolEvidence(e) ==
    /\ e \in evidence /\ evidence' = evidence \ {e}
    /\ IF Takes(e)
       THEN LET task == active[e.tool.id]
                old  == IF Len(task.observations) = MaxObservations
                        THEN Tail(task.observations) ELSE task.observations
                new  == [step |-> task.step, generation |-> e.tool.expected,
                         verification |-> e.verification, serial |-> e.tool.serial]
            IN  active' = [active EXCEPT ![e.tool.id].observations = Append(old, new)]
       ELSE UNCHANGED active
    /\ UNCHANGED <<retained, tools, created>>

-----------------------------------------------------------------------------
Next ==
    \/ \E id \in Tasks, t \in Times :
          \/ CreateTask(id, t)
          \/ BeginPlanning(id, t)
          \/ MarkReady(id, t)
          \/ WaitFor(id, t)
          \/ Resume(id, t)
          \/ \E k \in 1..MaxSteps : BeginExecution(id, k, t)
          \/ FinishStep(id, t)
          \/ RetryCurrentStep(id, t)
          \/ Replan(id, t)
          \/ Cancel(id, t)
          \/ \E out \in {"completed", "failed", "cancelled", "not_verified"},
                g \in {active[i].generation : i \in DOMAIN active} :
                CommitVerification(id, g, out, t)
    \/ \E id \in Tasks : AddStep(id) \/ StartTool(id)
    \/ \E t \in Times : Expire(t)
    \/ \E tool \in tools : ToolReturns(tool)
    \/ \E e \in evidence : RecordToolEvidence(e)

Spec == Init /\ [][Next]_vars

-----------------------------------------------------------------------------
(* Properties.                                                             *)

AllTasks == {active[id] : id \in DOMAIN active} \cup {retained[k] : k \in DOMAIN retained}

\* Every queue and counter of a task keeps to its limit, the plane keeps to its
\* own, active tasks are not terminal and retained ones are.
TypeOK ==
    /\ Cardinality(DOMAIN active) <= MaxActive /\ Len(retained) <= MaxRetained
    /\ \A id \in DOMAIN active : active[id].id = id /\ active[id].state \notin Terminal
    /\ \A k \in DOMAIN retained : retained[k].state \in Terminal
    /\ \A task \in AllTasks :
          /\ Len(task.steps) <= MaxSteps /\ Len(task.observations) <= MaxObservations
          /\ task.retries <= MaxRetries /\ task.replans <= MaxReplans

\* An id names one task at a time: no two tasks of the plane share it, also not
\* an active and a retained one (create_task refuses a known id).
OneTaskPerId == \A a, b \in AllTasks : a.id = b.id => a.serial = b.serial

\* Steps and state agree: a plan starts with nothing done, exactly the executing
\* step is executing, and a task that is verified, completed or failed executed
\* every step of its last plan (finish_step, retry_current_step, replan).
StepsMatchState ==
    \A task \in AllTasks :
        /\ task.state \in {"accepted", "planning"} =>
              \A k \in DOMAIN task.steps : task.steps[k] = "pending"
        /\ task.state = "executing" =>
              {k \in DOMAIN task.steps : task.steps[k] = "executing"} = {task.step}
        /\ task.state \in {"ready", "waiting", "verifying", "completed"} =>
              \A k \in DOMAIN task.steps : task.steps[k] # "executing"
        /\ task.state \in {"verifying", "completed", "failed"} =>
              /\ task.steps # <<>>
              /\ \A k \in DOMAIN task.steps : task.steps[k] = "executed"

\* A retry, a replan or a cancellation leaves what ran before it behind:
\* evidence that ended as verified and is attached to a task comes from a tool
\* that was started for this very attempt, of this very task.
EvidenceCurrent ==
    \A task \in AllTasks : \A k \in DOMAIN task.observations :
        LET o == task.observations[k]
        IN  /\ o.serial = task.serial
            /\ o.generation >= task.base /\ o.generation <= task.generation
            /\ o.step \in DOMAIN task.steps

\* A tool execution whose task was retried, replanned, cancelled or expired
\* since is never reported as verified (execute_verified_tool re-reads the task).
FencedStep ==
    \A e \in evidence' \ evidence :
       (\E task \in AllTasks : task.serial = e.tool.serial
                               /\ task.generation # e.tool.expected)
          => e.verification \in {"stale", "cancelled"}
FencedTools == [][FencedStep]_vars

\* The evidence attached under one generation is one attempt's: no two tools
\* that ran for different attempts share the generation.
AttemptsStep ==
    \A id \in DOMAIN active \cap DOMAIN active' :
       (active[id].serial = active'[id].serial
        /\ active'[id].state = "executing" /\ active[id].state # "executing")
          => active'[id].generation \notin
                {tool.expected : tool \in {x \in tools : x.serial = active[id].serial}}
AttemptsDiffer == [][AttemptsStep]_vars

Ahead(id, t) == \E a \in DOMAIN active : active[a].updated > t /\ a <= id
OverBy(task, t) == t >= task.expires \/ (task.state = "waiting" /\ t >= task.waits)

\* expire, also a call that fails at a task whose own time is ahead of t, brings
\* every task before that one to its end if it is over by t; so said of what a
\* call would do, since a call that wrongly changes nothing is no step.
ExpireSettles ==
    \A t \in Times : \A id \in DOMAIN active :
       ~Ahead(id, t) =>
          /\ id \in DOMAIN Expirations(t)
          /\ Expirations(t)[id].state \in Terminal \/ ~OverBy(Expirations(t)[id], t)

\* And once the call has returned none of them is active.
ExpireStep ==
    \A t \in Times : Expire(t) =>
       \A id \in DOMAIN active' : ~Ahead(id, t) => ~OverBy(active'[id], t)

\* A task is over when its lifetime is: it completes only within it.
CompletesInTime ==
    \A task \in AllTasks : task.state = "completed" => task.updated < task.expires
=============================================================================
