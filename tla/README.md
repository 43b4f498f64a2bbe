# A verification project for aivtuber

TLA+ models of the performer runtime in `src/crates`, the TLC configurations that
check them on small instances, and TLAPS proofs of the main safety properties for
every value of the constants. `PROJECT.json` maps each definition to the lines it
translates and lists runs, mutants, hazards, findings and theorems.

Contents: [inventory](#1-inventory), [how the project is built](#2-how-the-project-is-built),
[modules](#3-modules), [runs](#4-runs), [fairness](#5-fairness), [proofs](#6-proofs),
[findings](#7-findings), [what is not shown](#8-what-is-not-shown), [plan](#9-plan),
[running](#10-running).

## 1. Inventory

The program turns a stream of untrusted content events (chat, donations, speech,
game) and authenticated operator commands into timed performances of a virtual
character. One thread, the composition thread, owns almost everything; the rest is
reached through bounded queues.

```
 stdin ─ reader thread ─► raw queue ─┐
                                     ▼
 operator socket ─ tokio ─► op queue ─► main loop ─► ProductionApp ──► Scheduler ─► playback commands ─► audio / avatar
                                                        │  ▲
                                            work queue  │  │ completion mailbox
                                                        ▼  │
                                                   generation worker ─► LLM / TTS
                                                   shadow workers (a second pool, evidence only)
```

| Component | State it keeps | Operations | What makes it correct |
|---|---|---|---|
| Scheduler | live items, two position indexes, cooldowns, history ring, logical time | `schedule(_at)`, `advance_to`, `stop_all`, `stop_current`, `complete_all`, `drain_history` | conflicting items never overlap; preemption only at safe points; indexes exact under compaction; every accepted item accounted for once; every call ends |
| Generation execution | work queue, mailbox, three counters, cancellation registry | submit, worker handoffs, pipeline, drain, commit fence, override, shutdown, drop, snapshot | no job lost or counted twice; quiescence never reported early; nothing overtaken is committed; the worker is never stuck |
| Main loop, operator control | raw queue, operator queue, rate limiter, uptime | receive, drain operator requests, tick, shutdown | stop and mute take effect however busy content is; every request is answered |
| Raw ingress | bounded queue, counters | read, cut, queue, drop newest | bounded memory, exact accounting |
| Security runtime | token buckets, content queue, control, audit ring, correlation registry | admit, pop, control | rates hold in every window; registry and audit are exact |
| Event path | two bounded rings, the planner's last decision, deferred contexts | handle, defer, drain, record | each event recorded once, under its own reason |
| Device links | one session, subscriptions, backoff, pushed events | call, handshake, read, poll | an action at most once; an answer for its request; events neither lost nor repeated |
| Budget governor | rolling ledgers, in-flight slots | admit, settle, release, drop | limits hold per window; slots never leak |
| Shadow plane | queue, live tokens, mailbox, gauges; batches of evidence | stage, supersede, commit, publish, drain, shutdown; classify, aggregate | evidence of superseded work is never published; rates rest on what is comparable |
| Playback, cached performer | pending commands, mute, recent variants | tick, handle, stop, mute | nothing cancelled, late or muted reaches a device |
| Agent tasks | active and retained tasks, tools in flight | the task life cycle, tool execution across an await | evidence belongs to the attempt it is attached to |
| Reflex plane | index; one call with attempts and its future | retrieve, post, retry, normalise, poll | retries bounded; no wake-up lost; an action was earned |
| Working memory, adaptation, asset store | entries and links; feedback; files, index, hot cache | write, expire, evict; label, apply; insert, refresh, remove, restart | links sound; no resurrection; counts belong to the current asset |
| Evaluation and telemetry programs | reports | window, pool, compare, replay, soak, bundle | verdicts rest on evidence |

How they interact. The main loop calls the app, which calls the scheduler
(`&mut self`, never concurrently). The app and the generation worker share two
channels, three `SeqCst` counters, the shutdown flag and one cancellation token per
generation; the shadow pool shares a mutex-protected queue, a registry of tokens, a
mailbox and gauges. The operator endpoint talks to the main loop through a queue
and a one-shot reply. Time is logical for the scheduler (the caller passes it) and
real for provider deadlines.

What is hard here: vectors compacted while they are walked; arithmetic that
saturates; a job that moves between counters while another thread reads them one by
one; completions that arrive after they have been overtaken; one registry slot for
several outstanding generations; a worker that blocks on a bounded mailbox;
shutdown, a dropped app or a panicking provider at any of these points; a main loop
whose early `continue` decides what else gets to run; a tool that returns to another
plan than the one it was started for; a session that breaks between a request and
its answer; files and an index that change in separate steps. `PROJECT.json` lists
each at its line under `hazards`, with the properties that catch it. Where they catch
only part of it, because the rest is what the code does today (section 7) or lies
outside the instance, the hazard's `note` says which part that is.

## 2. How the project is built

One module models one component: its state as variables, one action per operation
or per step another party can meet, its properties at the end. Constants carry named
assumptions, as weak as the configuration's own validation makes them. No module
declares a RECURSIVE operator; folds and recursive functions take its place.

The two largest components, `Scheduler` and `GenerationExecution`, have MC modules
and configurations of their own. The others are checked *side by side*: an MC module
declares the variables of several components, instantiates each of them, and adds a
variable `part` that is chosen in `Init` and never changes. The component named by
`part` moves; the others stay in a fixed initial state. So the reachable states are
the sum of the components' states and not the product, nothing is lost of any of
them, and each property reads `part = "x" => ...`. The instance is a plain
`INSTANCE ... WITH`, so every state and step of the part is one of the component's
own specification. In `MCPerformer` and `MCKnowledge` the instances are parametric
(`Player(c)`, `Plane(c)`, `Call(c)`, `Kept(c)`): the record `c` holds the limits and
bounds, `limits` says which one a behaviour has, and the sets of records are constants
with one assumption each.
Theorems about such a run are theorems of the MC module for every value of its
constants.

| MC module | Parts |
|---|---|
| `MCHost` | `RawIngress`, `RuntimeLoop`, `SecurityRuntime`, `EventPath`, `DeviceLink` (the device is chosen in `Init`) |
| `MCGenerative` | `BudgetGovernor`, `ShadowOrchestrator`, `ShadowEvidence` twice, `RoutePlanning`, the search of `Retrieval`, `SpeechCompiler` |
| `MCKnowledge` | `WorkingMemory` twice, `AssetStore` twice, `AdaptationEngine` over `AssetStore` |
| `MCPerformer` | `Playback` twice, `TaskPlane` three times, `Reflex` twice |
| `MCLiveness` | `RuntimeLoop`, `ShadowOrchestrator`, `Reflex`, `EventPath`, with fairness |
| `MCEvaluation` | `OperationalSlo` twice, `SloBaseline`, `BenchmarkGate`, `SidecarEvaluation`, `MemoryReport`, `ModerationEvidence` three times, `Soak`, `StreamScenario` twice, `FaultSoak`, `Replay`, `Diagnostics` |

Two modules meet as specification and implementation: `Timeline` is what the
scheduler promises, `Scheduler` implements it (checked and proved), and `Playback` is
written against `Timeline` alone. `AdaptationEngine` extends `AssetStore`, `Replay`
drives `Scheduler` step by step.

The comments marked `Mutant` introduce operators that a plausible bug would turn a
definition into; `PROJECT.json` says which definition each replaces and which
property then fails.

## 3. Modules

### Scheduler

`Scheduler` models `crates/scheduler/src/lib.rs`. Its variables are the fields of
`struct Scheduler` (`items`, `live_by_generation`, `live_by_event`, `history`,
`cooldowns`, `generation`, `last_rejection`, `now_ms`, `last_terminal_at`,
`terminal_evicted`), one history variable (`exported`, what `drain_history` handed
out), and the frame of the call in progress (`pc`, `op`, `at`, `cur`, `idx`, `pass`).

Calls cannot overlap, but their loops compact `items` while they walk it, so one
iteration is one step: `AdvanceRetire`, `AdvanceKeep` and `AdvanceDone` for
`advance_to`; `Reject*`, `Arbitrate`, `StartPass`, `Supersede`, `PushBack`, `EndPass`
and `Accept` for `schedule_at`; `StopSlot` and `StopDone` for `stop_all`;
`StopCurrent`. A new call starts only when `pc` is `"idle"`. `schedule` is
`schedule_at` with the plan's own start as the request, which the `Call` actions
cover through `CallTimes` and a zero delay.

Abstractions: interrupt points are a set (the code sorts and deduplicates them);
`None` stands for an absent cooldown or option; the two cooldown telemetry counters
and the seeded variation helper are left out. `advance_to` has a branch for a
*queued* item with a pending cancellation; `CancelAtSafePoint` says no such item
exists, so the branch has no action.

`Timeline` is the abstract promise: generations are issued one at a time, a window
keeps its start and never grows, a retired generation does not come back. The
refinement (`KeepsPromise`) maps `window` to the live items' intervals; the steps
inside a call stutter.

### Generation execution

`GenerationExecution` models `GenerationExecutor`, `GenerativeRuntime` and the
generative paths of `ProductionApp` in `crates/app/src/lib.rs`, and
`GenerationCancellationRegistry` and the pipeline in `crates/generative/src/lib.rs`.

Two processes: the composition thread (`cpc`) and the worker (`wpc`). Each access to
a shared counter, channel, token or flag is a step. What only the composition thread
touches (registry, active id, event ids) moves with the step that decides it.

* Content: `ProcessContent` (a more urgent event cancels the registered token), then
  `RouteElsewhere`, or a submission: `SubmitRefused`, or `SubmitClaim` (counts),
  `TrySend` or `TrySendFails` (uncounts), `Activate` (registers, cancels the
  previous token).
* Drain: `DrainTake`, `DrainRelease` (the counter), then `DrainDiscard` or
  `DrainCommit` by the commit fence `StaleOrCancelled`; `Finish` in both. Judging,
  committing and finishing are one step: of the fence's inputs only the clock can
  change meanwhile, and a deadline that passes after it was read is a deadline that
  passes after the step.
* Control: `Tick`, `Override` (stop or mute), `Shutdown` and `CloseSender`, `DropApp`.
* Snapshot: `ReadPending`, `ReadInFlight`, `ReadAwaiting`, one load each.
* Worker: `WorkerRecv`, `ClaimInFlight`, `ReleasePending`, the shutdown check
  (`WorkerDrops`, `WorkerStarts`), the pipeline with its four token checks, then
  `ClaimDrain`, `ReleaseInFlight` and the blocking `WorkerSends`; `WorkerSendFails`
  when the receiver is gone, `WorkerExit`, `WorkerPanics`.
* `Expire`: a provider deadline passes, at any moment.

The history variables are `fate` (what became of each generation) and `fenced` (the
generations outstanding when a newer one was accepted, a more urgent event was
admitted, or an override or shutdown came). The worker that panics unwinds, dropping
its job and the queued ones and releasing no counter; the code does not restart it.
`DropApp` drops the executor: the worker is detached and finds its receiver gone.

Abstractions: a job's content is whether it succeeds; routing and budget admission
are a nondeterministic choice between a submission and `RouteElsewhere`; the
completed, failed, stale and saturated counters, high-water marks, traces and the id
counter's saturation at `u64::MAX` are left out. `SeqCst` makes the counters
sequentially consistent, so interleaving is the right semantics.

### The host: ingress, main loop, security, event path, device links

`RawIngress` (`raw_ingress.rs`): `FillBuffer` takes a buffer cut anywhere, `Finish`
judges the record, `TrySend` queues it and `TrySendFull` drops it as the newest,
`CountEnqueued` moves the metrics after the send. Bytes are counts; only a trailing carriage return matters, because it may be separated from its
line feed. The runtime loop receives concurrently and may go away.

`RuntimeLoop` (`main.rs`, `operator_control.rs`, `domain/src/control.rs`): the reader
fills `raw`; a connection reads, passes the rate limiter, waits for room (`senders`)
and then for its answer (`dispatch`); the loop receives a record or times out, drains
the requests (`DrainOne` is authenticate and apply), ticks. A blank record continues
the loop before the drain, as in the code (`main.rs:311`). Uptime takes the values of
`Uptimes` in seconds, because only the timestamp made of it matters.

`SecurityRuntime` (`runtime/src/lib.rs`): every call is one step of the composition
thread. The `f64` tokens are counted in parts, which is exact for the configured
rates. The correlation registry and its order, the audit ring with its evictions, the
rate table with its forgotten sources.

`EventPath` (`routing.rs`, `app/src/lib.rs`, `telemetry/src/lib.rs`,
`causal_trace.rs`): what the planner remembers, what `handle_event` records at once
or defers with a context, and the two rings. A drain runs inside the handling of a
later event, in the order of the code.

`DeviceLink` (`adapters/src/obs.rs`, `vts.rs`, `lib.rs`): a call holds the mutex from
its first to its last step; between them the peer answers, pushes events, stays
silent, or goes away, and time passes. The peer handles a request at any moment after
it was sent, also when the client has given up.

### Around generation: budget, shadow, evidence, requests, speech

`BudgetGovernor` (`budget.rs`): one ledger of call times and one of amounts stand for
each pair that the code handles line by line alike. The reservation moves between
places (`place`) and whichever thread holds it settles, releases or drops it.

`ShadowOrchestrator` (`shadow_orchestrator.rs`, `shadow.rs`): the composition thread
routes (stages), supersedes the chain, commits and drains; workers pop, wait, claim,
evaluate, publish through the fence. `lock` is the queue's mutex; `prewait` and
`waiting` are separate because a notification between them would be lost. The gauges
move in separate steps as in the code.

`ShadowEvidence` (`shadow.rs`, `shadow_evidence.rs`) and `ModerationEvidence`: a batch
grows record by record and the report is a function of it, checked in every state.

`RoutePlanning` (`routing.rs`, `context.rs`, `memory_context.rs`): template rendering
over tokens, requests over byte widths. `SpeechCompiler` (`generative/src/lib.rs`):
the collector and the compiler session see the same chunks and must agree.

### Knowledge: working memory, asset store, adaptation

`WorkingMemory` (`adaptation/src/lib.rs`): `Write` projects what will survive, decides
admission on it, evicts and links. Text is data. A write may be backfilled.
`AssetStore` (`asset-store/src/lib.rs`): descriptor files, index, hot cache, pins and
the order of use; files are edited by others (`Edit`) and the process restarts
(`Restart`) between any two operations. A preload is a loop that reads one file after
the other: `PreloadStart` picks the entries, `PreloadNext` resolves the next one and
gives up at the first error, and between two of them files may be edited and the
process may stop, while the store itself is borrowed (`loading`). Persisting a generated
asset is such an operation too: `PersistStart` checks, `PersistRename` gives the written
file its name, `PersistIndex` makes the entry, and `PersistFails` gives up before the
rename (`saving` says how far it has come). `Evict` says which
assets the two loops of the code remove: the least number of the least recently used
after which both bounds hold. `AdaptationEngine` extends it: uses, labels, the policy's
decisions, the bounded maps.

### Performance: playback, tasks, reflex, retrieval

`Playback` (`app/src/lib.rs`, `cached_playback.rs`) knows of the scheduler what
`Timeline` promises: when a plan is accepted, any live performance may be dropped or
cut at that time or later (`Yielded`), and the new one may start up to `Slip` after
the time asked for. `pending` holds audio and avatar commands; `recent`
remembers the last variants of a group and `touched` the performance that touched it
last, from which `Victim` is forgotten. `Tick` follows the code's order: the scheduler advances first, so a
performance that is over is retired before its last commands are looked at, and a
command that falls due at or after its end is never played. Due commands leave the
queue whatever becomes of them. `InsidePerformance` allows one millisecond after the
end, because offset and duration are rounded apart.

`TaskPlane` (`domain/src/task.rs`, `task_plane.rs`, `tool_execution.rs`): one action
per operation of `AgentTask` as `TaskPlane` calls it; a transition into a terminal
state moves the task to `retained` in the same step. `Expire` walks the ids in order
and stops at the first task whose own time is ahead of the call, as the `?` in the
loop does. `ExpireSettles` is said of what a call would do in each state, because a
call that changes nothing is no step that an action property could look at;
`ExpireStep` says it of the step. `StartTool`, `ToolReturns` and `RecordToolEvidence` split
`execute_verified_tool` at its await. Approvals and dependencies are one kind of
waiting.

`Reflex` (`reflex/src/jev.rs`, `pipeline.rs`): `Start`, `Check`, `Post`, `Respond` or
`TransportFails`, `Classify`, `Sleep`, `Parse`, `Normalize`, with `Tick` between any
two; `Publish`, `Wake`, `Poll` and `Drop` are the steps of the future under its lock
and outside it; `Execute` applies the policy. `Retrieval` (`retrieval.rs`) computes in
floats of `Bits` bits, rounded to nearest after each operation as `f64` is with 53;
`MCGenerative` compares the search with its definition over every small index.

### Programs that judge

`OperationalSlo`, `SloBaseline`, `BenchmarkGate` (`telemetry`), `MemoryReport`,
`SidecarEvaluation` (`app`), `ModerationEvidence`, `Soak`, `FaultSoak` (`hardening`),
`StreamScenario` (`domain/src/scenario.rs`), `Replay` (`scheduler/src/replay.rs`) and
`Diagnostics` (`profile.rs`, `retention.rs`, `support_bundle.rs`). Their inputs are
built up element by element, in any order, and the result is a function of the state;
where the program is a loop (`Replay`, `Soak`, `FaultSoak`, `StreamScenario`,
`SidecarEvaluation`) its iterations are actions. Numbers are scaled so that the
comparisons stay exact; `Word` stands for the largest integer where sums saturate.

## 4. Runs

| Run | Instance | What it checks |
|---|---|---|
| `scheduler_timeline` | five plans (shared channels, exclusive, reused asset and event, safe points, four priorities), three accepted schedules, history of one | `IndexConsistent`, `Conservation`, `CancelAtSafePoint`, `TerminalTruth`, `AdvanceSettles`, `PriorityRespected`, `HandoffSpacing`, and the refinement `KeepsPromise` |
| `scheduler_saturation` | three plans, `TimeMax` 7 so that ends and cooldowns saturate, callers that pass times in the past | `CallReturns` |
| `generation_safety` | an urgent and an ordinary event, ids repeat, queue of one, three submissions, panics | `CountersExact`, `QuiescenceSound`, `NoJobLost`, `FencedNeverCommitted`, `MailboxSufficient`, `DiscardJustified`, `CancelledNeverCommitted` |
| `generation_liveness` | one event, queue of one, three submissions, no panics | `EveryGenerationSettles` |
| `host` | lines up to twice the record limit and the buffer, past a full queue; two clients in the first hour of a run; two sources for a table of one, three correlation ids for a registry of two; two events for a telemetry ring of one; three calls and two pushed events on each device | `IngressSound`, `LoopSound`, `SecuritySound`, `EventsSound`, `LinksSound` |
| `generative` | three reservations for two slots; two chains and two workers with a queue of one; every pair of decisions in batches of two, mixed batches of three; requests at the edge of their bounds; every index of up to two vectors; three chunks of two recordings | `BudgetSound`, `ShadowSound`, `NoStaleEvidence`, `EvidenceSound`, `RequestsSound` |
| `knowledge` | three writes of two events against three entries and two links, or against two entries; two ids in one group with an old version and room for one; three ids that push each other out; six operations of the engine | `MemorySound`, `StoreSound`, `EngineSound`, `RightOnesGo` |
| `performer` | one talking asset slowed to 150 %, two performances, calls at most two apart, lateness one; three groups of variants with memory for one; tasks of two steps or one with two tools in flight; expiry with times in any order; three attempts with every pause, one with every answer | `PlaybackSound`, `TasksSound`, `ToolsFenced`, `ReflexSound` |
| `liveness` | the smallest instances in which two clients, two workers, two attempts or two events compete | `OperatorAnswered`, `WorkersFinish`, `DeferredSettles` |
| `evaluation` | every short input of each judging program | `VerdictsEvidenced`, `BaselineSound` |
| `runtime_loop_hour` | the main loop with uptimes beyond the hour | violation of `SecretSuffices` (section 7) |
| `budget_chars` | the governor with amounts below the horizon | violation of `CharsRoll` (section 7) |

Why the bounds are enough. Three schedules are enough for a compaction that moves an
item, for a plan that meets two others at once and for a second preemption of one
item; five distinct plans make every kind of conflict happen; a history of one evicts
at once; `TimeMax` 7 lies below the end of a plan pushed back twice. A work queue of
one with three submissions has one job executing, one queued and one refused or
completed, which fills the mailbox of two. Every ring, table and queue of the other
modules has room for one or two, and gets one more than it holds, so that each limit
is met and passed; every actor that can compete has a rival (two clients, two
workers, two sources, two tools, two writers of one chain). A wall of a bound that is
not the program's (`Max...` of times, calls, events, writes) is named as one in the
module that declares it. `Lateness` is `Gap` - 1 while something is said, the smallest
bound under which `CommandsDelivered` can hold; the property has that condition, since
the configuration does not tie the two.

Deadlock is not checked where the system may stop: a dropped app, a closed input, an
exhausted bound.

## 5. Fairness

* Scheduler: `WF_vars(Run)`. A call runs on its caller's thread to its end; nothing is
  assumed about how often calls are made.
* Generation: `WF_vars(WorkerStep)`: the thread is scheduled and a provider call
  returns or times out (the HTTP clients have timeouts). `WF_vars(ComposerStep)`: a
  call runs to its end. `SF_vars(Tick)`: the main loop ticks on every pass
  (`main.rs:308-366`) whatever calls come between; this excludes an endless, unbroken
  stream of blank records, for which the loop continues before its tick
  (`main.rs:311`) and which `RuntimeLoop` treats. A dropped app ends the obligation to
  tick.
* Main loop: the loop's thread runs, the channel serves who waits, and once the loop
  has ended the task of a connection that still waits finds the channel or the reply
  gone and closes (`ConnectionLost`). There is no time limit on an answer while the loop
  runs. `OperatorAnswered` has a premise in place of a fairness that the code does not
  have: `[]<>(pc # "recv")`, that the loop does not stay in its receive for ever, which
  is where an endless, unbroken stream of blank records keeps it (section 7). The run has
  blank records and content in any order.
* Shadow pool: a thread that can step steps, and a policy honours its deadline, as
  the `ShadowPolicy` contract demands.
* Reflex: the worker thread and the executor are scheduled, time passes, and the
  transport returns, which its own timeout (`timeout_global`) ensures.
* Event path: the generation worker answers and the loop ticks.

In `liveness` the fairness of a part is asked only of that part.

## 6. Proofs

Everything below is proved for every value of the constants that satisfies the named
assumptions of the modules, without bounds on queues, threads, events or time other
than those assumptions.

### Scheduler (`SchedulerProofs`)

`Inductive`: `IndInv` is an invariant of `Spec`. From it: `TypeCorrect`,
`IndexesExact`, `TimelineExclusive`, `GenerationsConserved`, `SafePreemption`,
`HistoryTruthful`, and the action properties `AdvanceIsComplete` and
`StopIsComplete`.

None of the invariants is inductive alone. Exclusivity of an accepted plan rests on
two facts established by different phases: it overlaps no *reservation* because the
resolve loop ended, and it lies behind every *playing* rival because `Arbitrate`
put it there and later push-backs only move it later. `PlacedBehindPlaying` carries
the second across the loop. `WalkSettled` says what the prefix of the walk
satisfies, which needs the swapped-in slot to be visited again. `LiveOK` bounds the
generations that index keys and history refer to; `FrameOK` ties the call's locals to
its phase. Supporting lemmas say what `SwapRemove`, `Reindex` and `TrimHistory` do to
a sequence and to an index.

`SchedulerKeepsPromise`: every step of the scheduler maps to a step of `Timeline` or
to a stutter. Retirement inside a walk removes one window; acceptance issues one
generation; a preemption shortens a window.

`PriorityIsRespected` and `HandoffsSpaced` need more than `IndInv`: that the positions a
pass has still to visit are queued although retirements move items (`PassQueued`), that
nothing ended after the time the call has reached (`TerminalPast`), that a call which is
not late has brought time exactly to its own (`CallOnTime`), that what plays when
arbitration begins is not over (`PlayingLast`), and that the plan keeps its distance
from then until it is accepted (`PlacedAtDistance`). Without `PlayingLast` a rival could
hand over before the last item that ended. `PaceInv` is their conjunction.

### Generation execution (`GenerationProofs`)

`GenerationInductive`, then `GenerationTypes`, `CountersAccount`, `QuiescenceIsSound`,
`MailboxHasRoom`, `NothingOvertakenCommits`, `JobsInOrder`, `NoGenerationLost`,
`DiscardsAreJustified`, `OneGenerationUncancelled` and the action property
`CutShortNeverCommits`.

`CountersExact` fails after a panic or a drop, so quiescence rests on the inequality
`CountedAtLeast`, which never does. `SnapshotSound` says what each load has
established: a zero in `pending` means no job is queued or just dequeued and stays
true, because the reader is the only submitter; a zero in `in_flight` after it means
none is executing; hence the order of the loads matters and the order claim before
release does too. `RoomOK` counts the jobs that can still reach the mailbox.
`FenceOK` is why one registry slot suffices: an overtaken generation is not the active
one, or its token is cancelled, or its entry is gone, and each of the three stops it
at the fence. `ResultsOK` ties a result of "cancelled" to a token that stays
cancelled.

`JobsInv` follows the jobs: those in the mailbox, in the worker's hand and in the queue
form one increasing line of generation numbers, so no job is in two places and the
newest is the last; from it and `FenceOK`, `NoJobLost`. `ReasonsInv` says that with
event ids that do not repeat an outstanding generation that nothing overtook is the
active one, registered, with a live token; so what the drain discards was overtaken
or late, and at most one token is live outside a submission. Both theorems carry the
condition that ids do not repeat in their statement, because with repeated ids they
are false (section 7).

### The host (`HostProofs`)

`IngressIsSound`: `IngressInv` adds to the verdicts what is true in the middle of a
line: the retained prefix is the line as long as it is not over the limit, and is
exactly one byte over when it is; the lines dropped lie behind the current one; what
is received and queued lies at or before the last line seen.

`LoopIsSound`: `LoopInv` says that the dispatch queue lists exactly the waiting
connections and the senders exactly the sending ones, each once (`Lists`), and that
replies are honest about the request they answer. The statement that the right secret
is never refused has the hypothesis `FirstHour`, that no instant of the instance lies
beyond 3599 seconds: beyond it the statement is false, which is finding 1. Nothing
else in the theorem uses the hypothesis.

`SecurityIsSound`: the rate is proved in every window of time. `Covered` is the credit
argument: what a source spent since any admission of its own, plus what is left in its
bucket, is at most the burst and what the rate has added; a forgotten source has been
idle so long that its bucket would be full again, which is what `TtlAssumption`
(`SourceTtl * Rate >= Burst * Scale`) is for. `Registered` says that the correlation
registry and its order hold the same ids, in the order of their admission. The audit
ring holds the newest records, numbered, and counts the rest.

### Around generation (`GenerativeProofs`)

`BudgetIsSound`: a reservation has its slot exactly between grant and end
(`BudgetSlots`), so the shared counter is a cardinality and a slot is returned once.
`Rolled` is the ledger: it holds the times of the last grants, and every grant before
them is out of the window; with it a grant admitted below its share keeps `CallsRoll`.
The ledger of amounts does not have this property (finding 2).

`ShadowIsSound`: `ShadowInv` places each job once (`ShadowHolds`, `ShadowOnce`), says
that what is staged is the newest event and known to nobody else (`ShadowStaged`),
that an entry of the registry is its chain's newest outstanding job and not cancelled
(`ShadowEntries`), that a job that was not cancelled has its entry (`ShadowKeeps`), and
what each phase of shutdown has established (`ShadowEnds`). The gauges are exact
between any two steps of a worker because each `WorkerPcs` says which half of a move
has been done. `NoStaleEvidenceIsDrained` follows: a worker publishes a record only
when its job is in the registry, hence the newest of its chain.

### The device links (`LinkProofs`)

`LinksAreSound` (`LinkProofs`): on either device, for every number of calls, names and
events and every backoff, an action is performed at most once and reported done only
when it was, pushed events are kept and given once, attempts keep their distance and a
session stands only with its subscriptions. The inductive invariant `LinkInv` has a
part for each of these, because none of them is inductive alone:

* `LinkIds`: a request and an answer on their way never carry the same id, and an id is
  given once. It is why an answer that comes after its request's budget was spent is
  nobody's.
* `LinkActions`: an action that is still to be handled has not been performed, and a
  call that has not sent its action has none on its way. `LinkAwaits`: the id awaited is
  that of the action of this call, so an answer "ok" under it was performed.
* `LinkSpaced`: while no attempt is under way, the next one waits for the last one's
  start and the delay of the failures so far; an attempt is judged by its start.
* `LinkMask`, `LinkNamesHeard`: what the peer of the present session was told is what
  is wanted, or the handshake still has it to ask, or the request that will tell it is
  on its way. Both devices need their own, since OBS takes a mask and VTube Studio names.
* `LinkEventsKept`: events handed out followed by those kept are those pushed, in order.

The steps are classified twice, once by what they do to the session (`LinkSteps`:
stays, misses, shakes hands, gives up, comes up) and once by what they do to messages
and calls (`LinkMail`); each part of the invariant is proved from the classification.
The hypotheses are `DeviceAssumption` and `PowersAssumption`: that powers of two up to
the capped exponent are naturals, which TLC evaluates in the run `host`, since the
prover has no exponentiation.

### What decides and performs (`PerformerProofs`)

`PlaybackIsSound`: for every set of assets, speeds, delays and limits, over every
scheduler that keeps the promise of `Timeline`. `PlayInv` has five parts. `PlayNumbers`
ties the live windows to what was accepted and to how far each performance was let
play. `WentOnce`: what went out, or was dropped behind a mute, is queued no longer.
`Awaited` is delivery: a command far enough from the end of a performance that is let
play is gone, or it is queued *and* its performance is live; without the second half it
would be lost at the next call. `Placed` is the rounding: an offset within the asset and
its duration, scaled apart, differ by at most one. `Rotated` and `NotRepeated` are the
memory of variants: a group that is remembered has its last variant remembered, and one
that was forgotten has at least as many other groups after it as are remembered, which
is why the victim must be the group touched longest ago. The four calls into the app
(tick, stop, mute, a performance) are one kind of step, `Plays`: new windows, new
commands, then a tick; each part of the invariant is proved from it once.

`TasksAreSound` and `ToolsAreFenced`: `TaskInv` says that a task's steps fit its state
and its evidence fits its plan (`Fit`), that a serial number names one task and, unless
ids are used again, the same one as its id (`NamesAgree`, `SerialsPast`), and that a tool
in flight carries a generation its task had when it was started (`ToolsFit`). Each
transition of `AgentTask` is a lemma about one task (`Succeeds`: fit, of the same name,
not younger, executing only under a new generation); each operation of the plane puts
that one task back. `Expire` changes many at once, and the order in which they retire makes
no difference to the invariant. What it settles follows from what
`expire_if_needed` makes of one task (`ExpiredEnds`). That evidence is current has the hypothesis that ids are not used
again, without which it is false (section 7).

`CallsAreSound`: `CallInv` says that every attempt but the last was refused for now and
that its pause lies between it and the next (`PostsSpaced`), that where another post may
follow one is left and was earned (`AnotherEarned`), that a dropped future posts at most
what was being started (`LateOnce`), and that an action rests on a normalised answer of
the offered candidates in time (`ResultEarned`). The pauses are powers of two capped at
sixteen shifts; the proof evaluates them case by case.

### Knowledge (`KnowledgeProofs`)

For every set of ids, versions and groups, every size and limit of the store and every
policy of the engine; the store by itself and under the engine share the invariant.

`StoreIsSound`: `StoreInv` has five parts. `Shaped` is what the maps hold. `Matched` and
`Backed` are the two halves of "hot asset, index and file agree", each up to what a
caller inserted or others edited; they have to be proved together, since resolving
reads the file that `Backed` speaks of and puts into the cache what `Matched` speaks
of. `Buried` says that an invalidated asset is neither hot nor in any file: without the
files a reindex or a preload would bring it back, and `OnlyIndexed` is why no second
file has it. Beside them `Written` says what the steps of a persist have made so far:
before the rename no file, after it the file of the hot asset, and no entry yet, unless
others edited it meanwhile. `EvictIs` is what all of them need of eviction, whatever the sizes: the
cache that is left is a part of the one before, and every pinned asset is in it. That
candidates can be resolved follows from `Backed`.

`CountsAreCurrent`: `EngineInv` says that counts are numbers (`Tallied`), that the
windows of recent variants hold only ids that are counted (`Fed`), and that what is
counted of an id is what was recorded of the asset that has it now (`Current`). `Fed`
needs that an id that makes room is taken out of every window in the same step;
`PurgedIs` proves of the model's `retain` that it keeps exactly the other ids, from the
bijection between the positions kept and their ranks (`RankIs`).

`OnlyRightOnesGo` is an action property of the same invariant: `Pinned`, that a hot
asset that is not generated is pinned, makes eviction spare it, and `Current` makes the
verdict of the engine one about the labels that were recorded.

### How the proofs are laid out

One lemma per action, one step per conjunct the action can disturb. Facts about a
sequence operator the model uses (`TakeFront`, `PutBack`, `DropsOne`, `DropsFront`,
`Lists*`, `Registered*`) are lemmas of their own. A theorem about a part of a union is
`part = "x" => Inv`: the part does not change, its own step preserves `Inv`, and the
steps of the other parts leave its variables alone.

## 7. Findings

With a run:

1. `runtime_loop_hour`: the timestamp of an operator command is made of uptime with
   unbounded minutes; from minute 60 on it is no date-time and the right secret is
   refused, so that stop and mute do nothing.
2. `budget_chars`: `trim_windows` compares every entry with the horizon as a time, but
   the character and cost ledgers hold amounts.

Disagreements met while modelling. Each is stated by the named definition in its
module, which is no property of a run: TLC finds it violated when the module is checked
for it alone.

| Module | Definition | What the code does |
|---|---|---|
| `Scheduler` | `CooldownHonoured` | cancelling a queued item removes an asset's cooldown that had replaced an earlier performance's |
| `Scheduler` | `ReactionsSpaced` | a plan that fits right next to a competing reservation gets no minimum spacing |
| `GenerationExecution` | `StaleFinishKeepsNewer` | draining the stale first completion of a repeated event id clears the entry of the second |
| `RuntimeLoop` | `AlwaysAnswered` | while blank records keep coming no operator request is drained |
| `ShadowOrchestrator` | `QuiescentMeansIdle`, `NoCompletionLost`, `ShutdownReturns` | a job is in no gauge between the two halves of a move (`shadow_orchestrator.rs:259`), so `is_quiescent` may be early; a job submitted after a worker has popped makes one completion more than the mailbox holds (`:606`); `close` notifies without the mutex, so a worker between its check and its wait sleeps for ever and the join does not return (`:505`) |
| `WorkingMemory` | `CorrectionLeads` | only one step of a chain of corrections is promoted, so the claim that is current may rank behind its topic (`adaptation/src/lib.rs:1289`) |
| `AssetStore` | `GeneratedBounded`, `EvictionJustified` | a generated asset that takes over a static asset's id counts as pinned for good (`asset-store/src/lib.rs:1235`); the bytes of pinned assets count against the budget of generated ones (`:1055`) |
| `TaskPlane` | `EvidenceCurrent` with `ReuseIds`, `CompletesInTime` | an id used again after eviction starts at generation 0, so an old tool's evidence fits it; only `expire` and `resume` look at the lifetime |
| `MCGenerative` | `OfferAccepted` | an exact match can come out above 1 |
| `EventPath` | `CancellationCloses` | the audio span is pushed behind the cancellation that is to close the chain (`causal_trace.rs:252`) |
| `OperationalSlo` | `BudgetMatchesStatus`, `SpeechPresent`, `TotalIsTotal` | rounding lets an objective that was met exhaust its budget (`docs/operational-slo.adoc:304`); an event without visible output conforms to speech presence for reasons that were not declared (`operational_slo.rs:538`); a candidate's total is not that of its series (`:3159`) |
| `SloBaseline` | `OrderNeverMatters` | a full report between two conflicting aggregate rows of one run reconciles them, depending on the order of the files |
| `BenchmarkGate` | `ZeroIsUnchanged`, `BudgetedGates` | an unchanged zero is an infinite regression (`benchmark_gate.rs:761`); a metric that only the base measured gates nothing |
| `RoutePlanning` | `SlotsAlwaysIndependent`, `OneClaimSparesOthers` | a field that names a later slot in braces is filled with that slot's value (`routing.rs:171`); a claim whose event id is no label costs all the others (`context.rs:330`) |
| `SidecarEvaluation` | `ViewsAgree`, `SharedRecalled` | a superseded claim counts against the bound of one side only, and a correction recorded after the query retires its target on one side only (`memory_sidecar_eval.rs:188`, `:267`); a claim without an actor is shared for the adapter and refused by the runner (`hindsight.rs:324`) |
| `MemoryReport` | `ImprovementRegressesNothing`, `NoPaperImprovement` | a candidate wins on one dimension whatever it loses on the other (`memory_compare.rs:68`); inversions and shortened claims of a row are taken as reported (`:397`) |
| `ModerationEvidence` | `EverySuppressionCounted` | of the cases labelled benign only the overridden ones are counted (`moderation_evidence.rs:442`) |
| `Soak` | `AcceptedCompletes` beyond its instance | a queue limit above a third of the burst is accepted and the flood then aborts (`soak.rs:435`) |
| `StreamScenario` | `AcceptedRenders` beyond its instance | a start near the end of year 9999 is accepted and later instants do not parse back |

Further: a polling connect hands out events read in a handshake after later ones; a
rejected VTube Studio subscription stays in the set and makes every reconnect fail; a
revoked token is not asked for again; backoff is counted from the attempt's start; a
cancellation begins a causal trace of its own that hides the event's in a bundle; the
daemon makes its redactor without secrets.

## 8. What is not shown

Only model-checked:

* Liveness (`CallReturns`, `EveryGenerationSettles`, `OperatorAnswered`,
  `WorkersFinish`, `DeferredSettles`): fairness and ENABLED are out of the proof
  system's reach.
* Properties about values computed by folds and recursive functions over data:
  `EventsSound` (the summary and the drained sequence), `EvidenceSound`,
  `RequestsSound` (rendering, retrieval, compiling), `MemorySound` (admission and
  eviction over sorted entries), `BaselineSound` and `VerdictsEvidenced`. What a fold
  computes for every input needs induction with an operator parameter, which the
  installed provers cannot instantiate.
* Violations (`SecretSuffices`, `CharsRoll`), which are false.

Not modelled: the wording of prompts and reports, wall-clock behaviour, memory, the
standard library's channels beyond bounded FIFO queues, and the components and parts
of components that `PROJECT.json` lists as such (HTTP, audio output, framing,
manifest parsing, argument parsing), each with its reason.

## 9. Plan

Every state machine but the working memory is proved. What is left needs data, in the
order of what it says about the system:

1. `MemorySound`: the maps are functions and the proof would be like that of
   `StoreIsSound`, but admission and eviction go over entries sorted by four keys; they
   need the projection written as the set it leaves, as `Evict` of the store is, and a
   lemma for each.
2. `EventsSound`: the two rings as suffixes of what was recorded; the summary counts
   them with a fold.
3. `EvidenceSound`, `VerdictsEvidenced`, `BaselineSound`: sums over batches and reports.

## 10. Running

```
tlc -workers 2 -config MCScheduler.cfg MCScheduler
tlc -workers 2 -config MCGeneration.cfg MCGenerationExecution
tlc -workers 2 -config MCHost.cfg MCHost
tlapm SchedulerProofs.tla
tlapm GenerationProofs.tla
tlapm HostProofs.tla
tlapm GenerativeProofs.tla
tlapm LinkProofs.tla
tlapm PerformerProofs.tla
tlapm KnowledgeProofs.tla
```

A run takes between one and four minutes, a proof module up to ten. The largest run,
`generation_safety`, has 3.3 million distinct states.
