# A TLA+ model of nano-symphony

nano-symphony runs coding agents on issues. A tracker (SQLite tables behind an
HTTP API and a web frontend) holds the issues; an orchestrator polls the tracker,
claims issues and starts one agent process per issue; the agent talks back
through MCP tools; when it has ended, a worker decides what the attempt came to
and writes the next state of the issue. All of it is one Node/Bun process with one
event loop, plus the agents' processes and an SQLite file.

Paths of code below are relative to the repository's own `src/` directory, which
holds the backend; `docs/`, `skills/` and `frontend/` lie beside it.

## 1. Inventory

| Component | State it keeps | Operations | What is hard about it | What makes it correct |
|---|---|---|---|---|
| Concurrency limit (`orchestrator/index.ts:11-57`) | `max`, `count`, a queue of acquirers | `setMax` at every tick, `acquire`, `release` | the limit follows a workflow file and may fall below the number of running workers | a slot is free or held by one worker; nobody claimed waits in the queue; an acquire respects the limit |
| Tick (`orchestrator/index.ts:80-291`, `db/tracker-runs.ts`, `db/tracker-issues.ts:192-227`) | run rows (`symphony_runs`), the batch of the tick, a timer | due retries and candidates to a batch; stale runs released; workspace guard; claim | retries, candidates and stale runs are read before the claims are made; handlers run between ticks | one worker per issue, one issue at work per external workspace, no claim nobody gives up, no starvation |
| Worker (`orchestrator/worker.ts`) | a snapshot of the issue, an attempt number | workspace, hooks, prompt, spawn, verdict, completion transaction, `finally` | acts on a snapshot taken before several awaits; the verdict has a dozen sources and guards; the transaction does not look at who holds the run | bounded retries; a failure is not a success; budget, plan and breaker guards hold; the issue comes to rest |
| Spawner (`spawner/index.ts`) | `activeProcesses` by issue, `agent_pid`, what was read of stdout | spawn, heartbeat, time out, cancel, escalate, drain the pipes | entries are keyed by issue, not by attempt; agents resist signals and leave helpers behind; output comes in chunks and is cut | the registered process is the one that is alive; a worker ends; the result line survives |
| Start-up and shutdown (`index.ts:37-125`) | none of its own | releases claimed runs, kills stored pids, resumes plan runs; waits for agents, kills them | a crash may come at any point, in the middle of a shutdown too | nothing stays claimed, no agent is left unattended, a shutdown ends |
| Operator API (`http/routes/issues.ts`, `runs.ts`, `comments.ts`) | none of its own | approve, request-changes, retrigger, cancel, pause, resume, PUT, comments with commands | writes the tables under running workers, from what it read before awaiting the body | a run is not handed to two workers; one decision per plan |
| Issue store (`db/tracker-issues.ts`) | `issues`, `issue_blockers` (with a copy of the blocker's state) | updateIssue, updateIssueState, link to a plan run | two ways to write a state, only one of which refreshes the copies | the copies are right, so that a dispatched issue's blockers have finished |
| MCP tools (`mcp/tools.ts`) | `issue_events`, results, fingerprints | session_completed, emit_result, suggest_state_transition, spawn_plan_run(_and_handoff) | signals are stored per issue and read per attempt | a signal counts for the attempt that sent it |
| MCP tokens (`mcp/auth.ts`) | tokens by issue and attempt | issue, verify, revoke | the clock of a token starts before the agent's; a file in the workspace has the latest | a token lasts as long as its agent; what an agent says counts for its own attempt |
| Plan runs (`db/tracker-plan-runs.ts`, `orchestrator/plan-tick.ts`, `plan-progress.ts`) | `plan_runs`, the caller's link | create, dry run, approve, reject, run, finish, cancel, progress | the plan's end races the calling agent's end; ticks and routes write the same rows | a caller waits for its plan and is not lost; a cancelled plan stays cancelled |
| Plan executor and runtime (`orchestrator/plan-executor.ts`, `plan-runtime/`) | journal, sub-issues, wall-clock limits | step by step, resume from the journal, poll sub-issues | a crash between an effect and its journal entry; polling for some final states only | what was journalled done is not done again; a call gets its own result; nothing polls for ever |
| Workspace manager, diff and artifacts (`workspace/`, `orchestrator/diff.ts`, `artifact-collector.ts`) | directories, git's baseline, `symphony_artifacts` | make, reuse, remove; collect after each attempt | git fails or times out, files change under the collection, later attempts reuse the directory | every change is an artifact of its attempt, once, with that attempt's content |
| Prompt renderer, workflow loader (`prompt/`, `workflow/`) | the cached workflow | render, parse, reload | what to tell depends on the order of events of several kinds, and is cut by count and size | each attempt is told what it has not heard yet |
| Adapters, result parsing (`spawner/adapters/`, `spawner/agent-result-payload.ts`) | the last tool's name, of all agents | build a command line, parse stdout | the last result wins; lines of several agents interleave | the last whole summary is found |
| Comments, results, metrics, events (`db/`) | append-mostly tables | insert, list | - | - |
| HTTP server, SSE, plan graph and diff (`http/`) | subscribers, the offset of a log stream | serve, stream | several timers read one log; events are lost while a page is away | no part of a log is skipped; a diff leaves no change out; layers respect dependencies |
| Web frontend (`frontend/` beside the program's `src/`) | views | fetch, merge events, poll, pair tool calls with results | answers arrive in any order | a page comes to show what is |

How they interact: the tick reads `issues`, `issue_blockers` and `symphony_runs` and
writes `symphony_runs` (claim, stale release) and, for stale runs, `issues`; it starts
workers without waiting for them. A worker awaits workspace, hooks and the agent
and writes all of these in one SQLite transaction at its end. HTTP handlers and
MCP tools write the same tables in between. `cancelAgent` is the one direct call from
the tick and the API to a process; the event bus only tells the frontend. A plan
run creates issues that the same tick dispatches, and puts its caller back when it ends.

Nothing preempts a synchronous stretch of code. The hard behaviours are therefore
the interleavings at `await`s, the crash of the process at any point, agents that
fail, hang, report and then fail, or say nothing, timeouts of the agent and of the
heartbeat, and two writers of one row that do not look at each other.
`PROJECT.json` lists these hazards line by line with the properties that cover them.

## 2. Modules

| Module | What it is |
|---|---|
| `DispatchSlots` | the semaphore and the tick's use of it, with a limit that changes |
| `Dispatch` | tick, claim, worker phases, agent processes, operators' requests, crashes |
| `Dispatch_proofs` | its theorems, and those of `DispatchSlots` |
| `IssueLease` | abstract: an issue is leased to one worker, with rising numbers |
| `DispatchLease` | the refinement mapping from `Dispatch` to `IssueLease` |
| `Completion` | operators only: from the evidence of an attempt to the worker's verdict |
| `AttemptLoop` | the attempts of one issue, agent tools, completion transaction, plan hand-off |
| `PlanRun` | plan runs from creation to end, their callers, the tick's sub-loops, operators, crashes |
| `PlanCall` | abstract: an issue calls a plan run, waits and is told once |
| `PlanRunCall` | the refinement mapping from `PlanRun` to `PlanCall` |
| `PlanRun_proofs` | its theorems, and those of `PlanCall` |
| `PlanRunner` | one plan's script: calls, keys, journal, polls, retries, wall time, crash and resume |
| `AgentSession` | one issue's agents: processes and helpers, signals, timers, tokens, shutdown, crash and start |
| `IssueStore` | issues with their blockers' copies, written by workers, routes and requests that await their body |
| `AttemptFiles` | the directory of an issue, git's view of it and the artifacts of each attempt |
| `LiveFeed` | the detail page: the run it shows, its poller, and the stream of the log |
| `AttemptLoop_proofs`, `PlanRunner_proofs`, `AgentSession_proofs`, `IssueStore_proofs`, `AttemptFiles_proofs`, `LiveFeed_proofs` | their theorems |
| `PlanDiff`, `PlanGraph`, `SchemaCheck`, `DryRun`, `Prompt`, `AgentResolution`, `Views`, `Metrics`, `AgentOutput` | operators only: the pure algorithms |
| `Algorithms` | runs them on bounded inputs, with their reference definitions |
| `MCDispatchSlots`, `MCDispatch`, `MCAttemptLoop`, `MCPlanRun`, `MCPlanRunner`, `MCIssueStore`, `MCAttemptFiles`, `MCLiveFeed`, `MCAlgorithms` | instances for TLC |

### DispatchSlots

`max`, `count` and `queue` are the fields of `Semaphore`; `batch` is the rest of the
tick's loop, `running` the workers that hold a slot. `Tick(l)` is `setMax(l)` with the
limit read from the workflow file, followed by the choice of at most `count`
runs (`Dispatchable`); `Acquire` is one iteration of the loop, `Release` the `.finally` of a worker.
While `batch` is not empty nothing can be released, since the loop has no yielding await.

### Dispatch

`state` is `issues.state`, `seen` is `issue_blockers.blocker_state`, `run` a row of
`symphony_runs` (`st` state, `next` next_attempt, `lis` last_issue_state, `due` whether
`next_retry_at` has passed, `fresh` whether `last_heartbeat` is within the timeout, `pid`
agent_pid, `cur` current_attempt). `wk` gives each semaphore slot its worker: the phase `pc` (`prep`
until the agent is spawned, `running`, `post` until the completion transaction,
`logging` until the slot is released), the issue, the attempt and the snapshot of the
issue's state. `proc` is the spawner's map, `left` the part of the batch
that the present tick has not reached.

`StartTick` chooses the batch and releases stale runs; `Defer` and `Claim` are the two
ends of an iteration of the dispatch loop; `Spawn`, `SpawnFails`, `PromptFails`, `Exit`, `Complete`, `Log`,
`Throw` are the stretches of `runWorker` between awaits, with `Complete` the whole
transaction. `Spawn` and `SpawnFails` include the assignment of a role before the first attempt (`AssignRole`), which
writes back the state of the worker's snapshot, and not the blockers' copies of it. `Due`, `Age`, `Beat` are time, `CrashRestart` is a crash and the start-up
after it, and `Retrigger`, `Resume`, `Pause`, `Cancel`, `Review`, `Put`, `Suggest` are the
handlers. What an attempt came to is here a free choice among `Outcomes`
(restricted by `Possible` to what the attempt number admits); why is `AttemptLoop`'s subject.

The constant `Ops` names the kinds of outside events an instance admits, and
`StalePhases` the phases of a worker which may last longer than the heartbeat timeout.
In `prep` and `post` no heartbeat is written at all; in `running` one is written every
30 or 60 seconds, and the timeout is configurable.

### Completion and AttemptLoop

`Completion` follows `worker.ts:72-149` and `:438-592` in the order of the code: `Derive`
(exit code, timeout and summary), `Override` (the latest `session_completed`), `Fallback`
(an emitted result that is valid), `Aim` (the table `state_transitions`), `HandoffGuard`,
`PlanGuard`, `BudgetGuard`. `AttemptLoop` has the transaction (`worker.ts:597-690`): `Succeed`,
`HandOff`, `ShortCircuit`, `Retry`, `Trip` and `GiveUp` are the exclusive branches. The variable `log`
holds what the worker later reads from `issue_events` and the results: the latest
report, how many of the last reports are `needs_retry`, the latest result, whether a
plan was spawned. `spent` is the sum over `llm_calls`. `last` records how the last attempt ended
and exists for properties only.

### PlanRun

`plan` has the columns `state` and `approval_status` of `plan_runs` and, beside them, what lives in the
process only: `job` is the membership of `inFlight`, split into a dry run that hangs and
an executor; `overdue` whether the wall time has passed; `request` the operators' requests
that have checked the state and await their bodies, any number of them at once. `sub` has the states of the
sub-issues. `caller` has the caller's `state` and `plan_run_id`, its run row (`row` is `last_state`, `lis`
`last_issue_state`) and whether an agent is at work; `resumed` stands for the `caller_resumed` events,
which `listFinalizedPlanRunsWithCaller` looks for.

`Tick` is one whole tick, as it yields to nobody: a dry run starts (and ends at once, since
its script can wait for nothing real, unless it hangs until `DryRunTimesOut`), approved plans get their
executor, callers of ended plans are woken (`Resume`), plans over time are cancelled
with all that carries their `plan_run_id` (`CascadeSubs`, `CascadeCaller`), parents are settled
(`Verdict`), and then due callers are claimed (`Dispatched`). `Spawn` is `spawn_plan_run_and_handoff`
from the agent at work, `Suggest` its `suggest_state_transition`, which moves the caller, a settled one too;
`AgentEnds` is the completion transaction with the hand-off guard, and may leave the caller blocked;
`Succeeds` and `Fails` are the two ends of `executePlan`, and the rest the routes. Which steps
a script takes inside the executor is left open here: `CreateSub` and `SubEnds` may come in any order. `PlanRunner` opens it.

`PlanCall` says what all this is to the caller: a `Call` by an issue that waits for nothing, of a run that nobody has started; a run that ends, for good,
and then tells, once; and whoever is told stops waiting. One `Turn` may do several of these things, as one tick does, and let callers give up
(operators, completions and cascades make them). `PlanRunCall` maps a run to `told` when it is final and has its `caller_resumed`, and an issue in
`awaiting_plan` to waiting for the run it is linked to, whatever that is: a lost link, a woken run that reopens or an end that is taken back would have no
abstract step.

### IssueLease and the refinement

`IssueLease` says in thirty lines what the dispatch is for: a grant finds the issue
and its neighbours in the same place without holders, and has a greater number
than every grant before; holders return one by one, or lapse all together (a crash).
`DispatchLease` maps holders to the workers before their completion and the number to
`next_attempt`, less one where a queued retry has raised it beforehand.

### PlanRunner

A script is the set of its `issue()` calls and the order among them (`after`), which is all that
`dag()`, `pipeline()`, `parallel()` and plain awaits amount to; `DagAfter` computes it for a DAG from
its layers, as the code does. `journal` is the last `issue_done` of each key, `done` the journal as the present run of
the script found it (`completedResults`), `count` and `index` are `issueCount` and `phaseCallIndex`, `call` is
where each branch is. `Issue` is `runIssue` up to its first await; `PollDone`, `PollRetry`, `PollCancelled`,
`PollLost` and `PollLate` are the ends of the loop at `runner.ts:154-222`. `job` is `ended` once `runPlan` has returned
or lost the race against the wall time, with branches left behind that poll on (`Promise.all` does not stop them), and `gone` when there is none.
A poll looks at the wall time before its await: what the poll under way finds is acted on after the wall time too (`PollDone`, and `PollRetry`,
whose new issue is never polled, as its call throws at once); every other branch ends in `PollLate`.
Timers fire once the script has nothing more to do (`Quiet`): a call whose predecessors have returned is made in the microtasks before.
Which of several calls that are reached together is made first is left open. `StableKeys` says of a script that a call without a key has the
same number in its phase whenever it is made; an `ASSUME` checks it of the scripts of `MCPlanRunner`.

### AgentSession

`pc` follows one worker: token issued (`IssueToken`), the adapter's files written and the process spawned (`Spawn`), exit
noticed (`Exited`), both pipes drained (`Drained`), completion (`Complete`). `root` is the process of
each attempt, `kid` a helper that holds its pipes: an `orphan` once its parent is dead. `reg` is the entry of `activeProcesses`, to which signals
go and for which a shutdown waits; `strays` are the attempts whose start threw when their process was there already
(`SpawnStrays`: the pid is not stored, or the prompt not written), so that nobody waits for them. `timer` and `lost` are the escalations
and deadlines: a second `killFn` replaces `killTimer` and leaves the first one running unreferenced. Time passes by `Elapse`, which waits for
whatever is due. `Ask` verifies a token, `Act` carries the call out after its body has come.
`Shutdown`, `KillAll`, `Quit`, `Crash`, `Start` are the orchestrator's process.

### IssueStore

`rows` is `issue_blockers.blocker_state` for the pairs in `Gates`; `worker` has the issue as `runWorker` read it, `requests`
the issues as handlers read them before awaiting a body (`Put`, `Comment`, `Retrigger`). `UpdateIssueState` and `UpdateIssue`
are the two ways to write a state. `decided` and `edited` are history variables.

### AttemptFiles

`dir` is the directory: files, with text in them or empty, git's index and HEAD, or less where the baseline failed. `Status`, `Pairings` (which paths that went git
takes for which that came, by similarity: any, but for equal contents), `Listed` and `Changes` are what git and `parseChanges` tell of it. `CollectDiff`, `CollectChange` and `StoreFile` are the stretches of `collectAllArtifacts` between its
awaits, any of whose git commands may fail; `AgentReports` is `session_completed` with artifacts, `Raw` the route that shows one.

### LiveFeed

`store` is the run in the tracker, `view` the run on the page, `replies` a bag of the answers on their way, which arrive in any order or fail.
`agents` are the attempts that write: `Release` gives a run up while its agent goes on (cancel, pause, resume, retrigger, an approving comment,
a hand-off to a plan run, staleness), so that there may be several. `Patched` is an event that reaches a
connected page, `Poll` its poller. `log`, `reader` and `ending` are a stream of the log at the server: the reads of its interval, which does not
wait for its last one (`Polls`), and the watcher's, or the last read (`"other"`), share the
offset, and the last read comes a second after the run is seen to have ended. `wired`, `shown` and `timers` are the page's side of it.

### Algorithms

Each job is one call of one algorithm: `ComputePlanDiff` (LCS, walk, hunks, steps, estimates), `ComputePlanGraph` (Kahn's layers),
`Rehearse` and `RunDag` (the dry run of a script and the layers in which the runner takes up the same `dag()`), `ValidateSchema` and
`SynthesizeFromSchema` (the check of a result and the stub that stands for one in a rehearsal), `Told` (prompt and what the worker adds), `ResolveAgent`,
`BuildGroups`, `LogLines` and `RelatedIssues` (the views), `Scrape` and `RenderMetrics` after a short life of the process: attempts, state changes, scrapes, restarts. An agent's
output is not a single step: `ReadChunk` takes any number of bytes, so that every cut into chunks is tried, and `ParseOutput` is the adapter's turn.
The properties compare with definitions of another kind: a longest common subsequence by all subsets, layers by chains, a schema's keywords one by one, counters by what has happened since the start.

## 3. Runs

Every run passes. The deadlock check is on except in `plan_runner`, `agent_session`, `issue_store`, `live_feed`,
`algorithms` and `attempt_files`, whose behaviours end: a plan that is done, the last attempt over, an answer computed.

| Run | Instance | Question |
|---|---|---|
| `slots_fixed` | a constant limit | Are slots neither lost nor invented, and does no claimed run wait without a slot? |
| `dispatch_core` | two issues in one workspace, two slots, two retries, three events of the kinds that leave a claim to its worker | Are claims, workspaces, processes and attempt numbers exclusive? Does the dispatch implement `IssueLease`? |
| `dispatch_live` | three issues, one slot; two share a workspace, one waits for another; one crash, throw or suggestion | Is every claim given up, every retry run, no candidate starved, no blocked or finished issue dispatched? |
| `dispatch_hostile` | one issue, two slots, every kind of event, three of them, zombies included | Does a claim have a worker whatever happens? |
| `attempt_loop` | one cause an agent may name, beside the worker's own; four attempts, two tool calls, one outside event | Are retries lawful (budget, breaker, no retry of a waiting issue), is success earned (plan made, no report after a failure), and does the issue come to rest? |
| `plan_run` | one caller, two plan runs that it may start in turn or find started for it, one sub-issue each, two operators, two outside events | Are plans run only when approved, always with an executor and to an end? Is a hand-off a call that returns once (`PlanCall`)? Is nobody left waiting for an ended plan, or reopened after its end? |
| `plan_runner` | a DAG of two layers with a gate, a pipeline with a limit, a sequence without keys that catches a failure; two faults, one crash | Does a resumed script take its own results and redo nothing that was done? Does every poll end? |
| `agent_session` | two attempts, one crash or shutdown, one mishap; a timeout of 2 units, a token of 4 more | Do tokens outlive agents, is no agent unattended, is an agent's report its own, do workers and shutdowns end? |
| `issue_store` | a gate and its successor, whose label names a role; one request in flight | Are the blockers' copies right whoever writes, and is a plan decided once? |
| `live_feed` | three sets of bounds: two attempts with two answers in flight, which overtake each other, and two faults; a log of two writes read by two polls and another reader at once; two attempts, a write and a fault | Is no part of a log skipped, and does the page come to show the run and its log? |
| `algorithms` | see below | Do the algorithms do what they are for? |
| `attempt_files` | two attempts, two paths (one of a large file), contents with text or empty, two acts of each agent, one outside event | Are the artifacts of an attempt complete, without duplicates and its own? |

Bounds. Two issues and two slots are what it takes for two workers to meet on an
issue or in a workspace. Three issues on one slot make the workspace guard, the
blocker and the head of the queue matter at once. With `MaxRetries = 2`
there are a first attempt, a retry in the middle and a last one; in `AttemptLoop`, with 3, an attempt may also follow a last overrun and a retrigger. Three events allow one during each
of three attempts, and in the hostile instance a stale release, a request and a crash. In `AttemptLoop`, `MaxCalls = 2` lets an agent
report and emit, or one agent report and the next do so again; the
breaker's threshold is 2 there rather than the code's value so that it trips within the attempts;
`Budget = 1` with attempts of 0 or 1 token crosses the budget at the second attempt.
In `PlanRun` two runs of one caller are needed for an old run to meet a caller that waits for a new
one; two events are an approval and one disturbance, two operators at once on one
run, an approval of each run, or a suggestion and one disturbance (what a caller does in its own attempt, handing over and ending, is no event). Each run has one sub-issue, which is enough for a verdict.
In `PlanRunner` three calls are one more than a layer or a stage, `MaxRetries = 1` has a first and a last try, five sub-issues per call are
what two faults and a crash can lead to, and two faults allow a
cancellation on each side of the crash. In `AgentSession` the times keep the order of the code's values
(the second of grace is shorter than the escalation, files and escalation together are shorter than the token's buffer), which `TimesAssumption`
states; two attempts let an old helper meet a new token. In `AttemptFiles` two paths make a rename, and two attempts an overwriting. The hazards of `LiveFeed` are
independent of each other, so each of its behaviours has one of three sets of bounds (`OneOfThree`): all together are out of TLC's reach.
`Algorithms` tries all pairs of texts of up to four lines of two kinds, and texts of seven lines, some of them gone or changed, for the hunks' windows; plans of up to two steps for the diff, of three and some of four for the graph; scripts of up to two calls and a DAG of three
nodes and three edges, with circles, repeated edges and unknown nodes; values two levels deep, schemas for stubs three; every choice of agent at three levels; tables of three issues and two plan runs;
lives of up to four events; events and comments at, below and above each limit; and every
chunking of outputs that overrun a head of 2 and a tail of 3 bytes.
Slots are interchangeable, so safety runs use symmetry over them; runs with
liveness properties do not.

Fairness. The tick's timer is re-armed after every tick, a failing one included
(`index.ts:241-253`), hence weak fairness of `StartTick` and of the loop's next iteration. A worker's phases
end: hooks and agents have timeouts. Backoffs pass. These actions
are disabled while a tick's body runs, which is short but comes again and again;
the event loop's queue serves every waiting callback between two ticks, hence strong fairness
for them. In `AttemptLoop` weak fairness of `Start` and `Ends` says the same.
In `PlanRun` the tick is weakly fair, agents end, and the clock passes a dry run's timeout and a wall time; the
executor is given no fairness, so that what ends a hanging plan is the tick's look at
the wall time alone.
In `PlanRunner` the timers of polls and of the wall time fire; in `AgentSession` timers fire, hooks and files
take their time and shutdown's loop looks again, while agents and their helpers need never end; in `LiveFeed` timers fire and
requests are answered, while a lost event stream need not come back.
Nothing is assumed of operators, of the agents' tools or of failures.

`dispatch_core` passes because its operators do not retrigger or resume and its
workers do not outlast the heartbeat timeout; both premises are needed (section 5, the first two
observations), and `dispatch_hostile` shows what remains without them. Likewise the conditions in `CopiesRight`
(`edited`), `LogShown` (`strayed`, `late`), `WorkerEnds` (an orphan in `drain`), `OwnReports` (an orphan or a stray speaks), `NoUnattendedAgent` (`strays`),
`ArtifactsComplete` (`whole`, `moved`) and `ContentOfAttempt` (`HasText`) name what the code does not promise, and so do the limits of what some
properties of `Algorithms` claim: `DiffFaithful` (not a step's `after`), `PromptTells` (not which comments and plan runs are told when there is too
much of them), `ViewsRight` (nothing of an issue's own artifacts) and `MetricsTrue` (of the gauges by state, `ReportedStates` only). Each is an observation of section 5.

## 4. Proofs

| Theorem | Statement |
|---|---|
| `SlotsConservedTheorem`, `NoParkedRunTheorem`, `AcquireWithinLimitTheorem` | with a constant limit, for all runs and limits |
| `TypeCorrect` | `Spec => []TypeOK` for `Dispatch` |
| `ClaimHasWorkerTheorem` | a claimed run has a worker that will still give it up; no premise on events |
| `SoleWriterTheorem`, `WorkspaceExclusiveTheorem`, `NoSpuriousDispatchTheorem` | `ClaimsKept => (Spec => []...)` |
| `ImplementsLeaseTheorem` | `ClaimsKept => (Spec => Lease!Spec)`: the dispatch implements the abstract leases |
| `LeaseExclusiveTheorem` | `Lease!Spec => []Lease!Exclusive` |
| `AttemptTypeCorrect`, `RetryLawfulTheorem`, `SuccessEarnedTheorem` | `Spec => []...` for `AttemptLoop`, any causes, budget, threshold, retries, calls and events |
| `PlanTypeCorrect`, `RunningLawfulTheorem` (an executor and an approval), `WaiterHasPlanTheorem` | `Spec => []...` for `PlanRun`, any number of runs, callers, sub-issues and events |
| `EndedStaysEndedTheorem` | `Spec => EndedStaysEnded` for `PlanRun`, an action property |
| `ImplementsCallTheorem` | `Spec => Call!Spec`: plan runs implement the abstract call, any runs, callers, sub-issues and events |
| `CallOwedTheorem` | `Call!Spec => []Call!Owed` |
| `RunnerTypeCorrect`, `OwnResultTheorem`, `NoRedoTheorem` (an action property) | `(\A s \in Scripts : StableKeys(s)) => (Spec => ...)` for `PlanRunner`, any scripts, calls, retries, faults and crashes |
| `StoreTypeCorrect`, `CopiesRightTheorem`, `DecidedOnceTheorem` | `Spec => []...` for `IssueStore`, any issues, gates and requests in flight |
| `FilesTypeCorrect`, `ContentOfAttemptTheorem`, `ArtifactsCompleteTheorem` | `Spec => []...` for `AttemptFiles`, any paths, attempts, acts on the directory and pairings of renames |
| `NoLogGapTheorem` | `Spec => []NoLogGap` for `LiveFeed`, any number of attempts, writes, failures, answers and overlapping reads |
| `TokenOutlivesAgentTheorem`, `NoUnattendedAgentTheorem`, `OwnReportsTheorem` | `Spec => []...` for `AgentSession`, any attempts, crashes, mishaps and times |

Assumptions are those of the modules on their constants (finite sets, an injective
rank, gates between two issues, natural bounds, and for `AgentSession` the order of the times, `TimesAssumption`), and for
the theorems of `Dispatch` that name it also `ClaimsKept`: `Ops` contains neither `retrigger` nor `resume`, and
`StalePhases` is empty.

The slots' invariant is conservation together with "the batch fits what is
available", from which the queue stays empty; they assume `Limits = {L}`, with which `setMax`
changes nothing after the first tick. For `Dispatch` the argument is the code's own. `ClaimHasWorker` is nearly inductive by itself: a
claim creates a worker; a worker leaves `Working` only by an action that
takes the run out of `claimed`, or else another worker of the same issue would have had to claim a run that is claimed already.
`SoleWriter` is not inductive: a worker could be at work on a run that is
`released`, and the tick would claim it again. `WorkerHoldsRun` strengthens it:
while a worker is at work its run is `claimed`, `paused` or `cancelled`, none of
which the tick claims. With `ClaimsKept` only the worker itself leaves these
states, a crash takes the workers with it, and a stale run does not arise, which needs its own
invariant (a claimed run is fresh). `WorkspaceExclusive` follows from these with the guard's
condition: a run at work is not `released`, so the guard sees it.

The refinement needs one more fact, `AttemptsCurrent`: the attempt of a worker before its completion is its run's `next_attempt`, so that
`LastGrant` does not move under a holder. A claim is then a `Grant`: the invariant gives that nobody holds the issue, its neighbours or the
slot, and the number grows because a claim adds one to the row's unless a queued retry has done so. A completion that queues a retry
is a `Return`, as the mapping takes the one off again; pausing or cancelling a queued retry is a `Skip` of its number. `NoSpuriousDispatch` bounds the
attempts by `max_retries` plus the events so far, and is not inductive: an issue may be about to get its next attempt. `Granted` counts that
attempt in as soon as the issue is `Restless` (released with a state other than the one it was released in, or moved under its worker): it takes an event to make
it so, and every event adds one to `ops`, while a completion leaves what it releases at rest, and a worker that assigns a role only puts back the state it started from. `LeftReady` says that what the tick has not reached yet is a candidate still.

For `AttemptLoop` the verdict goes first: lemmas follow it through its seven stages (`Derived` to `VerdictSound`), so that each branch of the transaction has
only their result to deal with. The invariant adds `PlanKnown` (an issue with a plan has had one spawned) and `QueuedIdle` (nobody is at work on
a queued retry, so that no tool hands off or reports meanwhile); a retry queued within the budget stays within, since only a completion spends.

For `PlanRunner` the heart is that every call comes to the same key in every life of the process (`Slot`, computed from the script alone) and that two
calls never share one (`SlotInjective`). `InOrder` says that a call is made only when all before it have settled, and `Indexed` that `phaseCallIndex` counts
the calls of the phase made so far; by `StableKeys` these are exactly the calls before the next one without a key (`KeyOfMade`). Hence `KeyRight` and
`JournalOwn`: an entry under a call's key is of that call. `NoRedo` needs `JournalFresh`: the journal has not changed under the key of a call that this life
has not made, and does not say done for one that is being polled. The proviso is needed: without keys behind the first stage of a pipeline `OwnResult` is false (section 5). It excludes scripts that make calls
without keys side by side in one phase, those of `parallel()` too, though the runner numbers these by their position.

For `PlanRun` the invariant `IInv` is the conjunction of these properties and `ResumedExist`, that an event
`caller_resumed` is about a run that exists: a new run is thereby not woken already, which
`WaiterHasPlan` needs when an agent hands over. In the tick a caller still waiting at the end was
waiting before and has no ended run (`ResumeTyped`), so its own run is not among those just recorded as resumed.
Steps that touch one plan run only, or one caller only, are covered by `PlanStep` and `CallerStep`.
For the refinement `CallInv` adds that what was woken has ended (`ResumedEnded`) and that no job or request is about a run that does not exist (`AbsentIdle`): a hanging dry run,
an executor or a refusal writes a final state without looking at the present one, and could otherwise create a run. `Onward` is then what any step may make of
a run, `WaiterStep` what it may make of a caller, and every step but a hand-off and a creation is a `Turn` whose parameters can be read off its two states.

For `IssueStore` two facts are added to the properties: a row names a blocker that has been created already (`RowsKnown`: creating an
issue refreshes no copies, so there must be none of its state yet), and an issue in `plan_review` has not been decided
on (`Undecided`). Every write goes through `UpdateIssueState` or `UpdateIssue`; a lemma for each shows that it keeps the
invariant from whatever snapshot its caller acts on, so that the actions need little more than to be taken apart.

For `AttemptFiles` completeness has to be followed through the collection. What is to be found (`Seen`) is, from git's answer on, recorded from
git (`Told("git_diff")`), reported by the agent (`Told("mcp")`) or still to be looked at (`Pending`): that is `Found`, and when the collection is idle nothing is
pending. `ChangesSeen` says that git's answer has all of it. A path that is about to be stored has no artifact of git's (`Storing`), from which a path has one at most (`Once`);
that it has not been reported either, and is there still, holds as long as nothing has interfered (`whole`). An attempt's artifacts come from git
only after its agent has ended (`Past`), so a new attempt starts with none, and content is read before the worker settles, hence by its attempt at the latest (`Kept`).

For `LiveFeed` a stream's offset moves only when a reader that was `writing` finishes, so `NoLogGap` needs
`WritingShown`: what is being written has reached the page already. Readers that overlap, however many, may write a part twice; none takes
the offset past what was shown.

For `AgentSession` the invariant `IInv` has three parts beside the types. `Processes`: an attempt has a process only once it
has been spawned, an agent that is alive and not a stray is the one whose pid is stored, and (while the orchestrator is up) the one that is registered and that its worker
watches; a start thereby kills the only such agent there may be. `Clock`: while the agent's files
are written, its token has more left than the files, the timeout and an escalation take; while it runs with its timeout pending, more than
that timeout and an escalation; once the timeout has fired and the agent is alive, some escalation is due (`Due`:
referred to by `killTimer` or lost to a second signal) before the token is. Escalations that are lost are what this part has to carry along:
a second signal replaces the timer, and it is the first that keeps the bound. `Calls`: the file in the workspace has the
running agent's token, so a call under another attempt's is a dead agent's helper's or a stray's.

Only model-checked are the liveness properties, as liveness under fairness is beyond the prover, and the invariants of `Algorithms`, which are statements about what
recursive definitions compute and would need induction over data.

## 5. What the models leave out

*Dispatch.* Deletion of issues; the states `planning`, `plan_review` and
`backlog`; a second process on the same database; timers, `kick` and `stop` (ticks
exclude one another here because nothing a tick awaits leaves the event loop); a role that is
cleared by PUT and assigned once more; an agent whose start fails when its process is there already, which is in `AgentSession`. Runs parked by a
hand-off to a plan are in `AttemptLoop` and `PlanRun` instead.

*AttemptLoop.* One worker at a time, with the backoff passed. Fingerprints are model
values; the wording of summaries, comments and events is left out. An exit code is
zero, not zero, or absent where `spawn()` threw, before or after the agent ran. The summary of an agent
killed by its timeout is used for its tokens only, as in the code. `PlanEnds` is
`tickFinalizedPlans` with `syncParentPlanRunProgress` in the same tick; the cascade of a plan that is
deleted or over time is in `PlanRun` only. `Rests` lets an issue
wait for an operator. `session_completed`'s `handoff_state` is recorded by the code but
never used by the worker, so it is not a parameter.

*PlanRun.* One agent at a time per caller, slots to spare and no other candidates, which are
`Dispatch`'s subject. A caller is not edited or deleted by hand, does not wait for a review that an
operator then decides, and its backoff has passed. Scripts, arguments, budgets, summaries and results
have no effect on control here.

*PlanRunner.* A script's own computation between its calls; the sandbox; the token budget. Sub-issues end
on their own, as `Dispatch` and `AttemptLoop` have it in detail. Results are told apart by the call whose sub-issue they are of.

*AgentSession.* One issue; a worker's phases other than those that concern its agent; heartbeats (`Dispatch`). A pid is not reused
by another program.

*IssueStore.* Attempts and backoffs of a run; columns of an issue other than its state and its role; identifiers.

*AttemptFiles.* Contents are told apart by path, by attempt and by whether there is text in them; exclusions, binary files and encodings are left out.

*LiveFeed.* One page; events other than those of the run; the catch-up by timestamp after a reconnection is a hint here, as the page treats it. One worker prepares at a time,
and a run that is over is not paused.

*Algorithms.* A byte is its place in its line; a text is a sequence of lines; wording, colours and dates are left out. A rehearsal has its
calls before one `dag()`, and the script neither catches errors nor loops on what it gets. Metrics: labels that are the same for all series of an agent
kind (provider, model) and the gauges of the concurrency limit.

### Not modelled

The orchestrator's own log and its rotation, the metrics row of an issue and its export, template syntax, command lines, static files, authentication of
the control plane, the sandbox of scripts, dialogs and the dashboard: file and text plumbing, or views without state that anything else
reads. Migrations run once at start, in order. The statuses in `PROJECT.json` say what is left of each component.

### Observed

Behaviours of the code met while modelling it, none of them the subject of a property. Several disagree with
what the repository says of itself; those lines are quoted.

Dispatch, worker and completion:

- `retrigger` releases a claimed run without stopping its worker (`http/routes/issues.ts:269`), and the next tick starts a second;
  `docs/adr/003-orchestration-convergence-audit.md:33-36` says that a second claim, from "a manual retrigger" too, "affects zero rows and is rejected";
- a run that goes stale while its worker prepares has no process to cancel (`orchestrator/index.ts:182`); the worker starts its agent later, beside the
  new one, for all that ADR 003 says (`:127`) "A re-dispatched issue can no longer meet a zombie agent still writing to its workspace";
- after a hand-off for review, `request-changes` sets the state and `last_issue_state` to `todo` and leaves the run in `in_review`
  (`http/routes/issues.ts:174`): the candidate query never returns the issue, though `skills/nano-symphony/SKILL.md:229` promises
  that the note "is injected into the next attempt's prompt";
- `session_completed` stores the fingerprint (`mcp/tools.ts:513`) before the worker compares it with the stored one, so from attempt 1 on any
  reported fingerprint repeats itself; `worker.ts:620`: "if same fingerprint repeats and we've seen it before, skip retry";
- the latest `session_completed` of the issue is taken whichever attempt wrote it (`worker.ts:443`), so an agent that crashes in silence may succeed on
  an earlier report; `docs/standards/agent-exit-contract.md:17`: "If the agent crashes before calling this, the signal does not exist.";
- a caller put back after its plan (`plan-tick.ts:79`) keeps the run row of its hand-off and is never dispatched; `plan-tick.ts:76` says "put caller back to
  schedulable state";
- the role assignment before the first attempt (`worker.ts:299-302`) writes back the state as the worker read it: an issue moved meanwhile, by a
  `suggest_state_transition` or a cancellation, is moved back;
- pausing and resuming gives an issue a second agent; a cancelled or paused run is
  rewritten by its worker's completion, and cancelling before the spawn stops nothing;
- a throw or a workspace that cannot be made leads to another dispatch at the next tick,
  without a limit;
- a due retry or a top candidate with a workspace conflict takes a place in the batch
  (head-of-line blocking) although others could run;
- a fingerprint cleared by a rejected report of success hides a repeated `exitcode_mismatch`;
- the budget is not looked at in an attempt in which `spawn()` threw (`worker.ts:577`): after an overrun and a retrigger, a report of success
  that the plan guard rejects queues a retry beyond it, though `docs/metrics-cost-and-reliability.md:26-29` has "Budgets as enforcement, not just telemetry",
  which "abort work when spend exceeds the limit"; hence the exception in `RetryLawful`;
- a crash loses the tokens of the attempts in flight, which the budget then does not see;
- lowering the concurrency limit below the running workers makes `setMax` under-count them (`max - count`), so that a later
  `setMax` or `release` offers slots that are taken; `AcquireWithinLimit` fails as soon as `Limits` has two members;
- the fallback for an emitted result does not look at the exit code, so an attempt that emitted and then
  crashed is a success, although `worker.ts:440-442` speaks of preventing success after a non-zero exit;
- the metrics row of an issue goes stale when an operator closes it after a reopening, and is not written when only an operator closes it.

Plan runs and their runner:

- a plan run that was dry-running when the process died stays in `dry_running`: no tick looks at it, for all that
  `plan-tick.ts:3` calls the sub-loops restartable;
- `finishPlanRun` has no guard: a cancelled plan run becomes failed or done when its executor or a hanging dry run ends;
- the cascade of a deleted or expired plan run cancels the waiting caller along with the sub-issues, since both carry
  its `plan_run_id`; the caller keeps the link and can never hand over again;
- a finished plan run settles its caller again at every tick while the caller is open, even if
  the caller was retriggered or waits for a newer plan run;
- a plan run made by `POST /plan-runs` in an issue's name wakes it at its end even if the issue has handed over to another run meanwhile, which is then not
  waited for (`plan-tick.ts:77` removes whatever link there is); `PlanCall` has it in its `Turn`;
- approval and refusal check the state before they await the body, so a refusal may cancel a plan that is running already;
- calls without keys behind the first stage of a pipeline are numbered in the order in which other sub-issues end (`runner.ts:93`): if the second of two
  items goes first, and the process dies when its second stage is done and both first stages are, the restart makes the first item's second stage first, which
  returns the other's result; `sdk.ts:20-22` promises a "Stable identity for crash-resume". `OwnResult` fails for such a script, hence `StableKeys`;
- a sub-issue journalled as cancelled before a crash makes its call return null after the restart (`runner.ts:98`), without the retry or the
  failure it would have had; an issue created but not yet journalled as done is made again;
- a retry lowers `issueCount` by one before it makes its issue, so the issues made may exceed `max_issues`; branches
  left behind by a failure go on creating issues, each call's polls adding a listener to the abort signal every second;
- a rehearsal admits twice `max_issues` (`dry-run.ts:67`), of which the runner then refuses half; its stubs read no bounds of a schema, so a script may
  branch on a result that none of its issues could give.

Agents and tokens:

- a helper that outlives its agent and holds its pipes keeps the worker, and its slot, for as long as it lives: after the root's exit nothing has a timeout;
- a throw between `Bun.spawn` and the timeout (storing the pid, `spawner/index.ts:204`; writing the prompt, `:217`) leaves a process that is registered and has
  a heartbeat, but no timeout, and whose worker has gone on to the next attempt; hence the exceptions in `NoUnattendedAgent` and `OwnReports`;
- a second `killFn` forgets the timer of the first, which then fires after the exit; `index.ts:46-47` says that a pid is verified to
  look like a child process, which the code does not do;
- a shutdown exits as soon as the process table is empty, though a worker may be in the middle of its completion;
- tokens are verified before the body is awaited; the token of a worker that throws is not revoked; an orphaned helper on the command
  line reads the token of the next attempt.

Issues, blockers and routes:

- posting a blocker is refused for every issue: the schema requires a UUID (`http/schemas.ts:98-100`) and issues have nanoids. Blockers come
  from plan DAGs only, and a gate deleted before its successor was made blocks it for ever;
- `suggest_state_transition` by the agent of a caller that its plan has settled reopens it (`mcp/tools.ts:342`), which `EndedStaysEnded` admits;
- PUT and the role assignment (`updateIssue`) do not refresh the copies, write back the state as read, and null what they are not given;
  `retrigger` and comments act on the state as read;
- an identifier is inserted and then updated outside a transaction; names that sanitize alike share a directory; deleting an issue
  whose override names another's managed directory deletes that; the agent of a deleted issue is not stopped, and leaves orphaned rows.

Files and artifacts:

- `parseChanges` looks for `R` (`orchestrator/diff.ts:109`), and git prints `R` with a similarity, `R087` or `R100`: a file that was moved, moved and edited, or
  removed beside a similar new one leaves no artifact; a file removed from the index but present is listed as
  deleted; what the agent commits itself leaves no diff against HEAD, hence no artifact; a git command that fails or takes too long passes for no changes in the end, though `diff.ts` throws
  rather than have it "misread as 'no changes'", since the caller catches it;
- a file that was kept empty is falsy in the raw route (`http/routes/artifacts.ts:55`), which then shows the workspace's, as a later attempt may have made it;
- artifacts over 64 KB refer to files in the workspace, which later attempts overwrite; two reports may insert a path twice;
- "Non-blocking artifact collection" (`worker.ts:420`) is awaited, which `ContentOfAttempt` depends on;
- `list_related_artifacts`, which "Excludes this issue's own artifacts" (`mcp/tools.ts:214`), includes the caller's own after a hand-off, when it carries the `plan_run_id` of a run it has called.

Prompt, output and schema:

- comments are cut from their newest (`prompt/renderer.ts:67` says "drop oldest first"), and plan invocations from their newest
  too (`worker.ts:233`: "Truncate oldest if total size exceeds limit"), the list being newest first; of two unheard notes only the newer is told, and none to a
  retry after the first attempt; a note of the same millisecond as a start is not told, nor is an event
  that has neither note nor feedback (`renderer.ts:127`; no route writes one);
- the last line of an output is lost when it straddles the cut of the head, though `spawner/index.ts:352-354` says that the final
  result line is found;
- `minItems` counts only beside `items`, `enum` ends the check of a value, `{}` equals `[]`, and a schema `false` accepts everything.

Views and streams:

- two open calls of one tool are both shown with the first result; a call whose agent died takes the result of a later attempt; nano's last
  tool is shared by all agents of the process;
- in the diff a closed hunk's old and new starts are overwritten, leading context may repeat the previous hunk's, and a changed `after` is not reported;
  no code records `plan_submitted`, which the diff and the graph read;
- `/metrics` has no gauge for issues in `backlog`, `blocked`, `planning`, `plan_review` and `awaiting_plan` (`http/routes/metrics.ts:24`), though it "always reflects
  the DB state" (`:18`); the `attempts` of an issue's metrics row are counted from zero;
- a page that disconnects while catching up leaks its place among fifty; events of the same millisecond are lost at a reconnection; the dashboard
  has neither a poller nor a guard against late answers, and its board no column for `blocked` and `awaiting_plan`;
- a log stream may send a part twice, does not show what an agent writes a second after its run was given up
  (`released` is final to it, after a hand-off, a retrigger, a resumption, an approving comment or for staleness too; `http/routes/runs.ts:70`), and does not end for a run that hands off or waits for its
  retry; a pending reconnection brings back the log of an older attempt.

## 6. Plan

Done, in this order: `DispatchSlots`, `Dispatch`, `IssueLease`, `DispatchLease`, `Completion`, `AttemptLoop`, `PlanRun`,
because everything is dispatched through the first of them; then `PlanRunner`, `AgentSession`, `IssueStore`, `AttemptFiles`,
`LiveFeed` and the algorithms.

`PlanCall` and `PlanRunCall` came last, with their theorems.

Left of the models: a composition of `PlanRun` with `AttemptLoop` on the shared rows of a caller.
