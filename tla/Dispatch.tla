------------------------------- MODULE Dispatch -------------------------------
(***************************************************************************)
(* The dispatch of issues to agents: the tick of the orchestrator, the     *)
(* workers it starts, the agent processes they wait for, the two tables    *)
(* they share (issues and symphony_runs) and what operators and agents do  *)
(* to those tables meanwhile.                                              *)
(*                                                                         *)
(* The program is one event loop.  The body of a tick runs without         *)
(* yielding: while `left` holds issues it has still to dispatch, nothing   *)
(* but the rest of the tick (or a crash) happens.  Every other action is   *)
(* one uninterrupted stretch of a worker, or one HTTP or MCP handler.      *)
(***************************************************************************)
EXTENDS Integers, FiniteSets

CONSTANTS
  Issues,
  Slots,       \* the semaphore's slots: an idle slot is an available one
  MaxRetries,  \* agent.max_retries
  Override,    \* issues.workspace_path, resolved; NoPath where it is empty
  Rank,        \* the order of the candidate query: priority, then created_at
  BlockedBy,   \* issue_blockers: the issues an issue waits for
  Ops,         \* the operator, agent and failure events of the instance
  StalePhases, \* worker phases that may outlast the heartbeat timeout
  MaxOps,      \* bound on the number of those events
  NoPath, None

Candidacy == {"todo", "in_progress", "in_review"}
WaitStates == {"awaiting_plan", "blocked"}
FinalStates == {"done", "cancelled"}
IssueStates == Candidacy \cup WaitStates \cup FinalStates
RunStates == {"none", "released", "claimed", "retry_queued", "in_review",
              "cancelled", "paused"}
Phases == {"idle", "prep", "running", "post", "logging"}
Outcomes == {"success", "handoff", "retry", "same_cause", "exhausted",
             "breaker", "abandoned"}

ASSUME SlotsAssumption == None \notin Slots
ASSUME BoundsAssumption == MaxRetries \in Nat /\ MaxOps \in Nat
ASSUME PhasesAssumption == StalePhases \subseteq {"prep", "running", "post"}
ASSUME FiniteAssumption == IsFiniteSet(Issues) /\ IsFiniteSet(Slots)
ASSUME RankAssumption ==
  /\ Rank \in [Issues -> Int]
  /\ \A i, j \in Issues : Rank[i] = Rank[j] => i = j
ASSUME TablesAssumption == DOMAIN Override = Issues /\ BlockedBy \in [Issues -> SUBSET Issues]

VARIABLES
  state,   \* issues.state
  seen,    \* issue_blockers.blocker_state, in the rows that name the issue
  run,     \* symphony_runs; st = "none" where there is no row
  wk,      \* the worker in each slot, with its snapshot of the issue
  proc,    \* the spawner's activeProcesses: the slot of the issue's agent
  orphans, \* issues with an agent that outlived the orchestrator
  left,    \* issues the present tick has still to dispatch
  ops      \* events so far

vars == <<state, seen, run, wk, proc, orphans, left, ops>>

Idle == [pc |-> "idle", issue |-> None, attempt |-> 0, snap |-> "todo",
         signalled |-> FALSE]

Free == {s \in Slots : wk[s].pc = "idle"}
\* Workers that have not run their completion transaction.
Working(i) == {s \in Slots : wk[s].issue = i /\ wk[s].pc \in {"prep", "running", "post"}}
LiveAgents == {s \in Slots : wk[s].pc = "running"}
------------------------------------------------------------------------------
Init ==
  /\ state = [i \in Issues |-> "todo"]
  /\ seen = state
  /\ run = [i \in Issues |-> [st |-> "none", next |-> 0, lis |-> "", due |-> FALSE,
                              fresh |-> FALSE, pid |-> None, cur |-> -1]]
  /\ wk = [s \in Slots |-> Idle]
  /\ proc = [i \in Issues |-> None]
  /\ orphans = {}
  /\ left = {}
  /\ ops = 0

\* updateIssueState: the rows of issue_blockers follow the issue.
UpdateIssueState(i, st) ==
  /\ state' = [state EXCEPT ![i] = st]
  /\ seen' = [seen EXCEPT ![i] = st]

\* releaseIssue, an UPDATE: without a row it changes nothing.
Released(i, st) == IF run[i].st = "none" THEN run ELSE [run EXCEPT ![i].st = st]

Event(o) == o \in Ops /\ ops < MaxOps /\ ops' = ops + 1

\* cancelAgent: signals the process registered for the issue, if there is one.
Signal(agents) ==
  wk' = [s \in Slots |->
           IF \E i \in agents : proc[i] = s THEN [wk[s] EXCEPT !.signalled = TRUE]
                                            ELSE wk[s]]
------------------------------------------------------------------------------
(* The tick. *)

\* fetchDueRetries: neither the issue's state nor its blockers are looked at.
DueRetries == {i \in Issues : run[i].st = "retry_queued" /\ run[i].due}

\* The WHERE of getCandidates; a run that is not there has nothing to exclude it.
Candidate(i) ==
  /\ state[i] \in Candidacy
  /\ \/ run[i].st = "none"
     \/ run[i].st = "released" /\ run[i].lis # state[i]
     \/ run[i].st = "retry_queued" /\ run[i].lis # state[i] /\ run[i].due
  /\ \A b \in BlockedBy[i] : seen[b] \in FinalStates

\* The first n candidates in the query's order.
Candidates(n) ==
  {i \in Issues : Candidate(i) /\ Cardinality({j \in Issues : Candidate(j) /\ Rank[j] < Rank[i]}) < n}

\* toDispatch for k slots: due retries in no particular order, then candidates.
ToDispatch(k, d) ==
  LET n == Cardinality(DueRetries) IN
  IF n >= k THEN d \subseteq DueRetries /\ Cardinality(d) = k
            ELSE d = DueRetries \cup Candidates(k - n)

\* The stale runs without the condition on the heartbeat.
StaleUnconditionally == {i \in Issues : run[i].st = "claimed"}

\* fetchStaleRuns: claimed, and no heartbeat within the timeout.
Stale == {i \in Issues : run[i].st = "claimed" /\ ~run[i].fresh}

\* A tick with a slot to fill: choose what to dispatch, then release stale runs.
StartTick ==
  /\ left = {}
  /\ Free # {}
  /\ \E d \in SUBSET Issues : ToDispatch(Cardinality(Free), d) /\ left' = d
  /\ Signal(Stale)
  /\ run' = [i \in Issues |-> IF i \in Stale THEN [run[i] EXCEPT !.st = "released"] ELSE run[i]]
  /\ LET back == {i \in Stale : state[i] \in {"in_progress", "awaiting_plan"}} IN
     /\ state' = [i \in Issues |-> IF i \in back THEN "todo" ELSE state[i]]
     /\ seen' = [i \in Issues |-> IF i \in back THEN "todo" ELSE seen[i]]
  /\ UNCHANGED <<proc, orphans, ops>>

\* Retries come before candidates, candidates in the query's order.
Upcoming(i) ==
  /\ i \in left
  /\ \/ run[i].st = "retry_queued"
     \/ \A j \in left : run[j].st # "retry_queued" /\ Rank[i] <= Rank[j]

\* findWorkspaceConflict as it would be if only claimed runs held their path.
ConflictOfClaimed(i) ==
  /\ Override[i] # NoPath
  /\ \E j \in Issues \ {i} : run[j].st = "claimed" /\ Override[j] = Override[i]

\* The same if the issue's own run were not left out.
ConflictWithSelf(i) ==
  /\ Override[i] # NoPath
  /\ \E j \in Issues : run[j].st \notin {"none", "released"} /\ Override[j] = Override[i]

\* findWorkspaceConflict: another run that is not released has the same path.
Conflict(i) ==
  /\ Override[i] # NoPath
  /\ \E j \in Issues \ {i} : run[j].st \notin {"none", "released"} /\ Override[j] = Override[i]

Defer(i) ==
  /\ Upcoming(i)
  /\ Conflict(i)
  /\ left' = left \ {i}
  /\ UNCHANGED <<state, seen, run, wk, proc, orphans, ops>>

\* What the claim writes if a fresh claim went on with the attempt it finds.
AttemptAsFound(i) == run[i].next

\* next_attempt of a retry; one more for a run that was released; 0 at first.
Attempt(i) ==
  IF run[i].st = "none" THEN 0
  ELSE IF run[i].st = "retry_queued" THEN run[i].next ELSE run[i].next + 1

\* The claim transaction, then runWorker up to its first await.
Claim(i, s) ==
  /\ Upcoming(i)
  /\ ~Conflict(i)
  /\ s \in Free
  /\ run[i].st \in {"none", "released", "retry_queued"}
  /\ run' = [run EXCEPT ![i].st = "claimed", ![i].next = Attempt(i), ![i].fresh = TRUE]
  /\ wk' = [wk EXCEPT ![s] = [pc |-> "prep", issue |-> i, attempt |-> Attempt(i),
                              snap |-> state[i], signalled |-> FALSE]]
  /\ left' = left \ {i}
  /\ UNCHANGED <<state, seen, proc, orphans, ops>>
------------------------------------------------------------------------------
(* The worker, and the agent process it waits for. *)

\* The role that a label names is written down before the first attempt of an issue
\* without one, and with it the issue as it was claimed: updateIssue, which leaves
\* the rows of issue_blockers alone.
AssignRole(s) ==
  LET i == wk[s].issue IN
  \/ UNCHANGED state
  \/ run[i].cur = -1 /\ state' = [state EXCEPT ![i] = wk[s].snap]

\* The workspace is ready, the hooks have run and the agent starts: the attempt
\* becomes the current one, the process is registered and its pid stored.
Spawn(s) ==
  /\ left = {}
  /\ wk[s].pc = "prep"
  /\ LET i == wk[s].issue IN
     /\ run' = [run EXCEPT ![i].cur = wk[s].attempt, ![i].pid = s]
     /\ proc' = [proc EXCEPT ![i] = s]
  /\ AssignRole(s)
  /\ wk' = [wk EXCEPT ![s].pc = "running"]
  /\ UNCHANGED <<seen, orphans, left, ops>>

\* The agent does not start: the worker goes on without a result.
SpawnFails(s) ==
  /\ left = {}
  /\ wk[s].pc = "prep"
  /\ run' = [run EXCEPT ![wk[s].issue].cur = wk[s].attempt, ![wk[s].issue].pid = None]
  /\ AssignRole(s)
  /\ wk' = [wk EXCEPT ![s].pc = "post"]
  /\ UNCHANGED <<seen, proc, orphans, left, ops>>

\* A prompt failure that releases the run and no more.
PromptFailsForgetting(s) ==
  /\ left = {}
  /\ wk[s].pc = "prep"
  /\ run' = [run EXCEPT ![wk[s].issue].st = "released"]
  /\ wk' = [wk EXCEPT ![s].pc = "logging"]
  /\ UNCHANGED <<state, seen, proc, orphans, left, ops>>

\* The prompt does not render: the issue waits for a change of its state.
PromptFails(s) ==
  /\ left = {}
  /\ wk[s].pc = "prep"
  /\ run' = [run EXCEPT ![wk[s].issue].st = "released", ![wk[s].issue].lis = wk[s].snap]
  /\ wk' = [wk EXCEPT ![s].pc = "logging"]
  /\ UNCHANGED <<state, seen, proc, orphans, left, ops>>

\* The process-level heartbeat.
Beat(s) ==
  /\ left = {}
  /\ wk[s].pc = "running"
  /\ ~run[wk[s].issue].fresh
  /\ run' = [run EXCEPT ![wk[s].issue].fresh = TRUE]
  /\ UNCHANGED <<state, seen, wk, proc, orphans, left, ops>>

\* The agent exits, of itself, by its timeout or by a signal.  The entry and
\* the pid are dropped under the issue's key, whoever wrote them last.
Exit(s) ==
  /\ left = {}
  /\ wk[s].pc = "running"
  /\ proc' = [proc EXCEPT ![wk[s].issue] = None]
  /\ run' = [run EXCEPT ![wk[s].issue].pid = None]
  /\ wk' = [wk EXCEPT ![s].pc = "post"]
  /\ UNCHANGED <<state, seen, orphans, left, ops>>

\* A worker that throws, without the finally.
ThrowKeepingClaim(s) ==
  /\ left = {}
  /\ wk[s].pc \in {"prep", "post"}
  /\ Event("throw")
  /\ wk' = [wk EXCEPT ![s].pc = "logging"]
  /\ UNCHANGED <<state, seen, run, proc, orphans, left>>

\* The workspace cannot be made, or the transaction fails: the finally releases
\* a claimed run and leaves last_issue_state as it was.
Throw(s) ==
  /\ left = {}
  /\ wk[s].pc \in {"prep", "post"}
  /\ Event("throw")
  /\ LET i == wk[s].issue IN
     run' = IF run[i].st = "claimed" THEN [run EXCEPT ![i].st = "released"] ELSE run
  /\ wk' = [wk EXCEPT ![s].pc = "logging"]
  /\ UNCHANGED <<state, seen, proc, orphans, left>>

\* What the completion of attempt a may come to; which cause led to it is the
\* matter of another module.
Possible(o, a) ==
  /\ o = "retry" => a < MaxRetries
  /\ o = "same_cause" => a >= 1 /\ a < MaxRetries
  /\ o = "exhausted" => a >= MaxRetries

\* state_transitions, as the workflow's defaults have it.
Target(o) ==
  CASE o = "success" -> "done"
    [] o = "handoff" -> "in_review"
    [] o \in {"abandoned", "exhausted"} -> "cancelled"
    [] o \in {"same_cause", "breaker"} -> "blocked"

\* The state written: none for a retry, none if it is the snapshot's.  A tripped
\* breaker has written the state for abandoned before it writes blocked.
Written(o, snap) ==
  IF o = "retry" THEN {}
  ELSE IF o = "breaker" /\ snap = "blocked" THEN {"cancelled"}
  ELSE {Target(o)} \ {snap}

\* The run row that the completion transaction leaves.  After the last retry
\* last_issue_state is the snapshot's state, not the state just written.
Settled(i, o, a, snap) ==
  IF o = "retry" THEN [run[i] EXCEPT !.st = "retry_queued", !.next = a + 1, !.due = FALSE]
  ELSE [run[i] EXCEPT !.st = IF o = "handoff" THEN "in_review" ELSE "released",
                      !.lis = IF o = "exhausted" THEN snap ELSE Target(o)]

\* The completion transaction: it looks at the snapshot and at its own attempt,
\* and never at who holds the run.
Complete(s) ==
  /\ left = {}
  /\ wk[s].pc = "post"
  /\ \E o \in Outcomes :
       LET i == wk[s].issue IN
       LET a == wk[s].attempt IN
       LET w == Written(o, wk[s].snap) IN
       /\ Possible(o, a)
       /\ run' = [run EXCEPT ![i] = Settled(i, o, a, wk[s].snap)]
       /\ \/ w = {} /\ UNCHANGED <<state, seen>>
          \/ \E st \in w : UpdateIssueState(i, st)
  /\ wk' = [wk EXCEPT ![s].pc = "logging"]
  /\ UNCHANGED <<proc, orphans, left, ops>>

\* The run log is written and the slot released.
Log(s) ==
  /\ left = {}
  /\ wk[s].pc = "logging"
  /\ wk' = [wk EXCEPT ![s] = Idle]
  /\ UNCHANGED <<state, seen, run, proc, orphans, left, ops>>
------------------------------------------------------------------------------
(* Time, crashes, agents' tools and operators' requests. *)

\* The backoff of a retry passes.
Due(i) ==
  /\ left = {}
  /\ run[i].st = "retry_queued"
  /\ ~run[i].due
  /\ run' = [run EXCEPT ![i].due = TRUE]
  /\ UNCHANGED <<state, seen, wk, proc, orphans, left, ops>>

\* The heartbeat timeout passes without a heartbeat.  Nothing beats before the
\* agent runs and after it has exited; while it runs the beat comes every 30 or
\* 60 seconds, and AGENT_HEARTBEAT_TIMEOUT_MS may be shorter than that.
Age(i) ==
  /\ left = {}
  /\ run[i].st = "claimed" /\ run[i].fresh
  /\ \A s \in Working(i) : wk[s].pc \in StalePhases
  /\ Event("age")
  /\ run' = [run EXCEPT ![i].fresh = FALSE]
  /\ UNCHANGED <<state, seen, wk, proc, orphans, left>>

\* A start-up that leaves claimed runs as they are.
RestartKeepingClaims ==
  /\ Event("crash")
  /\ orphans' = orphans \cup {wk[s].issue : s \in {t \in LiveAgents : run[wk[t].issue].pid # t}}
  /\ run' = [i \in Issues |-> [run[i] EXCEPT !.pid = None]]
  /\ wk' = [s \in Slots |-> Idle]
  /\ proc' = [i \in Issues |-> None]
  /\ left' = {}
  /\ UNCHANGED <<state, seen>>

\* The orchestrator dies at any point, in the middle of a tick too, and starts
\* again: claimed runs are released and the stored pids killed.  An agent whose
\* pid is not the one stored lives on.
CrashRestart ==
  /\ Event("crash")
  /\ orphans' = orphans \cup {wk[s].issue : s \in {t \in LiveAgents : run[wk[t].issue].pid # t}}
  /\ run' = [i \in Issues |->
               [run[i] EXCEPT !.st = IF @ = "claimed" THEN "released" ELSE @, !.pid = None]]
  /\ wk' = [s \in Slots |-> Idle]
  /\ proc' = [i \in Issues |-> None]
  /\ left' = {}
  /\ UNCHANGED <<state, seen>>

OrphanExits(i) ==
  /\ left = {}
  /\ i \in orphans
  /\ orphans' = orphans \ {i}
  /\ UNCHANGED <<state, seen, run, wk, proc, left, ops>>

\* suggest_state_transition, from the agent of slot s.
Suggest(s) ==
  /\ left = {}
  /\ wk[s].pc = "running"
  /\ Event("suggest")
  /\ \E st \in Candidacy : UpdateIssueState(wk[s].issue, st)
  /\ UNCHANGED <<run, wk, proc, orphans, left>>

\* POST /issues/:uuid/retrigger
Retrigger(i) ==
  /\ left = {}
  /\ Event("retrigger")
  /\ \/ state[i] \in Candidacy /\ UNCHANGED <<state, seen>>
     \/ \E st \in Candidacy \ {state[i]} : UpdateIssueState(i, st)
  /\ run' = IF run[i].st = "none" THEN run
            ELSE [run EXCEPT ![i].st = "released", ![i].lis = ""]
  /\ UNCHANGED <<wk, proc, orphans, left>>

\* POST /runs/:issueUuid/resume, and releaseForReschedule, which an "/approve"
\* comment comes to: the claim goes, the agent stays.
Resume(i) ==
  /\ left = {}
  /\ Event("resume")
  /\ run' = Released(i, "released")
  /\ UNCHANGED <<state, seen, wk, proc, orphans, left>>

\* POST /runs/:issueUuid/pause: the agent goes on.
Pause(i) ==
  /\ left = {}
  /\ Event("pause")
  /\ run' = Released(i, "paused")
  /\ UNCHANGED <<state, seen, wk, proc, orphans, left>>

\* POST /runs/:issueUuid/cancel: a worker that has not spawned is not stopped.
Cancel(i) ==
  /\ left = {}
  /\ Event("cancel")
  /\ Signal({i})
  /\ run' = Released(i, "cancelled")
  /\ UNCHANGED <<state, seen, proc, orphans, left>>

\* POST /issues/:uuid/approve and /request-changes, from any state.
Review(i) ==
  /\ left = {}
  /\ Event("review")
  /\ \E st \in {"done", "todo"} :
       /\ UpdateIssueState(i, st)
       /\ run' = IF run[i].st = "none" THEN run ELSE [run EXCEPT ![i].lis = st]
  /\ UNCHANGED <<wk, proc, orphans, left>>

\* PUT /issues/:uuid: updateIssue leaves the rows of issue_blockers alone.
Put(i) ==
  /\ left = {}
  /\ Event("put")
  /\ \E st \in IssueStates \ {"blocked"} : state' = [state EXCEPT ![i] = st]
  /\ UNCHANGED <<seen, run, wk, proc, orphans, left>>

WorkerStep(s) == Spawn(s) \/ SpawnFails(s) \/ PromptFails(s) \/ Exit(s) \/ Complete(s) \/ Log(s)

Operator(i) == Retrigger(i) \/ Resume(i) \/ Pause(i) \/ Cancel(i) \/ Review(i) \/ Put(i)

Next ==
  \/ StartTick
  \/ \E i \in Issues : Defer(i) \/ Due(i) \/ Age(i) \/ OrphanExits(i) \/ Operator(i)
  \/ \E i \in Issues, s \in Slots : Claim(i, s)
  \/ \E s \in Slots : WorkerStep(s) \/ Throw(s) \/ Beat(s) \/ Suggest(s)
  \/ CrashRestart

Spec == Init /\ [][Next]_vars

\* The tick's timer fires again and again, every phase of a worker ends (agents
\* have timeouts), and backoffs pass.  Ticks interrupt the rest of the program
\* for the length of their body only, which the event loop's queue lets nothing
\* wait for twice: hence strong fairness where `left` disables an action.
Fairness ==
  /\ WF_vars(StartTick)
  /\ \A i \in Issues : SF_vars(Due(i)) /\ WF_vars(Defer(i) \/ \E s \in Slots : Claim(i, s))
  /\ \A s \in Slots : SF_vars(WorkerStep(s))

FairSpec == Spec /\ Fairness
------------------------------------------------------------------------------
Run == [st : RunStates, next : Nat, lis : IssueStates \cup {""}, due : BOOLEAN,
        fresh : BOOLEAN, pid : Slots \cup {None}, cur : Nat \cup {-1}]
Worker == [pc : Phases, issue : Issues \cup {None}, attempt : Nat, snap : IssueStates,
           signalled : BOOLEAN]

TypeOK ==
  /\ state \in [Issues -> IssueStates]
  /\ seen \in [Issues -> IssueStates]
  /\ run \in [Issues -> Run]
  /\ wk \in [Slots -> Worker]
  /\ \A s \in Slots : wk[s].pc # "idle" => wk[s].issue \in Issues
  /\ proc \in [Issues -> Slots \cup {None}]
  /\ orphans \subseteq Issues
  /\ left \subseteq Issues
  /\ ops \in 0..MaxOps

\* Whatever operators, agents and crashes do: a claimed run has a worker that
\* has still to run its completion or its finally, so that no claim is stuck
\* for want of anyone who would give it up (worker.ts:590-739, index.ts:37-43).
ClaimHasWorker == \A i \in Issues : run[i].st = "claimed" => Working(i) # {}

\* Without an event an issue is dispatched once and retried MaxRetries times:
\* no path through the worker leaves an issue that the next tick picks again
\* (the note on last_issue_state at worker.ts:598-599, worker.ts:289-291).
NoSpuriousDispatch == \A i \in Issues : run[i].next <= MaxRetries + ops

\* "Single-writer per issue" (ADR 003): one worker at most is between the
\* claim of an issue and its completion.
SoleWriter == \A i \in Issues : \A s, t \in Working(i) : s = t

\* A run whose worker is at work cannot be claimed again; this is what makes
\* SoleWriter inductive.
WorkerHoldsRun ==
  \A s \in Slots : wk[s].pc \in {"prep", "running", "post"} =>
    run[wk[s].issue].st \in {"claimed", "paused", "cancelled"}

\* Two issues that name the same external workspace are never at work there
\* at the same time (ADR 003, findWorkspaceConflict).
WorkspaceExclusive ==
  \A i, j \in Issues :
    i # j /\ Override[i] = Override[j] /\ Override[i] # NoPath => Working(i) = {} \/ Working(j) = {}

\* Every claim is given up.
ClaimsEnd == \A i \in Issues : run[i].st = "claimed" ~> run[i].st # "claimed"

\* A queued retry is dispatched: a workspace conflict only delays it.
RetriesRun == \A i \in Issues : run[i].st = "retry_queued" ~> run[i].st # "retry_queued"

Parked == \E i \in Issues : run[i].st \in {"in_review", "cancelled", "paused"}

\* A candidate does not wait for ever, unless a parked run keeps a workspace.
NoStarvation == \A i \in Issues : []<>(Candidate(i) => Parked \/ run[i].st = "claimed")
==============================================================================
