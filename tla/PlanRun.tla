------------------------------- MODULE PlanRun -------------------------------
(***************************************************************************)
(* Plan runs: a calling agent hands its issue to a plan run and the issue  *)
(* waits; the plan is tried dry, approved by an operator and executed; the *)
(* tick wakes the caller when it has ended (orchestrator/plan-tick.ts,     *)
(* plan-progress.ts, plan-executor.ts, http/routes/plan-runs.ts).          *)
(*                                                                         *)
(* What the executor does inside, its journal and its sub-issues one by    *)
(* one, is the matter of PlanRunner.  A caller has one worker at a time    *)
(* and slots suffice, which is the matter of Dispatch.                     *)
(***************************************************************************)
EXTENDS Integers, FiniteSets

CONSTANTS
  Runs,      \* plan runs
  Callers,   \* issues that call plan runs
  CallerOf,  \* plan_runs.caller_issue_uuid; None for a run without a caller
  Subs,      \* names for the sub-issues of a run
  Operators, \* who may send requests about a plan run
  Ops,       \* the events of the instance
  MaxOps,    \* bound on their number
  None

Final == {"done", "failed", "cancelled"}
PlanStates == {"absent", "pending", "dry_running", "awaiting_approval", "running"} \cup Final
Finished == {"done", "cancelled"}
Terminal == Finished \cup {"blocked"}
SubStates == {"none", "open"} \cup Terminal
Active == {"todo", "in_progress"}
IssueStates == Active \cup {"awaiting_plan", "in_review"} \cup Terminal
RowStates == {"none", "released", "claimed", "retry_queued", "awaiting_plan", "in_review"}

ASSUME CallersAssumption == CallerOf \in [Runs -> Callers \cup {None}] /\ None \notin Callers \cup Runs
ASSUME OpsAssumption == MaxOps \in Nat

VARIABLES
  plan,    \* plan_runs: state and approval_status; the job in flight, a dry run
           \* or an executor; whether its wall time has passed; what the operators'
           \* requests, which have checked the state, are about to write
  sub,     \* the states of the issues a run has created
  caller,  \* the caller's row in issues, its run row, and whether it has a worker
  resumed, \* runs for which caller_resumed is recorded
  ops

vars == <<plan, sub, caller, resumed, ops>>

Request == Operators \X {"approve", "reject"}

Absent == [st |-> "absent", approval |-> "", job |-> "", overdue |-> FALSE, request |-> {}]

Init ==
  /\ plan = [r \in Runs |-> Absent]
  /\ sub = [r \in Runs |-> [k \in Subs |-> "none"]]
  /\ caller = [c \in Callers |-> [state |-> "todo", plan |-> None, row |-> "none", lis |-> "",
                                  busy |-> FALSE]]
  /\ resumed = {}
  /\ ops = 0

Event(o) == o \in Ops /\ ops < MaxOps /\ ops' = ops + 1
------------------------------------------------------------------------------
(* The tick: four sub-loops, the progress of parents, and the dispatch. *)

Pending == {r \in Runs : plan[r].st = "pending" /\ plan[r].job = ""}

\* listApprovedPlanRuns
Approved ==
  {r \in Runs : /\ plan[r].st = "awaiting_approval"
                /\ plan[r].approval = "approved"
                /\ plan[r].job = ""}

\* listExpiredRunningPlanRuns that looks at runs without a caller only.
ExpiredOrphans == {r \in Runs : plan[r].st = "running" /\ plan[r].overdue /\ CallerOf[r] = None}

\* listExpiredRunningPlanRuns
Expired == {r \in Runs : plan[r].st = "running" /\ plan[r].overdue}

\* listFinalizedPlanRunsWithCaller that leaves out cancelled runs.
FinalizedUncancelled ==
  {r \in Runs : plan[r].st \in {"done", "failed"} /\ CallerOf[r] # None /\ r \notin resumed}

\* listFinalizedPlanRunsWithCaller
Finalized == {r \in Runs : plan[r].st \in Final /\ CallerOf[r] # None /\ r \notin resumed}

\* A dry run ends as soon as it starts, unless its script hangs.
DryRunEnds == {"awaiting_approval", "failed", "dry_running"}

Lis(row, state) == IF row.row = "none" THEN row ELSE [row EXCEPT !.lis = state]

\* A resumption that does not look whether the caller has ended.
ResumeAnyway(c, row) ==
  IF \E r \in Finalized : CallerOf[r] = c
  THEN Lis([row EXCEPT !.plan = None, !.state = "todo"], "todo") ELSE row

\* A resumption that removes the link and leaves the state.
ResumeUnlinking(c, row) ==
  IF row.state \notin Finished /\ \E r \in Finalized : CallerOf[r] = c
  THEN [row EXCEPT !.plan = None] ELSE row

\* tickFinalizedPlans
Resume(c, row) ==
  IF row.state \notin Finished /\ \E r \in Finalized : CallerOf[r] = c
  THEN Lis([row EXCEPT !.plan = None, !.state = "todo"], "todo") ELSE row

\* The cascade of an end by time or by an operator: the sub-issues, and the
\* caller too, which has the same plan_run_id.
CascadeSubs(ss) == [k \in Subs |-> IF ss[k] \in {"none"} \cup Finished THEN ss[k] ELSE "cancelled"]
CascadeCaller(row, ended) ==
  IF row.plan \in ended /\ row.state \notin Finished THEN [row EXCEPT !.state = "cancelled"] ELSE row

\* What syncParentPlanRunProgress makes of the parent of a run in state st with
\* sub-issues ss.  A parent still linked to the run counts among its sub-issues
\* and, not being terminal, holds the verdict up.
AllTerminal(ss) ==
  /\ \E k \in Subs : ss[k] # "none"
  /\ \A k \in Subs : ss[k] \in {"none"} \cup Terminal
Verdict(st, ss) == IF st = "done" /\ \E k \in Subs : ss[k] = "done" THEN "done" ELSE "cancelled"

Candidate(row) == row.state \in Active /\ row.row = "released" /\ row.lis # row.state

Due(row) == row.row = "retry_queued" \/ (row.state \in Active /\ row.row = "none") \/ Candidate(row)

Dispatched(row) ==
  IF Due(row) /\ ~row.busy THEN [row EXCEPT !.row = "claimed", !.busy = TRUE] ELSE row

Tick ==
  \E dry \in [Pending -> DryRunEnds], sync \in [Callers -> Final] :
  LET plan1 == [r \in Runs |->
                  CASE r \in Pending ->
                         IF dry[r] = "dry_running"
                           THEN [plan[r] EXCEPT !.st = dry[r], !.job = "dry"]
                           ELSE [plan[r] EXCEPT !.st = dry[r], !.approval = "pending"]
                    [] r \in Approved ->
                         [plan[r] EXCEPT !.st = "running", !.job = "exec", !.overdue = FALSE]
                    [] r \in Expired -> [plan[r] EXCEPT !.st = "cancelled"]
                    [] r \notin Pending \cup Approved \cup Expired -> plan[r]]
      sub1 == [r \in Runs |-> IF r \in Expired THEN CascadeSubs(sub[r]) ELSE sub[r]]
      woken == [c \in Callers |-> CascadeCaller(Resume(c, caller[c]), Expired)]
      Verdicts(c) == {Verdict(plan1[r].st, sub1[r]) :
                        r \in {q \in Runs : /\ CallerOf[q] = c /\ woken[c].plan # q
                                            /\ plan[q].st \in Final \/ q \in Expired
                                            /\ AllTerminal(sub1[q])}}
      settled == [c \in Callers |->
                    IF Verdicts(c) # {} /\ woken[c].state \notin Terminal
                    THEN Lis([woken[c] EXCEPT !.state = sync[c]], sync[c]) ELSE woken[c]]
  IN /\ \A c \in Callers : Verdicts(c) # {} => sync[c] \in Verdicts(c)
     /\ plan' = plan1
     /\ sub' = sub1
     /\ caller' = [c \in Callers |-> Dispatched(settled[c])]
     /\ resumed' = resumed \cup Finalized
     /\ UNCHANGED ops
------------------------------------------------------------------------------
(* The calling agent and its worker. *)

\* spawn_plan_run_and_handoff, refused to an issue that has a plan_run_id.
Spawn(r) ==
  /\ plan[r].st = "absent"
  /\ \E c \in Callers :
       /\ CallerOf[r] = c
       /\ caller[c].busy
       /\ caller[c].plan = None
       /\ caller' = [caller EXCEPT ![c].plan = r, ![c].state = "awaiting_plan",
                                   ![c].row = "released", ![c].lis = "awaiting_plan"]
  /\ plan' = [plan EXCEPT ![r].st = "pending"]
  /\ UNCHANGED <<sub, resumed, ops>>

\* POST /plan-runs and spawn_plan_run: with a caller, who is not told.
Create(r) ==
  /\ plan[r].st = "absent"
  /\ IF CallerOf[r] = None THEN UNCHANGED ops ELSE Event("post")
  /\ plan' = [plan EXCEPT ![r].st = "pending"]
  /\ UNCHANGED <<sub, caller, resumed>>

\* suggest_state_transition, whatever has become of the issue or of its hand-off.
Suggest(c) ==
  /\ Event("suggest")
  /\ caller[c].busy
  /\ \E st \in Active \cup {"in_review"} : caller' = [caller EXCEPT ![c].state = st]
  /\ UNCHANGED <<plan, sub, resumed>>

\* The rows that the worker's completion may leave: success or an exceeded budget
\* whatever the issue waits for; the handoff guard for an issue that waits; a retry,
\* a review, or a blocker or a breaker that ends the retries, for one that does not.
EndOfAgent(row) ==
  {[row EXCEPT !.busy = FALSE, !.state = "done", !.row = "released", !.lis = "done"],
   [row EXCEPT !.busy = FALSE, !.state = "cancelled", !.row = "released", !.lis = "cancelled"]}
  \cup
  IF row.state = "awaiting_plan" /\ row.plan # None
  THEN {[row EXCEPT !.busy = FALSE, !.row = "awaiting_plan", !.lis = "awaiting_plan"]}
  ELSE {[row EXCEPT !.busy = FALSE, !.row = "retry_queued"],
        [row EXCEPT !.busy = FALSE, !.state = "in_review", !.row = "in_review", !.lis = "in_review"],
        [row EXCEPT !.busy = FALSE, !.state = "blocked", !.row = "released", !.lis = "blocked"]}

AgentEnds(c) ==
  /\ caller[c].busy
  /\ \E row \in EndOfAgent(caller[c]) : caller' = [caller EXCEPT ![c] = row]
  /\ UNCHANGED <<plan, sub, resumed, ops>>
------------------------------------------------------------------------------
(* The executor and the sub-issues. *)

\* A script that hung ends by its timeout, whatever the state of its run is now.
DryRunTimesOut(r) ==
  /\ plan[r].job = "dry"
  /\ plan' = [plan EXCEPT ![r].st = "failed", ![r].approval = "pending", ![r].job = ""]
  /\ UNCHANGED <<sub, caller, resumed, ops>>

\* runIssue looks at the wall time, and never at the state of the plan run.
CreateSub(r) ==
  /\ plan[r].job = "exec"
  /\ ~plan[r].overdue
  /\ \E k \in Subs :
       /\ sub[r][k] = "none"
       /\ sub' = [sub EXCEPT ![r][k] = "open"]
  /\ UNCHANGED <<plan, caller, resumed, ops>>

SubEnds(r, k) ==
  /\ sub[r][k] = "open"
  /\ \E st \in Terminal : sub' = [sub EXCEPT ![r][k] = st]
  /\ UNCHANGED <<plan, caller, resumed, ops>>

\* The run's and its runner's, which start together.
WallTime(r) ==
  /\ plan[r].st = "running" \/ plan[r].job = "exec"
  /\ ~plan[r].overdue
  /\ plan' = [plan EXCEPT ![r].overdue = TRUE]
  /\ UNCHANGED <<sub, caller, resumed, ops>>

\* finishPlanRun, whatever the state of the run has become meanwhile.
Finish(r, st) ==
  /\ plan[r].job = "exec"
  /\ plan' = [plan EXCEPT ![r].st = st, ![r].job = ""]
  /\ UNCHANGED <<sub, caller, resumed, ops>>

Succeeds(r) == Finish(r, "done") /\ \A k \in Subs : sub[r][k] \in {"none", "done"}
Fails(r) == Finish(r, "failed")
------------------------------------------------------------------------------
(* Operators, late workers and crashes. *)

\* approve, reject and request-changes look at the state of the run, wait for the
\* body of the request and then write.
Ask(r, o, what) ==
  /\ Event(what)
  /\ plan[r].st = "awaiting_approval"
  /\ <<o, what>> \notin plan[r].request
  /\ plan' = [plan EXCEPT ![r].request = @ \cup {<<o, what>>}]
  /\ UNCHANGED <<sub, caller, resumed>>

Approve(r, o) ==
  /\ <<o, "approve">> \in plan[r].request
  /\ plan' = [plan EXCEPT ![r].request = @ \ {<<o, "approve">>}, ![r].approval = "approved"]
  /\ UNCHANGED <<sub, caller, resumed, ops>>

Reject(r, o) ==
  /\ <<o, "reject">> \in plan[r].request
  /\ plan' = [plan EXCEPT ![r].request = @ \ {<<o, "reject">>},
                          ![r].approval = "rejected", ![r].st = "cancelled"]
  /\ UNCHANGED <<sub, caller, resumed, ops>>

\* DELETE /plan-runs/:id
Delete(r) ==
  /\ Event("delete")
  /\ plan[r].st \notin Final \cup {"absent"}
  /\ plan' = [plan EXCEPT ![r].st = "cancelled"]
  /\ sub' = [sub EXCEPT ![r] = CascadeSubs(@)]
  /\ caller' = [c \in Callers |-> CascadeCaller(caller[c], {r})]
  /\ UNCHANGED resumed

\* A retrigger, or a worker that ends after its issue was cancelled.
SubChanges(r, k) ==
  /\ Event("sub")
  /\ sub[r][k] \in Terminal
  /\ \E st \in {"open"} \cup Terminal : sub' = [sub EXCEPT ![r][k] = st]
  /\ UNCHANGED <<plan, caller, resumed>>

\* POST /issues/:uuid/retrigger
Retrigger(c) ==
  /\ Event("retrigger")
  /\ caller[c].row # "none"
  /\ caller' = [caller EXCEPT ![c].state = "todo", ![c].row = "released", ![c].lis = ""]
  /\ UNCHANGED <<plan, sub, resumed>>

\* A start-up that does not attach the running plans again.
RestartWithoutPlans ==
  /\ Event("crash")
  /\ plan' = [r \in Runs |-> [plan[r] EXCEPT !.request = {}, !.job = ""]]
  /\ caller' = [c \in Callers |->
                  [caller[c] EXCEPT !.busy = FALSE, !.row = IF @ = "claimed" THEN "released" ELSE @]]
  /\ UNCHANGED <<sub, resumed>>

\* A crash; the start-up releases claimed rows and attaches running plans again,
\* with a new wall time.  A dry run that hung is not taken up.
CrashRestart ==
  /\ Event("crash")
  /\ plan' = [r \in Runs |->
                [plan[r] EXCEPT !.request = {},
                                !.job = IF plan[r].st = "running" THEN "exec" ELSE "",
                                !.overdue = IF plan[r].st = "running" THEN FALSE ELSE @]]
  /\ caller' = [c \in Callers |->
                  [caller[c] EXCEPT !.busy = FALSE, !.row = IF @ = "claimed" THEN "released" ELSE @]]
  /\ UNCHANGED <<sub, resumed>>

Next ==
  \/ Tick
  \/ \E r \in Runs :
       \/ Spawn(r) \/ Create(r) \/ DryRunTimesOut(r)
       \/ CreateSub(r) \/ WallTime(r) \/ Succeeds(r) \/ Fails(r)
       \/ \E o \in Operators :
            \/ \E what \in {"approve", "reject"} : Ask(r, o, what)
            \/ Approve(r, o) \/ Reject(r, o)
       \/ Delete(r)
       \/ \E k \in Subs : SubEnds(r, k) \/ SubChanges(r, k)
  \/ \E c \in Callers : Suggest(c) \/ AgentEnds(c) \/ Retrigger(c)
  \/ CrashRestart

Spec == Init /\ [][Next]_vars

\* The tick's timer fires again and again; timeouts and wall times pass; agents
\* end.  Nothing makes a script, its runner, a sub-issue or an operator proceed.
Fairness ==
  /\ WF_vars(Tick)
  /\ \A r \in Runs : WF_vars(DryRunTimesOut(r)) /\ WF_vars(WallTime(r))
  /\ \A c \in Callers : WF_vars(AgentEnds(c))

FairSpec == Spec /\ Fairness
------------------------------------------------------------------------------
TypeOK ==
  /\ plan \in [Runs -> [st : PlanStates, approval : {"", "pending", "approved", "rejected"},
                        job : {"", "dry", "exec"}, overdue : BOOLEAN,
                        request : SUBSET Request]]
  /\ sub \in [Runs -> [Subs -> SubStates]]
  /\ caller \in [Callers -> [state : IssueStates, plan : Runs \cup {None}, row : RowStates,
                              lis : IssueStates \cup {""}, busy : BOOLEAN]]
  /\ resumed \subseteq Runs
  /\ ops \in 0..MaxOps

\* A plan run that is running has an executor that will finish it, after a
\* restart too (plan-tick.ts:84-102, index.ts:83-86).
RunningHasExecutor == \A r \in Runs : plan[r].st = "running" => plan[r].job = "exec"

\* No script runs without an operator's approval, and none that was refused, for
\* all that requests are checked before they are awaited (plan-runs.ts:136-147).
RunningApproved == \A r \in Runs : plan[r].st = "running" => plan[r].approval = "approved"

\* Whatever ticks, requests and restarts make of a plan run, one that is running
\* has an executor and an approval (plan-tick.ts:84-102, plan-runs.ts:136-178).
RunningLawful == RunningHasExecutor /\ RunningApproved

\* An issue that awaits a plan is linked to a run of its own that has still to
\* wake it: whoever ends the run, the agent that outlives it included
\* (mcp/tools.ts:416-422, worker.ts:551-560, plan-tick.ts:42-81).
WaiterHasPlan ==
  \A c \in Callers : caller[c].state = "awaiting_plan" =>
    /\ caller[c].plan \in Runs \ resumed
    /\ CallerOf[caller[c].plan] = c
    /\ plan[caller[c].plan].st # "absent"

\* The state of an issue that has ended is changed by its own agent, when it hands
\* over, suggests a state or ends, and by an operator: never by a tick, an end of a
\* plan run, a cascade or a restart, which neither reopen it nor turn done into
\* cancelled (plan-tick.ts:52-64, plan-progress.ts:57-60).
EndedStaysEnded ==
  [][\A c \in Callers :
       caller[c].state \in Finished /\ caller'[c].state # caller[c].state
       => \/ Suggest(c) \/ AgentEnds(c) \/ Retrigger(c)
          \/ \E r \in Runs : CallerOf[r] = c /\ Spawn(r)]_vars

\* A running plan ends, by the tick's look at its wall time at last, though a
\* sub-issue is blocked, its runner hangs or a crash gives it a new wall time
\* (plan-tick.ts:101-119).
PlansEnd == \A r \in Runs : plan[r].st = "running" ~> plan[r].st \in Final

\* When its plan run has ended, however it has, the caller stops waiting.
WaitersWake ==
  \A c \in Callers :
    (caller[c].state = "awaiting_plan" /\ plan[caller[c].plan].st \in Final)
      ~> caller[c].state # "awaiting_plan"

==============================================================================
