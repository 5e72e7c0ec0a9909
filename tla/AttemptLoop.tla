----------------------------- MODULE AttemptLoop ------------------------------
(***************************************************************************)
(* The attempts of one issue, from the claim to the completion transaction *)
(* (orchestrator/worker.ts), with what the agent's MCP tools leave behind  *)
(* for it (mcp/tools.ts).  There is one worker at a time: what two of them *)
(* do to an issue is the matter of Dispatch.  A retry's backoff is taken   *)
(* to have passed.                                                         *)
(***************************************************************************)
EXTENDS Completion

CONSTANTS
  MaxRetries, \* agent.max_retries
  Threshold,  \* CIRCUIT_BREAKER_FAILURE_THRESHOLD
  MaxCalls,   \* bound on the agents' tool calls
  MaxOps      \* bound on crashes, retriggers and plan runs that end

Candidacy == {"todo", "in_progress", "in_review"}
IssueStates == Candidacy \cup {"awaiting_plan", "blocked", "done", "cancelled"}
RunStates == {"none", "released", "claimed", "retry_queued", "in_review", "awaiting_plan"}

ASSUME LoopAssumption ==
  /\ MaxRetries \in Nat /\ Budget \in Nat /\ MaxCalls \in Nat /\ MaxOps \in Nat
  /\ Threshold \in Nat \ {0}
  /\ NoCause \notin Causes

VARIABLES
  issue,  \* the row of issues: state, last_blocker_fingerprint, plan_run_id, require_plan
  run,    \* the row of symphony_runs
  worker,
  log,    \* what the issue's events say: the latest session_completed, how many
          \* of the last ones say needs_retry, the latest result, any plan spawned
  spent,  \* the sum over llm_calls
  last,   \* how the last attempt ended, for the properties only
  calls, ops

vars == <<issue, run, worker, log, spent, last, calls, ops>>

Silent == [sem |-> "", cause |-> NoCause]
Unknown == [out |-> "none", code |-> "absent", reported |-> FALSE]
NoWorker == [on |-> FALSE, attempt |-> 0, snap |-> "todo"]

Init ==
  /\ \E require \in BOOLEAN :
       issue = [state |-> "todo", cause |-> NoCause, plan |-> FALSE, require |-> require]
  /\ run = [st |-> "none", next |-> 0, lis |-> ""]
  /\ worker = NoWorker
  /\ log = [said |-> Silent, fails |-> 0, emitted |-> "none", planned |-> FALSE]
  /\ spent = 0
  /\ last = Unknown
  /\ calls = 0
  /\ ops = 0

Candidate == issue.state \in Candidacy /\ run.st = "released" /\ run.lis # issue.state
Ready == run.st \in {"none", "retry_queued"} \/ Candidate

\* The claim, and the worker up to its agent's start.
Start ==
  /\ ~worker.on
  /\ Ready
  /\ LET a == CASE run.st = "none" -> 0
                [] run.st = "retry_queued" -> run.next
                [] run.st = "released" -> run.next + 1 IN
     /\ run' = [run EXCEPT !.st = "claimed", !.next = a]
     /\ worker' = [NoWorker EXCEPT !.on = TRUE, !.attempt = a, !.snap = issue.state]
  /\ last' = Unknown
  /\ UNCHANGED <<issue, log, spent, calls, ops>>
------------------------------------------------------------------------------
(* The agent's tools. *)

Call == worker.on /\ calls < MaxCalls /\ calls' = calls + 1

\* session_completed: the fingerprint goes to the issue at once.
SessionCompleted(sem, cause) ==
  /\ Call
  /\ log' = [log EXCEPT !.said = [sem |-> sem, cause |-> cause],
                        !.fails = IF sem = "needs_retry" THEN @ + 1 ELSE 0]
  /\ issue' = [issue EXCEPT !.cause = IF sem \in {"success", "handoff"} THEN NoCause
                                      ELSE IF cause # NoCause THEN cause ELSE @]
  /\ UNCHANGED <<run, worker, spent, last, ops>>

\* emit_result, with data that match the expected schema or do not.
EmitResult(valid) ==
  /\ Call
  /\ log' = [log EXCEPT !.emitted = IF valid THEN "valid" ELSE "invalid"]
  /\ UNCHANGED <<issue, run, worker, spent, last, ops>>

\* spawn_plan_run and spawn_plan_run_and_handoff, refused to an issue that is
\* linked to a plan run already.  The handoff releases the run under its worker.
SpawnPlan(handoff) ==
  /\ Call
  /\ ~issue.plan
  /\ log' = [log EXCEPT !.planned = TRUE]
  /\ IF handoff
       THEN /\ issue' = [issue EXCEPT !.plan = TRUE, !.state = "awaiting_plan"]
            /\ run' = [run EXCEPT !.st = "released", !.lis = "awaiting_plan"]
       ELSE UNCHANGED <<issue, run>>
  /\ UNCHANGED <<worker, spent, last, ops>>

Suggest(state) ==
  /\ Call
  /\ issue' = [issue EXCEPT !.state = state]
  /\ UNCHANGED <<run, worker, log, spent, last, ops>>
------------------------------------------------------------------------------
(* The completion transaction. *)

\* A state is written unless it is null or that of the worker's snapshot.
Moved(state) == IF state \in {"", worker.snap} THEN issue.state ELSE state
Final(v) == IF v.target = "" THEN worker.snap ELSE v.target

Released(lis) == [run EXCEPT !.st = "released", !.lis = lis]

Succeed(v) ==
  /\ v.sem = "success"
  /\ issue' = [issue EXCEPT !.state = Moved(v.target), !.cause = NoCause]
  /\ run' = Released(Final(v))

HandOff(v) ==
  /\ v.sem = "handoff"
  /\ issue' = [issue EXCEPT !.state = Moved(v.target), !.cause = NoCause]
  /\ run' = [run EXCEPT !.st = Final(v), !.lis = Final(v)]

\* The breaker that opens one failure late.
TrippedLate(v) == v.sem = "needs_retry" /\ log.fails > Threshold

\* isCircuitBreakerOpen
Tripped(v) == v.sem = "needs_retry" /\ log.fails >= Threshold
MayRetry(v) == v.sem = "needs_retry" /\ ~Tripped(v) /\ worker.attempt < MaxRetries
SameCause(v) == v.cause # NoCause /\ v.cause = issue.cause /\ worker.attempt >= 1

ShortCircuit(v) ==
  /\ MayRetry(v) /\ SameCause(v)
  /\ issue' = [issue EXCEPT !.state = Moved("blocked")]
  /\ run' = Released("blocked")

\* scheduleRetry
ScheduleRetry(n) == run' = [run EXCEPT !.st = "retry_queued", !.next = n]

\* A retry under the number of the attempt that failed.
RetryUncounted(v) ==
  /\ MayRetry(v) /\ ~SameCause(v)
  /\ issue' = [issue EXCEPT !.cause = IF v.cause = NoCause THEN @ ELSE v.cause]
  /\ ScheduleRetry(worker.attempt)

Retry(v) ==
  /\ MayRetry(v) /\ ~SameCause(v)
  /\ issue' = [issue EXCEPT !.cause = IF v.cause = NoCause THEN @ ELSE v.cause]
  /\ ScheduleRetry(worker.attempt + 1)

\* A tripped breaker has written the state for abandoned before it writes blocked.
Trip(v) ==
  /\ Tripped(v)
  /\ issue' = [issue EXCEPT !.state = IF worker.snap = "blocked" THEN "cancelled" ELSE "blocked"]
  /\ run' = Released("blocked")

\* The last retry, or no retry at all.  finalState was computed before the
\* last retry's state was chosen, so last_issue_state is then the snapshot's.
GiveUp(v) ==
  /\ v.sem = "abandoned" \/ (v.sem = "needs_retry" /\ ~Tripped(v) /\ ~MayRetry(v))
  /\ issue' = [issue EXCEPT !.state = Moved("cancelled")]
  /\ run' = Released(Final(v))

\* recordLlmCall: the attempt is one more row of the issue's llm_calls.
RecordLlmCall(tokens) == spent' = spent + tokens

\* The agent has ended, with evidence e: the verdict, the transaction and the
\* record of what the attempt spent.
Finish(e) ==
  /\ worker.on
  /\ LET v == Verdict(e, issue, log, spent) IN
     /\ Succeed(v) \/ HandOff(v) \/ ShortCircuit(v) \/ Retry(v) \/ Trip(v) \/ GiveUp(v)
     /\ last' = [out |-> IF v.sem = "success" THEN "success" ELSE "other", code |-> e.code,
                 reported |-> log.said.sem # ""]
  /\ worker' = NoWorker
  /\ RecordLlmCall(e.tokens)
  /\ UNCHANGED <<log, calls, ops>>
------------------------------------------------------------------------------
(* What happens to the issue from outside. *)

Event == ops < MaxOps /\ ops' = ops + 1

\* The orchestrator dies and starts again; the attempt's tokens are not recorded.
CrashRestart ==
  /\ Event
  /\ worker.on
  /\ worker' = NoWorker
  /\ run' = IF run.st = "claimed" THEN [run EXCEPT !.st = "released"] ELSE run
  /\ UNCHANGED <<issue, log, spent, last, calls>>

\* The plan run the issue waits for ends: the tick puts a caller that is not
\* finished back to todo and, where all the sub-issues have ended, on to done
\* or cancelled at once.
PlanEnds ==
  /\ Event
  /\ issue.plan
  /\ issue.state \notin {"done", "cancelled"}
  /\ \E state \in {"todo", "done", "cancelled"} :
       /\ issue' = [issue EXCEPT !.plan = FALSE, !.state = state]
       /\ run' = [run EXCEPT !.lis = state]
  /\ UNCHANGED <<worker, log, spent, last, calls>>

\* retrigger, of an issue nobody works on.
Retrigger(state, reset) ==
  /\ Event
  /\ ~worker.on
  /\ run.st # "none"
  /\ issue' = [issue EXCEPT !.state = state, !.cause = IF reset THEN NoCause ELSE @]
  /\ run' = Released("")
  /\ UNCHANGED <<worker, log, spent, last, calls>>

Tools ==
  \/ \E sem \in Semantics, cause \in Causes \cup {NoCause} : SessionCompleted(sem, cause)
  \/ \E b \in BOOLEAN : EmitResult(b) \/ SpawnPlan(b)
  \/ \E state \in Candidacy : Suggest(state)

Outside ==
  \/ CrashRestart
  \/ PlanEnds
  \/ \E state \in Candidacy, reset \in BOOLEAN : Retrigger(state, reset)

Ends == \E e \in Evidence : Finish(e)

\* The issue rests: it waits for an operator or a plan run, or has ended.
Rests == ~worker.on /\ ~Ready /\ UNCHANGED vars

Next == Start \/ Ends \/ Tools \/ Outside \/ Rests

Spec == Init /\ [][Next]_vars

\* The tick dispatches what is ready; an agent ends, by its timeout at last.
FairSpec == Spec /\ WF_vars(Start) /\ WF_vars(Ends)
------------------------------------------------------------------------------
AllCauses == Causes \cup OwnCauses \cup {NoCause}

TypeOK ==
  /\ issue \in [state : IssueStates, cause : AllCauses, plan : BOOLEAN, require : BOOLEAN]
  /\ run \in [st : RunStates, next : Nat, lis : IssueStates \cup {""}]
  /\ worker \in [on : BOOLEAN, attempt : Nat, snap : IssueStates]
  /\ log \in [said : [sem : Semantics \cup {""}, cause : Causes \cup {NoCause}], fails : Nat,
              emitted : {"none", "valid", "invalid"}, planned : BOOLEAN]
  /\ spent \in Nat
  /\ last \in [out : {"none", "success", "other"}, code : {"zero", "nonzero", "absent"},
               reported : BOOLEAN]
  /\ calls \in 0..MaxCalls
  /\ ops \in 0..MaxOps

\* A retry is queued only if nothing stands against one: what all attempts have
\* spent, the one that has just ended included, is within the budget, unless spawn()
\* threw in that attempt; the last reports are not all failures, as many as the
\* breaker's threshold; and the issue does not wait for a plan run, under which
\* the retry would start (worker.ts:551-592, wait-states.ts:1-8).
RetryLawful ==
  run.st = "retry_queued" =>
    /\ last.code # "absent" => spent <= Budget
    /\ log.fails < Threshold
    /\ issue.state # "awaiting_plan"

\* Success is earned, by whichever way an attempt comes to it: a report of success
\* counts for nothing after a non-zero exit (what was emitted counts all the
\* same), and an issue that requires a plan is not done before one was spawned
\* (worker.ts:438-492, 562-572).
SuccessEarned ==
  /\ last.out = "success" /\ last.reported => last.code # "nonzero"
  /\ issue.require /\ issue.state = "done" => log.planned

\* The attempts of an issue come to an end.
ComesToRest == <>[](~worker.on /\ run.st \notin {"claimed", "retry_queued"})
==============================================================================
