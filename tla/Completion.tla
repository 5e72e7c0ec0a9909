------------------------------ MODULE Completion ------------------------------
(***************************************************************************)
(* How the worker decides what an attempt came to (orchestrator/worker.ts, *)
(* deriveCompletion to checkIssueBudget): the agent's exit and the summary *)
(* on its stdout give a verdict, which the signals stored by the MCP tools *)
(* and a series of guards may then replace.                                *)
(*                                                                         *)
(* The evidence of an attempt is a record                                  *)
(*   [spawned, timedOut, code, status, reason, tokens];                    *)
(* a verdict is a record [sem, cause, missing, target], where `missing`    *)
(* stands for the termination cause no_result_payload.                     *)
(***************************************************************************)
EXTENDS Integers

CONSTANTS
  Causes,   \* blocker fingerprints an agent may name
  NoCause,
  Budget    \* issues.token_budget

Semantics == {"success", "needs_retry", "handoff", "abandoned"}
Statuses == {"missing", "success", "needs_retry", "abandoned", "timeout"}
OwnCauses == {"killed_by_timeout", "timeout", "exitcode_mismatch",
              "plan_required_no_plan_run_spawned", "budget_exceeded"}

\* Where spawn() threw there is no exit code and no summary.  A failure that the
\* summary reports has a reason, whose fingerprint may be empty.  The summary of
\* an agent killed by its timeout is not looked at, but for its tokens.
Evidence ==
  {e \in [spawned : BOOLEAN, timedOut : BOOLEAN, code : {"zero", "nonzero", "absent"},
          status : Statuses, reason : Causes \cup {NoCause}, tokens : 0..1] :
     /\ e.code = "absent" <=> ~e.spawned
     /\ ~e.spawned => ~e.timedOut /\ e.status = "missing" /\ e.tokens = 0
     /\ e.timedOut => e.status = "missing"
     /\ e.status \in {"missing", "success"} => e.reason = NoCause}

Verdicts == [sem : Semantics, cause : Causes \cup OwnCauses \cup {NoCause}, missing : BOOLEAN,
             target : {"done", "in_review", "cancelled", "awaiting_plan", ""}]
------------------------------------------------------------------------------
\* The cases of deriveCompletion, in the order in which it asks for them.
Ending(e) ==
  IF e.timedOut THEN "killed"
  ELSE IF e.status = "success" /\ e.code = "nonzero" THEN "mismatch"
  ELSE e.status

DerivedSemantics ==
  [killed |-> "needs_retry", mismatch |-> "needs_retry", missing |-> "abandoned",
   success |-> "success", needs_retry |-> "needs_retry", abandoned |-> "abandoned",
   timeout |-> "needs_retry"]

DerivedCause(e) ==
  CASE Ending(e) = "killed" -> "killed_by_timeout"
    [] Ending(e) = "mismatch" -> "exitcode_mismatch"
    [] Ending(e) = "timeout" -> IF e.reason = NoCause THEN "timeout" ELSE e.reason
    [] Ending(e) \in {"missing", "success", "needs_retry", "abandoned"} -> e.reason

Derive(e) == [sem |-> DerivedSemantics[Ending(e)], cause |-> DerivedCause(e),
              missing |-> Ending(e) = "missing", target |-> ""]

\* The override that trusts every report.
OverrideTrusting(v, e, said) ==
  IF said.sem = "" THEN v
  ELSE [v EXCEPT !.sem = said.sem, !.cause = IF said.cause = NoCause THEN @ ELSE said.cause]

\* The latest session_completed of the issue replaces what was derived, but
\* success is refused to a process that exited with a code other than zero.
Override(v, e, said) ==
  IF said.sem = "" \/ (said.sem = "success" /\ e.code = "nonzero") THEN v
  ELSE [v EXCEPT !.sem = said.sem, !.cause = IF said.cause = NoCause THEN @ ELSE said.cause]

\* An agent that never reported, but emitted a valid result, has succeeded.
Fallback(v, said, emitted) ==
  IF v.sem = "abandoned" /\ v.missing /\ said.sem = "" /\ emitted = "valid"
  THEN [v EXCEPT !.sem = "success"] ELSE v

\* state_transitions with the workflow's defaults; "" is null.
Transition == [success |-> "done", handoff |-> "in_review", abandoned |-> "cancelled",
               needs_retry |-> ""]

Aim(v) == [v EXCEPT !.target = Transition[v.sem]]

\* An issue that awaits a plan run goes on waiting for it.
HandoffGuard(v, state, plan) ==
  IF state = "awaiting_plan" /\ plan /\ v.sem # "success"
  THEN [v EXCEPT !.sem = "handoff", !.target = "awaiting_plan"] ELSE v

\* An issue that requires a plan does not succeed before it has spawned one.
PlanGuard(v, require, planned) ==
  IF require /\ ~planned /\ v.sem = "success"
  THEN [v EXCEPT !.sem = "needs_retry", !.cause = "plan_required_no_plan_run_spawned",
                 !.target = ""]
  ELSE v

\* What earlier attempts and this one have spent is within the budget, or the
\* issue is given up.
BudgetGuard(v, e, spent) ==
  IF e.spawned /\ spent + e.tokens > Budget
  THEN [v EXCEPT !.sem = "abandoned", !.cause = "budget_exceeded", !.target = "cancelled"]
  ELSE v

\* The verdict of an attempt with evidence e, given the issue's row, the events
\* recorded for it and what its earlier attempts have spent.
Verdict(e, issue, log, spent) ==
  LET reported == Fallback(Override(Derive(e), e, log.said), log.said, log.emitted)
      guarded == PlanGuard(HandoffGuard(Aim(reported), issue.state, issue.plan),
                           issue.require, log.planned)
  IN BudgetGuard(guarded, e, spent)
==============================================================================
