----------------------------- MODULE PlanRunCall ------------------------------
(***************************************************************************)
(* PlanRun implements PlanCall.  A run has told its caller when it is in a *)
(* final state and a caller_resumed is recorded for it; an issue waits for *)
(* whatever run it is linked to while its state is awaiting_plan.          *)
(***************************************************************************)
EXTENDS PlanRun

Phase(r) ==
  CASE plan[r].st = "absent" -> "absent"
    [] plan[r].st \notin Final \cup {"absent"} -> "open"
    [] plan[r].st \in Final /\ r \notin resumed -> "ended"
    [] plan[r].st \in Final /\ r \in resumed -> "told"

Waits(c) == IF caller[c].state = "awaiting_plan" THEN {caller[c].plan} ELSE {}

Call == INSTANCE PlanCall WITH
  phase <- [r \in Runs |-> Phase(r)],
  waits <- [c \in Callers |-> Waits(c)]

\* Whatever ends a run, and whoever else touches the caller meanwhile, the hand-off
\* is a call that returns at most once, to a caller that then stops waiting
\* (mcp/tools.ts:416-422, plan-tick.ts:42-81, worker.ts:551-560).
ImplementsCall == Call!Spec
==============================================================================
