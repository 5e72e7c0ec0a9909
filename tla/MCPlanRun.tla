------------------------------ MODULE MCPlanRun ------------------------------
(* Instances of PlanRun. *)
EXTENDS PlanRunCall

CONSTANTS c1, r1, r2

\* Both runs are called by the one caller.
OneCaller == [r \in Runs |-> c1]
==============================================================================
