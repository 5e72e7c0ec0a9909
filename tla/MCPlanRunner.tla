----------------------------- MODULE MCPlanRunner -----------------------------
(* Three scripts of three calls for the runner: one is chosen at the start. *)
EXTENDS PlanRunner, TLC

CONSTANTS a, b, c, p, q

Own == [x \in Calls |-> x]
InP == [x \in Calls |-> p]

\* dag() of two layers, the first with a gate that nothing else depends on; the node
\* ids are the keys.
Dag ==
  [after |-> DagAfter({a, b, c}, {<<a, c>>}),
   key |-> Own, phase |-> InP, gate |-> {b}, caught |-> {}, limit |-> 3]

\* pipeline() of two items, the second of which has but one stage, with keys and
\* with a limit that the last call reaches unless there was a retry.
Pipeline ==
  [after |-> (a :> {}) @@ (b :> {a}) @@ (c :> {}),
   key |-> Own, phase |-> InP, gate |-> {}, caught |-> {}, limit |-> 2]

\* One call after the other in two phases, without keys; the script catches the
\* failure of the second.
Sequence ==
  [after |-> (a :> {}) @@ (b :> {a}) @@ (c :> {b}),
   key |-> [x \in Calls |-> NoKey],
   phase |-> (a :> p) @@ (b :> q) @@ (c :> p),
   gate |-> {}, caught |-> {b}, limit |-> 3]

MCScripts == {Dag, Pipeline, Sequence}

ASSUME StableScripts == \A s \in MCScripts : StableKeys(s)
==============================================================================
