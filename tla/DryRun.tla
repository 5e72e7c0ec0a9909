-------------------------------- MODULE DryRun --------------------------------
(* The rehearsal of a plan's script that its reviewer sees                     *)
(* (plan-runtime/dry-run.ts), and how the runner takes up the same dag()       *)
(* (plan-runtime/runner.ts).  A script is a record [calls, nodes, edges, max]: *)
(* calls of issue(), then one dag(), and meta.max_issues.  A call has a gate   *)
(* and a schema or has not, a node has an id besides; prompts and phases are   *)
(* left out, and the script catches nothing.                                   *)
EXTENDS Integers, Sequences, SequencesExt, FiniteSetsExt

(* ------------------------------- the stubs --------------------------------- *)

Dry == [type |-> "string", len |-> 5]

(* What may stand for the result of an issue with such a schema, depending on  *)
(* which of several types, or values, it names first.  Bounds are not read.    *)
RECURSIVE SynthesizeFromSchema(_)
SynthesizeFromSchema(s) ==
  LET Has(keyword) == keyword \in DOMAIN s
      Items == IF Has("items") THEN {<<x>> : x \in SynthesizeFromSchema(s.items)}
               ELSE {<<>>}
      Required == IF Has("required") THEN s.required ELSE {}
      Of(key) == IF Has("properties") /\ key \in DOMAIN s.properties
                 THEN SynthesizeFromSchema(s.properties[key]) ELSE {Dry}
      Fields == {f \in [Required -> UNION {Of(key) : key \in Required}] :
                   \A key \in Required : f[key] \in Of(key)}
      Stubs(type) ==
        CASE type \in {"number", "integer"} -> [type : {"number"}, halves : {0}]
          [] type = "boolean" -> [type : {"boolean"}, truth : {FALSE}]
          [] type = "null" -> [type : {"null"}]
          [] type = "array" -> [type : {"array"}, elems : Items]
          [] type = "object" -> [type : {"object"}, fields : Fields]
          [] OTHER -> {Dry}
  IN  IF Has("enum") THEN s.enum
      ELSE IF Has("type") THEN UNION {Stubs(type) : type \in s.type}
      ELSE {Dry}

(* -------------------------------- the dag ---------------------------------- *)

NodeIds(nodes) == {nodes[k].id : k \in DOMAIN nodes}
Misnamed(nodes, edges) ==
  \/ Cardinality(NodeIds(nodes)) < Len(nodes)
  \/ ~ ToSet(edges) \subseteq NodeIds(nodes) \X NodeIds(nodes)

(* adj: the nodes the edges from id lead to, as often as they do.              *)
Adj(edges, id) ==
  LET from == SelectSeq(edges, LAMBDA e : e[1] = id)
  IN  [n \in DOMAIN from |-> from[n][2]]

InDegree(edges, id) == Len(SelectSeq(edges, LAMBDA e : e[2] = id))

(* What the nodes of a sequence lead to, when it has lost all it waited for:   *)
(* the in-degrees that are left, and the nodes that have none.                 *)
Freed(edges, inDegree, ids) ==
  FoldLeft(LAMBDA acc, to :
             [inDegree |-> [acc.inDegree EXCEPT ![to] = @ - 1],
              free |-> IF acc.inDegree[to] = 1 THEN Append(acc.free, to) ELSE acc.free],
           [inDegree |-> inDegree, free |-> <<>>],
           FlattenSeq([n \in DOMAIN ids |-> Adj(edges, ids[n])]))

(* dag() of the dry run takes the nodes one by one from its queue ...          *)
RECURSIVE Visited(_, _, _)
Visited(edges, inDegree, queue) ==
  IF queue = <<>> THEN 0
  ELSE LET freed == Freed(edges, inDegree, <<Head(queue)>>)
       IN  1 + Visited(edges, freed.inDegree, Tail(queue) \o freed.free)

(* ... and that of the runner layer by layer.                                  *)
RECURSIVE Layers(_, _, _)
Layers(edges, inDegree, layer) ==
  IF layer = <<>> THEN <<>>
  ELSE LET freed == Freed(edges, inDegree, layer)
       IN  <<layer>> \o Layers(edges, freed.inDegree, freed.free)

Degrees(nodes, edges) == [id \in NodeIds(nodes) |-> InDegree(edges, id)]
Free(nodes, edges) ==
  LET free == SelectSeq(nodes, LAMBDA n : InDegree(edges, n.id) = 0)
  IN  [k \in DOMAIN free |-> free[k].id]

RunDag(nodes, edges) ==
  LET layers == Layers(edges, Degrees(nodes, edges), Free(nodes, edges))
  IN  IF Misnamed(nodes, edges) \/ Len(FlattenSeq(layers)) # Len(nodes)
      THEN [ok |-> FALSE, layers |-> <<>>]
      ELSE [ok |-> TRUE, layers |-> layers]

(* ------------------------------ the summary -------------------------------- *)

(* An issue is counted before the count is compared with twice max_issues.     *)
DryIssue(acc, call, max) ==
  IF ~ acc.ok THEN acc
  ELSE IF acc.issues + 1 > 2 * max
  THEN [acc EXCEPT !.issues = @ + 1, !.ok = FALSE]
  ELSE [acc EXCEPT !.issues = @ + 1,
                   !.prompts = Append(@, [gated |-> call.gate,
                                          has_schema |-> call.schema])]

DryDag(acc, script) ==
  LET ids == Free(script.nodes, script.edges)
      degrees == Degrees(script.nodes, script.edges)
  IN  IF ~ acc.ok THEN acc
      ELSE IF \/ Misnamed(script.nodes, script.edges)
              \/ Visited(script.edges, degrees, ids) # Len(script.nodes)
      THEN [acc EXCEPT !.ok = FALSE]
      ELSE FoldLeft(LAMBDA a, n : DryIssue(a, n, script.max), acc, script.nodes)

Rehearse(script) ==
  DryDag(FoldLeft(LAMBDA a, c : DryIssue(a, c, script.max),
                  [ok |-> TRUE, issues |-> 0, prompts |-> <<>>], script.calls),
         script)
===============================================================================
