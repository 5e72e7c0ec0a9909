----------------------------- MODULE MCAlgorithms -----------------------------
(* The inputs on which the algorithms are checked.                             *)
EXTENDS Algorithms

SeqsUpTo(S, n) == UNION {[1 .. k -> S] : k \in 0 .. n}
Nothing == [key \in {} |-> 0]

(* Every pair of texts of at most four lines of two kinds, and a long text of  *)
(* seven different lines of which some are gone and some are new: several      *)
(* hunks, and hunks that run into each other.                                  *)
MCTextPairs ==
  LET Texts == SeqsUpTo({"a", "b"}, 4) \ {<<>>}
      Base == <<"1", "2", "3", "4", "5", "6", "7">>
      Without(S) == LET left == SelectSeq([k \in 1 .. 7 |-> k],
                                          LAMBDA k : k \notin S)
                    IN  [n \in DOMAIN left |-> Base[left[n]]]
      Changed(S) == [k \in 1 .. 7 |-> IF k \in S THEN "new" ELSE Base[k]]
  IN  (Texts \X Texts)
        \cup {<<Base, Without(S)>> : S \in SUBSET (1 .. 7) \ {1 .. 7}}
        \cup {<<Base, Changed(S)>> : S \in SUBSET (1 .. 7)}

(* The texts with no steps, and a text with any two lists of at most two steps *)
(* and with any two sets of estimates.  The steps differ in their titles,      *)
(* descriptions, or both, or in what they wait for.                            *)
MCPlanPairs ==
  LET Plan(text, steps, estimates) ==
        [markdown |-> text, steps |-> steps, estimates |-> estimates]
      Text == <<"a">>
      Step(id, title, description, after) ==
        [id |-> id, title |-> title, description |-> description, after |-> after]
      Steps == SeqsUpTo({Step(id, t, d, <<>>) :
                           id \in 1 .. 2, t \in {"t", "u"}, d \in {"d", "e"}}
                          \cup {Step(id, "t", "d", <<3 - id>>) : id \in 1 .. 2}, 2)
      Estimates == UNION {[K -> 1 .. 2] : K \in SUBSET {"files", "turns"}}
  IN  {<<Plan(p[1], <<>>, Nothing), Plan(p[2], <<>>, Nothing)>> : p \in MCTextPairs}
        \cup {<<Plan(Text, p[1], Nothing), Plan(Text, p[2], Nothing)>> :
                p \in Steps \X Steps}
        \cup {<<Plan(Text, <<>>, p[1]), Plan(Text, <<>>, p[2])>> :
                p \in Estimates \X Estimates}

(* At most three steps, some of the same id, waiting for one another, for      *)
(* themselves, twice for the same, and for a step the plan does not have.      *)
MCStepLists ==
  LET Afters == {<<>>, <<1>>, <<2>>, <<3>>, <<1, 2>>, <<2, 1>>, <<1, 1>>,
                 <<2, 3>>, <<9>>}
      Plain(a) == [k \in DOMAIN a |-> [id |-> k, after |-> a[k]]]
  IN  {Plain(a) : a \in SeqsUpTo(Afters, 3)}
        \cup {<<[id |-> 1, after |-> <<>>], [id |-> 1, after |-> <<2>>],
                [id |-> 2, after |-> <<>>]>>}
        \cup {Plain(<<a, b, c, d>>) :
                a \in {<<>>, <<2>>}, b \in {<<>>, <<1>>, <<4>>},
                c \in {<<1, 2>>, <<2, 1>>}, d \in {<<1, 3>>, <<3, 1>>, <<>>}}

(* Values two levels deep, and schemas of every keyword for each level.        *)
MCSchemaInputs ==
  LET Leaves == [type : {"string"}, len : 0 .. 2]
                  \cup [type : {"number"}, halves : 1 .. 4]
                  \cup {[type |-> "boolean", truth |-> TRUE], [type |-> "null"]}
      Few == {[type |-> "string", len |-> 1], [type |-> "number", halves |-> 3],
              [type |-> "number", halves |-> 2]}
      Arrays == [type : {"array"}, elems : SeqsUpTo(Few, 2)]
      Objects == {[type |-> "object", fields |-> f] :
                    f \in UNION {[K -> Few \cup {[type |-> "null"]}] :
                                   K \in SUBSET {"k", "m"}}}
      Nested == {[type |-> "object", fields |-> [k |-> v]] :
                   v \in Arrays \cup {[type |-> "object", fields |-> [m |-> w]] :
                                        w \in Few}}
      Values == Leaves \cup Arrays \cup Objects \cup Nested
      LeafSchemas ==
        {Nothing, [type |-> {"integer"}], [type |-> {"string", "null"}],
         [type |-> {"string"}, minLength |-> 1, maxLength |-> 1],
         [minimum |-> 2, maximum |-> 3], [type |-> {"boolean"}],
         [enum |-> {[type |-> "string", len |-> 1], [type |-> "number", halves |-> 2],
                    [type |-> "object", fields |-> [k |-> [type |-> "number",
                                                           halves |-> 3]]]}]}
      ArraySchemas ==
        {[type |-> {"array"}, items |-> s, minItems |-> n, maxItems |-> 1] :
           s \in LeafSchemas, n \in 0 .. 1}
      ObjectSchemas ==
        UNION {{[properties |-> [k |-> s, m |-> [type |-> {"number"}]],
                 required |-> {"k"}],
                [type |-> {"object", "null"}, properties |-> [k |-> s],
                 closed |-> TRUE]} : s \in LeafSchemas \cup ArraySchemas}
  IN  (LeafSchemas \cup ArraySchemas \cup ObjectSchemas) \X Values

(* At most four events, of which neighbours may share a millisecond and notes  *)
(* may say nothing (no route writes such a note, the renderer reads one all    *)
(* the same); at most four comments of several sizes; plan runs of several     *)
(* sizes; every flag.                                                          *)
MCIssues ==
  LET Plain == [events |-> <<>>, comments |-> <<>>, require_plan |-> FALSE,
                state |-> "todo", goal |-> "none", runs |-> <<>>,
                schema |-> FALSE, scratchpad |-> FALSE]
      Kinds == {"revision_requested", "plan_revision_requested"}
      Rows == [kind : Kinds, ts : 1 .. 4, text : BOOLEAN]
                \cup [kind : {"started"}, ts : 1 .. 4, text : {FALSE}]
      Events == {e \in SeqsUpTo(Rows, 4) :
                   /\ e # <<>> => e[1].ts = 1
                   /\ \A k \in 2 .. Len(e) : e[k].ts - e[k - 1].ts \in 0 .. 1}
      Resumed == <<[kind |-> "caller_resumed", ts |-> 1, text |-> TRUE]>>
      Sizes == {[size |-> n] : n \in 1 .. 3}
  IN  {[Plain EXCEPT !.events = e, !.comments = c] :
         e \in Events, c \in {<<>>, <<[size |-> 1]>>}}
        \cup {[Plain EXCEPT !.comments = c, !.goal = g, !.require_plan = p] :
                c \in SeqsUpTo(Sizes, 4), g \in {"none", "prefix"}, p \in BOOLEAN}
        \cup {[Plain EXCEPT !.events = e, !.runs = r, !.state = s,
                            !.require_plan = p, !.schema = p, !.scratchpad = p] :
                e \in {<<>>, Resumed}, r \in SeqsUpTo(Sizes, 3), p \in BOOLEAN,
                s \in {"todo", "awaiting_plan"}}

(* One agent with two tools and another that calls one of them.                *)
MCStreams ==
  LET Line(agent, kind, tool, named) ==
        [agent |-> agent, kind |-> kind, tool |-> tool, named |-> named]
  IN  SeqsUpTo(
        {Line(1, "tool_use", t, TRUE) : t \in {"a", "b"}}
          \cup {Line(1, "tool_result", t, TRUE) : t \in {"a", "b"}}
          \cup {Line(1, "tool_result", "a", FALSE), Line(1, "text", "a", TRUE),
                Line(1, "stats", "a", TRUE), Line(2, "tool_use", "b", TRUE),
                Line(2, "tool_result", "b", FALSE)}, 4)

(* Two hooks that start and respond once, among other lines.                   *)
MCLogs ==
  LET Hook == [kind : {"hook_started", "hook_response"}, hook : 1 .. 2]
      Plain(kinds) == [kind : kinds, hook : {0}]
      Once(log) == \A i, j \in DOMAIN log :
                     log[i] = log[j] /\ log[i] \in Hook => i = j
  IN  {log \in SeqsUpTo(Hook \cup Plain({"assistant", "empty"}), 4) : Once(log)}
        \cup SeqsUpTo(Plain({"init", "tool_use", "tool_result", "user", "result",
                             "error", "empty", "log_start", "junk"}), 2)

MCOutputs ==
  LET Lines == [kind : {"noise", "done", "summary"}, len : 1 .. 2]
  IN  SeqsUpTo(Lines, 3) \ {<<>>}

(* At most two calls and three nodes, of which two may have one id, with at    *)
(* most three edges, some twice, in a circle, or to a node there is not.       *)
MCRehearsals ==
  LET Node(id, gate) == [id |-> id, gate |-> gate, schema |-> ~ gate]
      Nodes == {<<>>, <<Node(1, TRUE)>>, <<Node(1, TRUE), Node(1, FALSE)>>,
                <<Node(2, FALSE), Node(1, TRUE)>>,
                <<Node(1, TRUE), Node(2, FALSE), Node(3, TRUE)>>}
      Edges == SeqsUpTo((1 .. 3) \X (1 .. 3), 3)
      Call(gate) == [gate |-> gate, schema |-> TRUE]
      Calls == SeqsUpTo({Call(TRUE), Call(FALSE)}, 2)
  IN  [calls : {<<>>}, nodes : Nodes, edges : Edges, max : {2}]
        \cup [calls : Calls, nodes : Nodes, edges : {<<>>, <<<<1, 2>>>>, <<<<2, 1>>, <<1, 2>>>>},
              max : 1 .. 2]

(* Schemas without bounds, at most three levels deep.                          *)
MCStubSchemas ==
  LET Leaves == {Nothing, [type |-> {"integer"}], [type |-> {"string", "null"}],
                 [type |-> {"number", "boolean"}],
                 [enum |-> {[type |-> "string", len |-> 1], [type |-> "null"]}]}
      Arrays == {[type |-> {"array"}]}
                  \cup {[type |-> {"array", "null"}, items |-> s] : s \in Leaves}
      Objects(subs) ==
        {[type |-> {"object"}, properties |-> [k |-> s, m |-> t], required |-> r] :
           s \in subs, t \in Leaves, r \in SUBSET {"k", "m"}}
          \cup {[type |-> {"object"}, properties |-> [k |-> s], closed |-> TRUE,
                 required |-> {"k"}] : s \in subs}
  IN  Leaves \cup Arrays \cup Objects(Leaves \cup Arrays \cup Objects(Leaves))

(* Issue, role and workflow, each with a binary of its own.                    *)
MCAgentChoices ==
  LET Level(binary) == [kind : {Unset, "nano", "claude-code"}, binary : {Unset, binary},
                        retries : {Unset, "0"}]
  IN  Level("issue's") \X Level("role's") \X Level("workflow's")

(* Three issues and two plan runs: a caller is in no plan run but one it has   *)
(* called, and nobody waits for himself.                                       *)
MCDatabases ==
  {db \in [plan : [1 .. 3 -> 0 .. 2], caller : [1 .. 2 -> 0 .. 3],
           blockers : [1 .. 3 -> SUBSET (1 .. 3)]] :
     /\ \A r \in 1 .. 2 : db.caller[r] # 0 =>
          LET run == db.plan[db.caller[r]] IN run = 0 \/ db.caller[run] = db.caller[r]
     /\ \A i \in 1 .. 3 : i \notin db.blockers[i]}

(* At most four things that happen.                                            *)
MCLives ==
  LET Attempt(kind, semantics, spawned, duration) ==
        [event |-> "ended",
         attempt |-> [kind |-> kind, semantics |-> semantics, spawned |-> spawned,
                      input |-> duration, output |-> 1, duration |-> duration]]
  IN  SeqsUpTo(
        {Attempt("nano", "success", TRUE, d) : d \in {1, 2, 5}}
          \cup {Attempt("nano", "needs_retry", TRUE, 2),
                Attempt("claude-code", "success", TRUE, 1),
                Attempt("claude-code", "abandoned", FALSE, 0)}
          \cup [event : {"issue"}, of : 1 .. 2, state : {"done", "blocked"}]
          \cup [event : {"run"}, state : {"running", "cancelled"}]
          \cup [event : {"scrape", "restart"}], 4)
===============================================================================
