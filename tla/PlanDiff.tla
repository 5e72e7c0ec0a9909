------------------------------- MODULE PlanDiff -------------------------------
(* The line diff of two revisions of a plan that the review panel shows        *)
(* (http/plan-diff.ts).  A text is a sequence of lines; what a line says is    *)
(* abstracted to a value that is or is not another line's.                     *)
EXTENDS Integers, Sequences, FiniteSetsExt

CONTEXT_WINDOW == 2

(* How long the longest common subsequence of old[i..] and new[j..] is.        *)
Table(old, new) ==
  LET m == Len(old)
      n == Len(new)
      dp[i \in 1 .. m + 1, j \in 1 .. n + 1] ==
        IF i > m \/ j > n THEN 0
        ELSE IF old[i] = new[j] THEN 1 + dp[i + 1, j + 1]
        ELSE Max({dp[i + 1, j], dp[i, j + 1]})
  IN  dp

(* The walk along the table: a common line is context, and where either text   *)
(* may give way the new line is reported first.  (The source's last branch,    *)
(* for an entry of the table that equals neither neighbour, is never taken.)   *)
Walk(old, new) ==
  LET m == Len(old)
      n == Len(new)
      dp == Table(old, new)
      from[i \in 1 .. m + 1, j \in 1 .. n + 1] ==
        LET Entry(kind, text, rest) ==
              <<[kind |-> kind, text |-> text]>> \o rest
        IN  IF i > m /\ j > n THEN <<>>
            ELSE IF i <= m /\ j <= n /\ old[i] = new[j]
              THEN Entry("context", old[i], from[i + 1, j + 1])
            ELSE IF j <= n /\ (i > m \/ dp[i, j] = dp[i, j + 1])
              THEN Entry("added", new[j], from[i, j + 1])
            ELSE Entry("removed", old[i], from[i + 1, j])
  IN  from[1, 1]

(* As Hunks, one entry further past the ones a closed hunk took along.         *)
HunksSkipping(diff) ==
  LET n == Len(diff)
      rest[idx \in 1 .. n + 3, open \in 0 .. n] ==
        CASE idx > n /\ open = 0 -> {}
          [] idx > n /\ open # 0 -> {[from |-> open, to |-> n]}
          [] idx <= n /\ diff[idx].kind # "context" ->
               rest[idx + 1,
                    IF open # 0 THEN open ELSE Max({1, idx - CONTEXT_WINDOW})]
          [] idx <= n /\ diff[idx].kind = "context" /\ open = 0 ->
               rest[idx + 1, 0]
          [] OTHER ->
               LET to == Min({n, idx + CONTEXT_WINDOW})
               IN  {[from |-> open, to |-> to]} \cup rest[to + 2, 0]
  IN  rest[1, 0]

(* The hunks, each by the places [from, to] of its entries in the diff.  A     *)
(* change opens one, two entries back; the context entry that ends it takes    *)
(* the two entries after it along, and they are not looked at again.           *)
Hunks(diff) ==
  LET n == Len(diff)
      rest[idx \in 1 .. n + 3, open \in 0 .. n] ==
        CASE idx > n /\ open = 0 -> {}
          [] idx > n /\ open # 0 -> {[from |-> open, to |-> n]}
          [] idx <= n /\ diff[idx].kind # "context" ->
               rest[idx + 1,
                    IF open # 0 THEN open ELSE Max({1, idx - CONTEXT_WINDOW})]
          [] idx <= n /\ diff[idx].kind = "context" /\ open = 0 ->
               rest[idx + 1, 0]
          [] OTHER ->
               LET to == Min({n, idx + CONTEXT_WINDOW})
               IN  {[from |-> open, to |-> to]} \cup rest[to + 1, 0]
  IN  rest[1, 0]

DiffMarkdown(old, new) ==
  LET diff == Walk(old, new)
  IN  [diff |-> diff, hunks |-> Hunks(diff)]

(* A step is [id, title, description, after]; of two of the same id the last   *)
(* counts, but each of the new ones is compared, by its title and description: *)
(* what a step waits for is not looked at (plan-diff.ts:176-183).              *)
DiffSteps(old, new) ==
  LET Ids(steps) == {steps[k].id : k \in DOMAIN steps}
      last(id) == old[Max({k \in DOMAIN old : old[k].id = id})]
      Lacking(steps, ids) == SelectSeq(steps, LAMBDA step : step.id \notin ids)
      Fields(from, to) ==
        {field \in {"title", "description"} : from[field] # to[field]}
  IN  [added |-> Lacking(new, Ids(old)),
       removed |-> Lacking(old, Ids(new)),
       changed |-> {[id |-> step.id, fields |-> Fields(last(step.id), step)] :
                      step \in {new[k] : k \in {k \in DOMAIN new :
                                /\ new[k].id \in Ids(old)
                                /\ Fields(last(new[k].id), new[k]) # {}}}}]

(* Estimates are a record of those that are given.                             *)
DiffEstimates(old, new) ==
  [added |-> DOMAIN new \ DOMAIN old,
   removed |-> DOMAIN old \ DOMAIN new,
   changed |-> {key \in DOMAIN old \cap DOMAIN new : old[key] # new[key]}]

ComputePlanDiff(from, to) ==
  [markdown |-> DiffMarkdown(from.markdown, to.markdown),
   steps |-> DiffSteps(from.steps, to.steps),
   estimates |-> DiffEstimates(from.estimates, to.estimates)]
=============================================================================
