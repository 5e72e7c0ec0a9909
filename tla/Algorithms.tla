------------------------------ MODULE Algorithms ------------------------------
(* The pure algorithms of the system, each run on every input of a small set:  *)
(* the diff of two revisions of a plan, the layers of its steps and of a dag,  *)
(* the check of a result against its schema and the stub that stands for one,  *)
(* the prompt and the agent of an attempt, what is shown of an agent's lines   *)
(* and of related issues, the metrics, and what is kept and parsed of an       *)
(* agent's output, which is fed chunk by chunk.                                *)
EXTENDS PlanDiff, PlanGraph, SchemaCheck, DryRun, Prompt, AgentResolution, Views,
        Metrics, AgentOutput

CONSTANTS PlanPairs,      \* pairs of plans [markdown, steps, estimates]
          StepLists,      \* sequences of steps [id, after]
          SchemaInputs,   \* pairs of a schema and a value
          Rehearsals,     \* scripts [calls, nodes, edges, max]
          StubSchemas,    \* schemas without bounds
          Issues,         \* issues as an attempt finds them, for their prompt
          AgentChoices,   \* what issue, role and workflow say of the agent
          Databases,      \* tables [plan, caller, blockers]
          Lives,          \* what happens to the metrics of a process and the next
          Streams,        \* lines of two agents, for the timeline
          Logs,           \* lines of a log
          Outputs         \* sequences of lines [kind, len]

VARIABLES job,            \* what is computed, on which input
          ans             \* what has been computed so far

vars == <<job, ans>>

Adapters == {"nano", "claude-code"}

Jobs ==
  [do : {"diff"}, plans : PlanPairs]
    \cup [do : {"graph"}, steps : StepLists]
    \cup [do : {"schema"}, input : SchemaInputs]
    \cup [do : {"dag"}, script : Rehearsals]
    \cup [do : {"stub"}, schema : StubSchemas]
    \cup [do : {"prompt"}, issue : Issues]
    \cup [do : {"agent"}, levels : AgentChoices]
    \cup [do : {"related"}, db : Databases]
    \cup [do : {"metrics"}, life : Lives]
    \cup [do : {"timeline"}, lines : Streams, adapter : Adapters]
    \cup [do : {"log"}, log : Logs, agentKind : Adapters \cup {"other"}]
    \cup [do : {"spawn"}, output : Outputs, ended : BOOLEAN, adapter : Adapters]

Init ==
  /\ job \in Jobs
  /\ ans = [at |-> "todo", read |-> 0, b |-> NothingRead]

Finish(val) ==
  /\ ans' = [at |-> "done", val |-> val]
  /\ UNCHANGED job

Todo(do) == job.do = do /\ ans.at = "todo"

(* GET .../plan/diff: computePlanDiff.                                         *)
DiffPlans ==
  /\ Todo("diff")
  /\ Finish(ComputePlanDiff(job.plans[1], job.plans[2]))

(* GET .../plan/graph: computePlanGraph.                                       *)
LayOut ==
  /\ Todo("graph")
  /\ Finish(ComputePlanGraph(job.steps))

(* emit_result of an issue that expects a schema: validateSchema.              *)
CheckResult ==
  /\ Todo("schema")
  /\ Finish(ValidateSchema(job.input[1], job.input[2]))

(* tickPendingPlans has a script rehearsed; the runner takes up its dag().     *)
RehearsePlan ==
  /\ Todo("dag")
  /\ Finish([dry |-> Rehearse(job.script), run |-> RunDag(job.script.nodes, job.script.edges)])

(* The rehearsal goes on with a stub for the result of an issue.               *)
StubResult ==
  /\ Todo("stub")
  /\ \E stub \in SynthesizeFromSchema(job.schema) : Finish(stub)

(* A worker has the prompt of its attempt rendered.                            *)
TellAgent ==
  /\ Todo("prompt")
  /\ Finish(Told(job.issue))

(* It resolves the agent to run.                                               *)
ChooseAgent ==
  /\ Todo("agent")
  /\ Finish(ResolveAgent(job.levels[1], job.levels[2], job.levels[3]))

(* The detail page asks for related artifacts, of every issue.                 *)
ShowRelated ==
  /\ Todo("related")
  /\ Finish([i \in DOMAIN job.db.plan |-> RelatedIssues(job.db, i)])

(* GET /metrics, at the end of what has happened.                              *)
ShowMetrics ==
  /\ Todo("metrics")
  /\ LET end == FoldLeft(Happens, Started, job.life)
     IN  Finish([db |-> end.db, out |-> RenderMetrics(Scrape(end.reg, end.db))])

(* The detail page shows what the first of two agents has done so far.         *)
ShowTimeline ==
  /\ Todo("timeline")
  /\ Finish(BuildGroups(EventsOf(job.adapter, job.lines, 1)))

ShowLog ==
  /\ Todo("log")
  /\ Finish(LogLines(job.agentKind, job.log))

(* The reader of stdout gets a chunk, of any size.                             *)
ReadChunk ==
  /\ Todo("spawn")
  /\ LET bytes == BytesOf(job.output, job.ended)
     IN  \E to \in ans.read + 1 .. Len(bytes) :
           LET value == SubSeq(bytes, ans.read + 1, to)
           IN  ans' = [ans EXCEPT !.read = to,
                                  !.b = Stream(Keep(@, value), value)]
  /\ UNCHANGED job

(* The pipe is at its end: the adapter parses what was kept.                   *)
ParseOutput ==
  /\ Todo("spawn")
  /\ ans.read = Len(BytesOf(job.output, job.ended))
  /\ ans' = [at |-> "done", read |-> ans.read, b |-> StreamEnd(ans.b),
             val |-> Parse(job.adapter, job.output, StdoutText(ans.b))]
  /\ UNCHANGED job

Next ==
  \/ DiffPlans \/ LayOut \/ CheckResult \/ RehearsePlan \/ StubResult \/ TellAgent
  \/ ChooseAgent \/ ShowTimeline \/ ShowLog \/ ShowRelated \/ ShowMetrics
  \/ ReadChunk \/ ParseOutput

Spec == Init /\ [][Next]_vars

Done(do) == job.do = do /\ ans.at = "done"

(* ------------------------------- the diff ---------------------------------- *)

Side(diff, kind) ==
  LET kept == SelectSeq(diff, LAMBDA e : e.kind \in {"context", kind})
  IN  [k \in DOMAIN kept |-> kept[k].text]

IsSubseq(s, t) ==
  \E f \in [DOMAIN s -> DOMAIN t] :
    /\ \A i, j \in DOMAIN s : i < j => f[i] < f[j]
    /\ \A i \in DOMAIN s : s[i] = t[f[i]]

(* What survives is what the reviewer need not read again, so it has to be as  *)
(* much as can be: no sequence of old lines longer than the context is also a  *)
(* sequence of new lines.                                                      *)
Longest(old, new, n) ==
  ~ \E S \in SUBSET DOMAIN old :
      /\ Cardinality(S) = n + 1
      /\ IsSubseq([k \in 1 .. n + 1 |->
                     old[CHOOSE i \in S : Cardinality({j \in S : j <= i}) = k]],
                  new)

(* Where ids are unique, a step is mentioned exactly if it is new or has       *)
(* another title or description, and the removed ones are those that are gone. *)
StepsTold(old, new, told) ==
  LET at(steps, id) == CHOOSE step \in ToSet(steps) : step.id = id
      SameAsBefore(id) ==
        \A field \in {"title", "description"} :
          at(old, id)[field] = at(new, id)[field]
      ids(steps) == {step.id : step \in ToSet(steps)}
      mentioned == ids(told.added) \cup {c.id : c \in told.changed}
  IN  Cardinality(ids(old)) = Len(old) /\ Cardinality(ids(new)) = Len(new) =>
        /\ (ids(old) \ ids(told.removed)) \cup ids(told.added) = ids(new)
        /\ \A id \in ids(new) :
             id \in mentioned <=> ~ (id \in ids(old) /\ SameAsBefore(id))

(* The diff a reviewer approves a plan by tells both revisions apart: its      *)
(* context and removals are the old text, its context and additions the new    *)
(* one, no shorter account exists, and the hunks leave no changed line out; an *)
(* estimate it does not mention is as it was; and a step it does not mention   *)
(* was there with the title and the description it has.  Such a step may wait  *)
(* for other steps than it did: that the diff does not tell (plan-diff.ts:176, *)
(* http/plan-diff.ts computePlanDiff).                                         *)
DiffFaithful ==
  Done("diff") =>
    LET old == job.plans[1]
        new == job.plans[2]
        d == ans.val.markdown.diff
        context == {k \in DOMAIN d : d[k].kind = "context"}
        e == ans.val.estimates
    IN  /\ Side(d, "removed") = old.markdown
        /\ Side(d, "added") = new.markdown
        /\ Longest(old.markdown, new.markdown, Cardinality(context))
        /\ \A k \in DOMAIN d \ context :
             \E h \in ans.val.markdown.hunks : k \in h.from .. h.to
        /\ StepsTold(old.steps, new.steps, ans.val.steps)
        /\ (DOMAIN old.estimates \ e.removed) \cup e.added = DOMAIN new.estimates
        /\ \A key \in DOMAIN new.estimates \ (e.added \cup e.changed) :
             new.estimates[key] = old.estimates[key]

(* ------------------------------- the layers -------------------------------- *)

Waits(steps) ==
  {<<steps[k].id, d>> : k \in DOMAIN steps, d \in Ids(steps)}
    \cap UNION {{steps[k].id} \X ToSet(steps[k].after) : k \in DOMAIN steps}

(* The chains of steps of which each waits for the next.                       *)
Chains(steps, n) ==
  {c \in [1 .. n -> Ids(steps)] :
     \A i \in 1 .. n - 1 : <<c[i], c[i + 1]>> \in Waits(steps)}

(* The same for a dag: each node waits for those its edges come from.          *)
StepsOf(script) ==
  [k \in DOMAIN script.nodes |->
     LET id == script.nodes[k].id
         to == SelectSeq(script.edges, LAMBDA e : e[2] = id)
     IN  [id |-> id, after |-> [n \in DOMAIN to |-> to[n][1]]]]

Sound(steps) ==
  /\ ~ HasDuplicate(steps)
  /\ ~ HasUnknown(steps)
  /\ Chains(steps, Len(steps) + 1) = {}

(* A plan is drawn exactly when its ids are distinct, its steps wait for steps *)
(* it has and none waits for itself, directly or not; and each step then lies  *)
(* as many layers down as the longest chain of steps before it.  A script      *)
(* passes its rehearsal exactly when the runner takes up its dag, by the same  *)
(* rule, and it makes no more than twice the issues it may; the summary then   *)
(* tells each issue once, with its gate, in the script's order                 *)
(* (http/plan-graph.ts computePlanGraph, plan-runtime/dry-run.ts and runner.ts *)
(* dag).                                                                       *)
LayersRight ==
  /\ Done("graph") =>
       LET s == job.steps
       IN  /\ ans.val.ok <=> Sound(s)
           /\ ans.val.ok =>
                \A i \in Ids(s) :
                  /\ \E c \in Chains(s, ans.val.layers[i] + 1) : c[1] = i
                  /\ ~ \E c \in Chains(s, ans.val.layers[i] + 2) : c[1] = i
  /\ Done("dag") =>
       LET script == job.script
           steps == StepsOf(script)
           named == \A k \in DOMAIN script.edges : script.edges[k][2] \in Ids(steps)
           issues == script.calls \o script.nodes
           layers == ans.val.run.layers
       IN  /\ ans.val.run.ok <=> named /\ Sound(steps)
           /\ ans.val.dry.ok <=> ans.val.run.ok /\ Len(issues) <= 2 * script.max
           /\ ans.val.dry.ok =>
                /\ ans.val.dry.issues = Len(issues)
                /\ ans.val.dry.prompts = [k \in DOMAIN issues |->
                      [gated |-> issues[k].gate, has_schema |-> issues[k].schema]]
           /\ ans.val.run.ok =>
                \A i \in Ids(steps), n \in DOMAIN layers :
                  i \in ToSet(layers[n]) <=>
                    /\ \E c \in Chains(steps, n) : c[1] = i
                    /\ ~ \E c \in Chains(steps, n + 1) : c[1] = i

(* ------------------------------- the schema -------------------------------- *)

(* What a keyword of JSON Schema asks of a value, whatever else the schema     *)
(* says.                                                                       *)
RECURSIVE Meets(_, _)
Meets(s, v) ==
  \A keyword \in DOMAIN s :
    CASE keyword = "type" ->
           v.type \in s.type
             \/ ("integer" \in s.type /\ v.type = "number" /\ v.halves % 2 = 0)
      [] keyword = "enum" -> v \in s.enum
      [] keyword = "minLength" -> v.type = "string" => v.len >= s.minLength
      [] keyword = "maxLength" -> v.type = "string" => v.len <= s.maxLength
      [] keyword = "minimum" -> v.type = "number" => v.halves >= s.minimum
      [] keyword = "maximum" -> v.type = "number" => v.halves <= s.maximum
      [] keyword = "minItems" -> v.type = "array" => Len(v.elems) >= s.minItems
      [] keyword = "maxItems" -> v.type = "array" => Len(v.elems) <= s.maxItems
      [] keyword = "items" ->
           v.type = "array" => \A i \in DOMAIN v.elems : Meets(s.items, v.elems[i])
      [] keyword = "required" ->
           v.type = "object" => s.required \subseteq DOMAIN v.fields
      [] keyword = "properties" ->
           v.type = "object" =>
             \A key \in DOMAIN s.properties \cap DOMAIN v.fields :
               Meets(s.properties[key], v.fields[key])
      [] keyword = "closed" ->
           v.type = "object" => DOMAIN v.fields \subseteq DOMAIN s.properties

RECURSIVE HasPath(_, _)
HasPath(v, path) ==
  path = <<>> \/ /\ Head(path) \in DOMAIN At(v)
                 /\ HasPath(At(v)[Head(path)], Tail(path))

(* A result is accepted exactly when it meets every keyword of the schema its  *)
(* issue expects, at every depth; each complaint is about a value that is in   *)
(* the result.  Schemas are those whose enumerations stand alone, whose bounds *)
(* on arrays come with items and whose closed objects have properties.  The    *)
(* stub with which a rehearsal goes on would be accepted as well, if the       *)
(* schema sets no bounds (plan-runtime/schema-validate.ts validateSchema,      *)
(* plan-runtime/dry-run.ts synthesizeFromSchema).                              *)
SchemaJudged ==
  /\ Done("schema") =>
       LET schema == job.input[1]
           value == job.input[2]
       IN  /\ ans.val = {} <=> Meets(schema, value)
           /\ \A e \in ans.val : HasPath(value, e.path)
  /\ Done("stub") => Meets(job.schema, ans.val)

(* ------------------------------- the prompt -------------------------------- *)

Part(prompt, name) == SelectInSeq(prompt, LAMBDA p : p.part = name)

(* Whether the attempt that is about to start is the first since the note.     *)
Unheard(events, note) ==
  \A k \in DOMAIN events :
    events[k].kind = "started" => events[k].ts < events[note].ts

Notes(events) ==
  {k \in DOMAIN events :
     events[k].kind \in {"revision_requested", "plan_revision_requested"}}

(* The first level that says something of a field, 0 if none does.             *)
Says(levels, field) == SelectInSeq(levels, LAMBDA l : l[field] # Unset)

(* An agent is told what it has to know before it starts: the newest of the    *)
(* reviewers' notes that no attempt has heard yet, if it says anything, and    *)
(* none that an attempt has heard; the last MaxCount comments, if they are not *)
(* too much together; the plan runs of an issue that is resumed, if they are   *)
(* not too much together; and all of that but the plan runs before the task.   *)
(* The comments recorded as injected are those told, whatever was left out.    *)
(* Nothing is claimed of which comments and plan runs are told when there is   *)
(* too much of them: it is the oldest of the last comments and the older plan  *)
(* runs, where the source's comments say that the oldest are dropped           *)
(* (renderer.ts:67, worker.ts:233).  And it is the agent that was asked for: a *)
(* binary named on one level never runs as an agent of the kind that a level   *)
(* above it named (prompt/renderer.ts, orchestrator/worker.ts,                 *)
(* agent-resolution.ts).                                                       *)
PromptTells ==
  /\ Done("prompt") =>
       LET issue == job.issue
           prompt == ans.val.prompt
           note == Part(prompt, "note")
           comments == Part(prompt, "comments")
           invocations == Part(prompt, "invocations")
           unheard == {k \in Notes(issue.events) : Unheard(issue.events, k)}
           newest == {k \in unheard : \A j \in unheard :
                                         issue.events[j].ts <= issue.events[k].ts}
           telling == {k \in newest : issue.events[k].text}
           total == Len(issue.comments)
           window == Max({1, total - MaxCount + 1}) .. total
           resumed == \E k \in DOMAIN issue.events :
                        issue.events[k].kind = "caller_resumed"
       IN  /\ note # 0 => prompt[note].of \in telling
           /\ newest # {} /\ newest = telling => note # 0
           /\ comments = 0 <=> total = 0
           /\ comments # 0 /\ SizeOf(issue.comments, Min(window), total) <= MaxBytes =>
                /\ prompt[comments].ids = window
                /\ prompt[comments].omitted = total - Cardinality(window)
           /\ ans.val.injected = IF comments = 0 THEN {} ELSE prompt[comments].ids
           /\ invocations # 0 <=> resumed /\ issue.runs # <<>>
           /\ invocations # 0
                /\ SizeOf(issue.runs, 1, Len(issue.runs)) <= MaxInvocations =>
                  prompt[invocations].ids = DOMAIN issue.runs
           /\ \A name \in {"note", "comments", "plan_first", "goal"} :
                Part(prompt, name) < Part(prompt, "template")
  /\ Done("agent") =>
       LET levels == job.levels
           kind == Says(levels, "kind")
           binary == Says(levels, "binary")
       IN  /\ ans.val.kind = IF kind = 0 THEN "claude-code" ELSE levels[kind].kind
           /\ ans.val.binary = IF binary # 0 /\ (kind = 0 \/ binary <= kind)
                               THEN levels[binary].binary
                               ELSE DefaultBinary[ans.val.kind]
           /\ levels[2].retries = "0" => ans.val.retries = "0"

(* -------------------------------- the views -------------------------------- *)

(* The lines about tools of one agent, by their places.                        *)
ToolLines(lines, agent) ==
  {k \in DOMAIN lines :
     lines[k].agent = agent /\ lines[k].kind \in {"tool_use", "tool_result"}}

(* The line of the agent's call that a result is of, when it calls one tool at *)
(* a time.                                                                     *)
CallOf(lines, k) == Max({j \in ToolLines(lines, lines[k].agent) : j < k} \cup {0})

(* The agent calls its tools one at a time and every call but the last of all  *)
(* has a result; the results say what they are of, or it is alone.             *)
OneAtATime(lines, adapter) ==
  LET own == ToolLines(lines, 1)
      calls == {k \in own : lines[k].kind = "tool_use"}
      alone == \A k \in DOMAIN lines : lines[k].agent = 1
  IN  /\ \A k \in own : LET c == CallOf(lines, k)
                         IN  IF k \in calls THEN c \notin calls
                             ELSE c \in calls /\ lines[c].tool = lines[k].tool
      /\ \A k \in own \ calls :
           lines[k].named \/ (adapter = "nano" /\ alone)

(* The timeline shows every event of the agent once and gives every call the   *)
(* result it had, if it has one by now, when the agent calls its tools one at  *)
(* a time, whatever another agent prints in between.  The log leaves out blank *)
(* lines and the starts of hooks that have answered, and nothing else.  Two    *)
(* issues of one plan run, its caller included, see each other's artifacts,    *)
(* whoever looks; what an issue waits for, it sees; and of other issues it     *)
(* sees none.  Nothing is claimed of an issue's own: mcp/tools.ts:214 says     *)
(* that they are excluded, and they are not while an issue waits for a plan    *)
(* run that it has called (EventTimeline.tsx, LogViewer.tsx, spawner/adapters, *)
(* http/routes/issues.ts related-artifacts, mcp/tools.ts                       *)
(* list_related_artifacts).                                                    *)
ViewsRight ==
  /\ Done("timeline") /\ OneAtATime(job.lines, job.adapter) =>
       LET groups == ans.val
           lines == job.lines
           results == {k \in ToolLines(lines, 1) : lines[k].kind = "tool_result"}
           Of(c) == {k \in results : CallOf(lines, k) = c}
           shown == {k \in DOMAIN lines : lines[k].agent = 1
                                            /\ (lines[k].kind = "stats"
                                                  => job.adapter = "nano")}
       IN  /\ {groups[g].call : g \in DOMAIN groups} = shown \ results
           /\ Len(groups) = Cardinality(shown \ results)
           /\ \A g \in DOMAIN groups :
                groups[g].result = Max(Of(groups[g].call) \cup {0})
  /\ Done("log") =>
       LET log == job.log
           answered == {k \in DOMAIN log :
                          /\ job.agentKind = "claude-code"
                          /\ log[k].kind = "hook_started"
                          /\ \E j \in DOMAIN log :
                               /\ j > k
                               /\ log[j].hook = log[k].hook
                               /\ \A i \in k + 1 .. j - 1 : log[i].kind = "empty"}
           blank == {k \in DOMAIN log : log[k].kind = "empty"}
           shown == {ans.val[n].at : n \in DOMAIN ans.val}
       IN  /\ shown = DOMAIN log \ (answered \cup blank)
           /\ \A m, n \in DOMAIN ans.val : m < n => ans.val[m].at < ans.val[n].at
  /\ Done("related") =>
       LET db == job.db
           Members(r) == {i \in DOMAIN db.plan : db.plan[i] = r} \cup ({db.caller[r]} \ {0})
           ByPlan(i) == {j \in DOMAIN db.plan : \E r \in DOMAIN db.caller :
                           i # j /\ {i, j} \subseteq Members(r)}
       IN  \A i \in DOMAIN db.plan :
             ans.val[i] \ {i} = ByPlan(i) \cup db.blockers[i]

(* ------------------------------- the metrics ------------------------------- *)

(* What happened from the last restart on.                                     *)
SinceStart(life) ==
  LET restarts == {k \in DOMAIN life : life[k].event = "restart"}
  IN  {k \in DOMAIN life : \A r \in restarts : r < k}

(* A scrape tells the truth: the counters, the histogram's buckets and its sum *)
(* are of all agents of the process that ran, whatever their labels and times, *)
(* and of no others, and the buckets rise to +Inf; the totals and the gauges   *)
(* of the five states of issues that the handler lists and of the states of    *)
(* plan runs are of the tables as they are, whatever an earlier scrape has     *)
(* left in the registry.  Issues in the other five states are in no gauge but  *)
(* the total, so of them the handler's own "/metrics always reflects the DB    *)
(* state" does not hold and is not claimed (metrics.ts, http/routes/           *)
(* metrics.ts:18, :24).                                                        *)
MetricsTrue ==
  Done("metrics") =>
    LET life == job.life
        out == ans.val.out
        ran == {k \in SinceStart(life) : life[k].event = "ended" /\ life[k].attempt.spawned}
        Of(k) == life[k].attempt
        Counted(name, labels) == Value(out.counters, [name |-> name, labels |-> labels])
        Within(b) == Cardinality({k \in ran : Of(k).duration <= b})
        Total(name) == Value(out.gauges, [name |-> name, labels |-> NoLabels])
        Gauge(name, state, rows) ==
          Value(out.gauges, [name |-> name, labels |-> [state |-> state]])
            = Cardinality({k \in DOMAIN rows : rows[k] = state})
    IN  /\ \A k \in ran :
             Counted("agent_attempts_total",
                     [agent_kind |-> Of(k).kind, semantics |-> Of(k).semantics])
               = Cardinality({j \in ran : Of(j).kind = Of(k).kind
                                            /\ Of(j).semantics = Of(k).semantics})
        /\ \A kind \in Adapters, way \in {"input", "output"} :
             Counted("tokens_total", [agent_kind |-> kind, kind |-> way])
               = MapThenSumSet(LAMBDA k : Of(k)[way], {k \in ran : Of(k).kind = kind})
        /\ \A key \in DOMAIN out.counters :
             \E k \in ran : key.labels.agent_kind = Of(k).kind
        /\ out.sum = MapThenSumSet(LAMBDA k : Of(k).duration, ran)
        /\ out.inf = Cardinality(ran)
        /\ \A n \in DOMAIN out.bounds : out.buckets[n] = Within(out.bounds[n])
        /\ \A b \in Bounds \ Range(out.bounds) : Within(b) = 0
        /\ \A m, n \in DOMAIN out.bounds : m < n => out.buckets[m] <= out.buckets[n]
        /\ Total("issues_total") = Len(ans.val.db.issues)
        /\ Total("plan_runs_total") = Len(ans.val.db.runs)
        /\ \A state \in ReportedStates : Gauge("issues_total", state, ans.val.db.issues)
        /\ \A state \in PlanRunStates : Gauge("plan_runs_total", state, ans.val.db.runs)

(* ------------------------------- the output -------------------------------- *)

(* The places in the output of its k-th line.                                  *)
Places(bytes, k) == {i \in DOMAIN bytes : bytes[i][1] = k /\ ~ Newline(bytes[i])}

(* However the output is cut into chunks and however long it is, the lines     *)
(* read as live events are the agent's, each once and in order, and the result *)
(* the adapter finds in what was kept is the one it would find in all of it,   *)
(* if that line lies before the head's limit or among the last bytes the tail  *)
(* holds (spawner/index.ts, lineBuf, the head and tail buffers, the parsers).  *)
OutputKept ==
  Done("spawn") =>
    LET output == job.output
        bytes == BytesOf(output, job.ended)
        right == Parse(job.adapter, output, bytes)
        places == Places(bytes, right)
        tailFrom == Max({HeadLimit, Len(bytes) - TailLimit}) + 1
    IN  /\ ans.b.streamed = [k \in DOMAIN output |->
                               [p \in 1 .. output[k].len |-> <<k, p>>]]
        /\ right # 0 /\ (places \subseteq 1 .. HeadLimit
                            \/ places \subseteq tailFrom .. Len(bytes))
             => ans.val = right
=============================================================================
