-------------------------------- MODULE Views ---------------------------------
(* From the lines an agent prints to what the detail page shows of them: the   *)
(* adapters' live events (spawner/adapters, parseStreamingLine), the timeline  *)
(* that pairs calls of tools with their results (EventTimeline.tsx), the       *)
(* issues whose artifacts belong to its own (http/routes/issues.ts) and the    *)
(* log (LogViewer.tsx, log-parsers).                                           *)
EXTENDS Integers, Sequences, SequencesExt

Unknown == "unknown_tool"

(* ---------------------------- live events ---------------------------------- *)

(* A line [agent, kind, tool, named]: a call of a tool, its result, which may  *)
(* not say which tool it is of, text, or token counts.                         *)
Event(kind, tool) == <<[kind |-> kind, tool |-> tool]>>

ParseClaudeLine(line) ==
  CASE line.kind = "tool_use" -> Event("tool_call", line.tool)
    [] line.kind = "tool_result" ->
         Event("tool_result", IF line.named THEN line.tool ELSE Unknown)
    [] line.kind = "text" -> Event("assistant_chunk", Unknown)
    [] OTHER -> <<>>

(* lastToolName is the module's: all agents of the process share it.           *)
ParseNanoLine(lastToolName, line) ==
  CASE line.kind = "tool_use" -> Event("tool_call", line.tool)
    [] line.kind = "tool_result" ->
         Event("tool_result", IF line.named THEN line.tool ELSE lastToolName)
    [] line.kind = "text" -> Event("assistant_chunk", Unknown)
    [] line.kind = "stats" -> Event("token_stats", Unknown)

LastToolName(lastToolName, line) ==
  CASE line.kind = "tool_use" -> line.tool
    [] line.kind = "tool_result" -> Unknown
    [] OTHER -> lastToolName

(* The events of one agent, by the lines they come from, when several print.   *)
EventsOf(adapter, lines, agent) ==
  LET Read(acc, k) ==
        LET line == lines[k]
            events == IF adapter = "nano" THEN ParseNanoLine(acc.last, line)
                      ELSE ParseClaudeLine(line)
            own == IF line.agent = agent THEN events ELSE <<>>
        IN  [last |-> LastToolName(acc.last, line),
             events |-> acc.events
               \o [e \in DOMAIN own |-> [id |-> k, kind |-> own[e].kind,
                                         tool |-> own[e].tool]]]
  IN  FoldLeft(Read, [last |-> Unknown, events |-> <<>>],
               [k \in DOMAIN lines |-> k]).events

(* ------------------------------ the timeline ------------------------------- *)

(* As BuildGroups, of results that stay in the list when they are paired.      *)
BuildGroupsTwice(events) ==
  LET Result(i) ==
        SelectInSubSeq(events, i + 1, Len(events),
          LAMBDA e : e.kind = "tool_result" /\ e.tool = events[i].tool)
      Group(groups, i) ==
        Append(groups,
               [call |-> events[i].id,
                result |-> IF events[i].kind # "tool_call" \/ Result(i) = 0 THEN 0
                           ELSE events[Result(i)].id])
  IN  FoldLeft(Group, <<>>, [i \in DOMAIN events |-> i])

(* A call takes the next result of its tool along, whether or not an earlier   *)
(* call has taken it; a result that nobody took stands alone.  The list is     *)
(* sorted by time.                                                             *)
BuildGroups(events) ==
  LET Result(i) ==
        SelectInSubSeq(events, i + 1, Len(events),
          LAMBDA e : e.kind = "tool_result" /\ e.tool = events[i].tool)
      Group(acc, i) ==
        LET result == IF events[i].kind = "tool_call" THEN Result(i) ELSE 0
        IN  IF i \in acc.consumed THEN acc
            ELSE [consumed |-> acc.consumed \cup {result},
                  groups |-> Append(acc.groups,
                    [call |-> events[i].id,
                     result |-> IF result = 0 THEN 0 ELSE events[result].id])]
  IN  FoldLeft(Group, [consumed |-> {}, groups |-> <<>>],
               [i \in DOMAIN events |-> i]).groups

(* --------------------------- related artifacts ----------------------------- *)

(* The tables [plan, caller, blockers]: the plan run an issue is linked to, 0  *)
(* for none, the issue that called a plan run, and what an issue waits for.    *)
ListIssuesByPlanRun(db, run) == {i \in DOMAIN db.plan : db.plan[i] = run}
ListPlanRunsByCaller(db, issue) == {r \in DOMAIN db.caller : db.caller[r] = issue}

(* The issues whose artifacts the detail page shows with those of an issue and *)
(* its agent may list.                                                         *)
RelatedIssues(db, issue) ==
  LET run == db.plan[issue]
      siblings == ListIssuesByPlanRun(db, run) \ {issue}
      caller == {db.caller[run]} \ {0, issue}
  IN  (IF run = 0 THEN {} ELSE siblings \cup caller)
        \cup db.blockers[issue]
        \cup UNION {ListIssuesByPlanRun(db, r) : r \in ListPlanRunsByCaller(db, issue)}

(* -------------------------------- the log ---------------------------------- *)

(* A line of the log [kind, hook].  What a line is shown as: its type, the     *)
(* hook it belongs to and whether it is that hook's start.                     *)
Shown(type, hook, starts) == [type |-> type, mergeKey |-> hook, starts |-> starts]

ParseClaudeLogLine(line) ==
  CASE line.kind \in {"hook_started", "hook_response"} ->
         Shown("system", line.hook, line.kind = "hook_started")
    [] line.kind = "init" -> Shown("system", 0, FALSE)
    [] line.kind = "assistant" -> Shown("assistant", 0, FALSE)
    [] line.kind = "tool_use" -> Shown("tool_call", 0, FALSE)
    [] line.kind \in {"tool_result", "user"} -> Shown("tool_result", 0, FALSE)
    [] line.kind \in {"result", "error"} -> Shown(line.kind, 0, FALSE)
    [] line.kind \in {"empty", "log_start"} -> Shown("info", 0, FALSE)
    [] OTHER -> Shown("unknown", 0, FALSE)

(* A line of nano's own log says what it is about by the words of its message. *)
ParseNanoLogLine(line) ==
  CASE line.kind \in {"junk", "empty"} -> Shown("info", 0, FALSE)
    [] line.kind = "tool_use" -> Shown("tool_call", 0, FALSE)
    [] line.kind = "assistant" -> Shown("assistant", 0, FALSE)
    [] line.kind = "error" -> Shown("error", 0, FALSE)
    [] line.kind = "result" -> Shown("result", 0, FALSE)
    [] OTHER -> Shown("system", 0, FALSE)

(* The parser of an agent of neither kind.                                     *)
ParseOtherLogLine(line) ==
  Shown(IF line.kind \in {"junk", "empty"} THEN "info" ELSE "unknown", 0, FALSE)

(* A hook's start directly before its own response gives way to it.            *)
MergeHookPairs(lines) ==
  LET n == Len(lines)
      Pair(i) == /\ i < n
                 /\ lines[i].mergeKey # 0
                 /\ lines[i].starts
                 /\ lines[i + 1].mergeKey = lines[i].mergeKey
      from[i \in 1 .. n + 2] ==
        IF i > n THEN <<>>
        ELSE IF Pair(i) THEN <<lines[i + 1]>> \o from[i + 2]
        ELSE <<lines[i]>> \o from[i + 1]
  IN  from[1]

(* The lines of the viewer, each with its place in the log; blank ones are     *)
(* left out before they are parsed.                                            *)
LogLines(agentKind, log) ==
  LET Parse(line) == CASE agentKind = "claude-code" -> ParseClaudeLogLine(line)
                       [] agentKind = "nano" -> ParseNanoLogLine(line)
                       [] OTHER -> ParseOtherLogLine(line)
      Placed(k) == [at |-> k] @@ Parse(log[k])
      kept == SelectSeq([k \in DOMAIN log |-> k], LAMBDA k : log[k].kind # "empty")
      lines == [n \in DOMAIN kept |-> Placed(kept[n])]
  IN  IF agentKind = "claude-code" THEN MergeHookPairs(lines) ELSE lines
===============================================================================
