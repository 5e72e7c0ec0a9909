----------------------------- MODULE AgentSession -----------------------------
(***************************************************************************)
(* One agent at a time and what surrounds it: the worker's awaits, the     *)
(* process tree and its signals (spawner/index.ts), the token the agent    *)
(* speaks with (mcp/auth.ts, mcp/server.ts), and the orchestrator's        *)
(* process, which is shut down, dies and starts again (index.ts).          *)
(*                                                                         *)
(* Time is in the timers: each is the number of units it has left, Off if  *)
(* it is not set; Elapse takes a unit from all, and waits for none that is *)
(* due.  A descendant of the agent is one that holds its pipes.            *)
(***************************************************************************)
EXTENDS Integers, FiniteSets

CONSTANTS
  MaxAttempt,   \* bound on the attempts
  MaxCrashes,   \* bound on crashes and shutdowns
  MaxMishaps,   \* bound on cancellations, throws and failing spawns
  Timeout,      \* timeout_ms of the agent
  Buffer,       \* by how much its token outlives that: ten minutes
  FilesMax,     \* from the token to the spawn: the adapter's prepare, files
  Escalation,   \* SIGKILL_ESCALATION_MS
  StopWait,     \* what shutdown waits for agents: 30 seconds
  Grace,        \* and after killing them: one second
  None

Attempts == 0..MaxAttempt
Off == -1

ASSUME BoundsAssumption ==
  /\ MaxAttempt \in Nat /\ MaxCrashes \in Nat /\ MaxMishaps \in Nat /\ None \notin Attempts

ASSUME TimesAssumption ==
  /\ {Timeout, Buffer, FilesMax, Escalation, StopWait, Grace} \subseteq Nat \ {0}
  /\ Grace < Escalation /\ FilesMax + Escalation < Buffer

VARIABLES
  up,       \* the orchestrator: up, stopping, grace (agents killed), down
  pc,       \* the worker: idle, prep, files, running, drain, post
  att,      \* its attempt
  cli,      \* the attempts whose transport is cli
  root,     \* the process of each attempt: none, alive, termed, dead
  kid,      \* its descendant: none, child, orphan, dead
  reg,      \* activeProcesses: the attempt whose process is there for the issue
  strays,   \* attempts whose start failed when their process was there already
  pid,      \* symphony_runs.agent_pid, as the attempt whose process has it
  tok,      \* the time each attempt's token has left
  file,     \* whose token .symphony/env holds
  timer,    \* timeoutHandle, killTimer, the steps to the spawn, shutdown's waits
  lost,     \* escalations that are not the registered one's last: of whom, and when
  req,      \* a tool call that is verified and whose body is awaited
  heard,    \* the last tool call carried out
  crashes, mishaps

proc == <<root, kid, reg, strays, pid, lost>>
vars == <<up, pc, att, cli, proc, tok, file, timer, req, heard, crashes, mishaps>>

Timers == {"timeout", "kill", "files", "wait", "grace"}
NoCall == [by |-> None, as |-> None]
Valid(t) == tok[t] # Off
Alive(a) == root[a] \in {"alive", "termed"}
Running == up # "down"
Mishap == mishaps < MaxMishaps /\ mishaps' = mishaps + 1
------------------------------------------------------------------------------
Init ==
  /\ up = "up" /\ pc = "idle" /\ att = -1 /\ cli = {}
  /\ root = [a \in Attempts |-> "none"]
  /\ kid = [a \in Attempts |-> "none"]
  /\ reg = None /\ strays = {}
  /\ pid = None /\ file = None
  /\ tok = [a \in Attempts |-> Off]
  /\ timer = [t \in Timers |-> Off]
  /\ lost = {}
  /\ req = NoCall /\ heard = NoCall
  /\ crashes = 0 /\ mishaps = 0

\* A tick dispatches the next attempt; the transport follows the workflow and the
\* role.
Begin ==
  /\ up = "up" /\ pc = "idle"
  /\ att < MaxAttempt
  /\ att' = att + 1
  /\ pc' = "prep"
  /\ cli' \in {cli, cli \cup {att + 1}}
  /\ UNCHANGED <<up, proc, tok, file, timer, req, heard, crashes, mishaps>>

\* Workspace, hooks and prompt are ready, a hook that failed notwithstanding: the
\* token is issued, and lives as long as the agent may, and ten minutes.
TokenWithoutBuffer ==
  /\ Running /\ pc = "prep"
  /\ pc' = "files"
  /\ tok' = [tok EXCEPT ![att] = Timeout]
  /\ timer' = [timer EXCEPT !["files"] = FilesMax]
  /\ UNCHANGED <<up, att, cli, proc, file, req, heard, crashes, mishaps>>

IssueToken ==
  /\ Running /\ pc = "prep"
  /\ pc' = "files"
  /\ tok' = [tok EXCEPT ![att] = Timeout + Buffer]
  /\ timer' = [timer EXCEPT !["files"] = FilesMax]
  /\ UNCHANGED <<up, att, cli, proc, file, req, heard, crashes, mishaps>>

\* The workspace cannot be made, or the prompt cannot be rendered.
PrepFails ==
  /\ Running /\ pc = "prep"
  /\ Mishap
  /\ pc' = "idle"
  /\ UNCHANGED <<up, att, cli, proc, tok, file, timer, req, heard, crashes>>

\* The process is there and registered for the issue; an escalation that the one
\* registered before has coming is due all the same.
Register ==
  /\ root' = [root EXCEPT ![att] = "alive"]
  /\ reg' = att
  /\ lost' = lost \cup {<<reg, n>> : n \in {timer["kill"]} \ {Off}}

\* Files that a retry finds in place and leaves.
SpawnOnFiles ==
  /\ Running /\ pc = "files"
  /\ pc' = "running"
  /\ file' = IF att \in cli /\ file = None THEN att ELSE file
  /\ Register
  /\ pid' = att
  /\ timer' = [timer EXCEPT !["files"] = Off, !["kill"] = Off, !["timeout"] = Timeout]
  /\ UNCHANGED <<up, att, cli, kid, strays, tok, req, heard, crashes, mishaps>>

\* The files are written, the process starts, is registered and its pid stored, in
\* one breath; the timeout starts with it.
Spawn ==
  /\ Running /\ pc = "files"
  /\ pc' = "running"
  /\ file' = IF att \in cli THEN att ELSE file
  /\ Register
  /\ pid' = att
  /\ timer' = [timer EXCEPT !["files"] = Off, !["kill"] = Off, !["timeout"] = Timeout]
  /\ UNCHANGED <<up, att, cli, kid, strays, tok, req, heard, crashes, mishaps>>

\* The start throws, and the worker goes on without a result: a file cannot be
\* written or the binary does not start ...
SpawnFails ==
  /\ Running /\ pc = "files"
  /\ Mishap
  /\ pc' = "post"
  /\ file' \in {file, IF att \in cli THEN att ELSE file}
  /\ timer' = [timer EXCEPT !["files"] = Off]
  /\ pid' = None
  /\ UNCHANGED <<up, att, cli, root, kid, reg, strays, tok, lost, req, heard, crashes>>

\* ... or the process is there, and its pid cannot be stored or its prompt cannot be
\* written to it: it goes on, registered, without a timeout and without a worker.
SpawnStrays ==
  /\ Running /\ pc = "files"
  /\ Mishap
  /\ pc' = "post"
  /\ file' = IF att \in cli THEN att ELSE file
  /\ Register
  /\ strays' = strays \cup {att}
  /\ timer' = [timer EXCEPT !["files"] = Off, !["kill"] = Off]
  /\ pid' = None
  /\ UNCHANGED <<up, att, cli, kid, tok, req, heard, crashes>>
------------------------------------------------------------------------------
(* Signals. *)

\* killFn that sends SIGTERM and leaves it at that.
KillPolitely(tm) ==
  /\ root' = [root EXCEPT ![reg] = IF @ = "dead" THEN @ ELSE "termed"]
  /\ timer' = tm
  /\ UNCHANGED lost

\* killFn of the registered process: SIGTERM to it and its children, each of which
\* may exit or not; SIGKILL after a while.  A second call loses the timer of the first.
Kill(tm) ==
  /\ root' = [root EXCEPT ![reg] = IF @ = "dead" THEN @ ELSE "termed"]
  /\ timer' = [tm EXCEPT !["kill"] = Escalation]
  /\ lost' = lost \cup {<<reg, n>> : n \in {timer["kill"]} \ {Off}}

\* The agent's time is up.
TimeOut ==
  /\ Running /\ pc = "running" /\ timer["timeout"] = 0
  /\ Kill([timer EXCEPT !["timeout"] = Off])
  /\ UNCHANGED <<up, pc, att, cli, kid, reg, strays, pid, tok, file, req, heard, crashes, mishaps>>

\* cancelAgent, for an operator or for a tick that finds the run stale.
Cancel ==
  /\ Running /\ reg # None
  /\ Mishap
  /\ Kill(timer)
  /\ UNCHANGED <<up, pc, att, cli, kid, reg, strays, pid, tok, file, req, heard, crashes>>

\* An escalation is due: SIGKILL to the process and to those that are its children
\* still.
Escalate ==
  /\ Running
  /\ \E a \in Attempts :
       /\ \/ a = reg /\ timer["kill"] = 0 /\ timer' = [timer EXCEPT !["kill"] = Off]
             /\ UNCHANGED lost
          \/ <<a, 0>> \in lost /\ lost' = lost \ {<<a, 0>>} /\ UNCHANGED timer
       /\ root' = [root EXCEPT ![a] = "dead"]
       /\ kid' = [kid EXCEPT ![a] = IF @ = "child" THEN "dead" ELSE @]
  /\ UNCHANGED <<up, pc, att, cli, reg, strays, pid, tok, file, req, heard, crashes, mishaps>>

\* The processes: an agent starts a helper, either ends, told to or not.
Fork(a) ==
  /\ root[a] = "alive" /\ kid[a] = "none"
  /\ kid' = [kid EXCEPT ![a] = "child"]
  /\ UNCHANGED <<up, pc, att, cli, root, reg, strays, pid, tok, file, timer, lost, req, heard, crashes, mishaps>>

RootEnds(a) ==
  /\ Alive(a)
  /\ root' = [root EXCEPT ![a] = "dead"]
  /\ kid' = [kid EXCEPT ![a] = IF @ = "child" THEN "orphan" ELSE @]
  /\ UNCHANGED <<up, pc, att, cli, reg, strays, pid, tok, file, timer, lost, req, heard, crashes, mishaps>>

KidEnds(a) ==
  /\ kid[a] \in {"child", "orphan"}
  /\ kid' = [kid EXCEPT ![a] = "dead"]
  /\ UNCHANGED <<up, pc, att, cli, root, reg, strays, pid, tok, file, timer, lost, req, heard, crashes, mishaps>>
------------------------------------------------------------------------------
(* The worker after the agent. *)

\* proc.exited: the timeout and the last escalation are cleared, and the process is
\* no longer in the table.
Exited ==
  /\ Running /\ pc = "running" /\ root[att] = "dead"
  /\ pc' = "drain"
  /\ timer' = [timer EXCEPT !["timeout"] = Off, !["kill"] = Off]
  /\ reg' = None
  /\ UNCHANGED <<up, att, cli, root, kid, strays, pid, lost, tok, file, req, heard, crashes, mishaps>>

\* Both pipes are read to their end, which they have when nobody holds them.
Drained ==
  /\ Running /\ pc = "drain" /\ kid[att] # "orphan"
  /\ pc' = "post"
  /\ pid' = None
  /\ UNCHANGED <<up, att, cli, root, kid, reg, strays, tok, file, timer, lost, req, heard, crashes, mishaps>>

\* The completion; the token is revoked after it.
Complete ==
  /\ Running /\ pc = "post"
  /\ pc' = "idle"
  /\ tok' = [tok EXCEPT ![att] = Off]
  /\ UNCHANGED <<up, att, cli, proc, file, timer, req, heard, crashes, mishaps>>

\* Something throws before that: the finally releases the run and not the token.
Throw ==
  /\ Running /\ pc = "post"
  /\ Mishap
  /\ pc' = "idle"
  /\ UNCHANGED <<up, att, cli, proc, tok, file, timer, req, heard, crashes>>
------------------------------------------------------------------------------
(* Tool calls.  An agent on MCP has its token in its environment; on the command *)
(* line it is read from the workspace at every call.                             *)

Speaks(a) == Alive(a) \/ kid[a] \in {"child", "orphan"}

\* The token is verified before the body of the request is awaited.
Ask(a) ==
  /\ Running /\ req = NoCall /\ Speaks(a)
  /\ \E t \in IF a \in cli THEN {file} \ {None} ELSE {a} :
       Valid(t) /\ req' = [by |-> a, as |-> t]
  /\ UNCHANGED <<up, pc, att, cli, proc, tok, file, timer, heard, crashes, mishaps>>

\* The tool acts for the issue and the attempt of the token it was called with.
Act ==
  /\ Running /\ req # NoCall
  /\ heard' = req
  /\ req' = NoCall
  /\ UNCHANGED <<up, pc, att, cli, proc, tok, file, timer, crashes, mishaps>>
------------------------------------------------------------------------------
(* The orchestrator's process. *)

Gone ==
  /\ up' = "down" /\ pc' = "idle"
  /\ tok' = [a \in Attempts |-> Off]
  /\ timer' = [t \in Timers |-> Off]
  /\ lost' = {}
  /\ reg' = None
  /\ req' = NoCall
  /\ UNCHANGED <<att, cli, root, kid, strays, pid, file, heard>>

Crash ==
  /\ Running /\ crashes < MaxCrashes
  /\ crashes' = crashes + 1
  /\ Gone
  /\ UNCHANGED mishaps

\* SIGTERM or SIGINT: no more ticks, and half a minute for the agents.
Shutdown ==
  /\ up = "up" /\ crashes < MaxCrashes
  /\ crashes' = crashes + 1
  /\ up' = "stopping"
  /\ timer' = [timer EXCEPT !["wait"] = StopWait]
  /\ UNCHANGED <<pc, att, cli, proc, tok, file, req, heard, mishaps>>

\* An end that waits for the table of processes to be empty, killed or not.
QuitWhenEmpty ==
  /\ up = "stopping" /\ reg = None
  /\ Gone
  /\ UNCHANGED <<crashes, mishaps>>

\* The table of processes is empty: the process exits, whatever its workers do.
Quit ==
  /\ \/ up = "stopping" /\ reg = None
     \/ up = "grace" /\ timer["grace"] = 0
  /\ Gone
  /\ UNCHANGED <<crashes, mishaps>>

\* killAllAgents; a second later the process exits.
KillAll ==
  /\ up = "stopping" /\ timer["wait"] = 0 /\ reg # None
  /\ up' = "grace"
  /\ Kill([timer EXCEPT !["wait"] = Off, !["grace"] = Grace])
  /\ UNCHANGED <<pc, att, cli, kid, reg, strays, pid, tok, file, req, heard, crashes, mishaps>>

\* A start that does not look at the stored pids.
StartAfresh ==
  /\ up = "down"
  /\ up' = "up"
  /\ pid' = None
  /\ UNCHANGED <<pc, att, cli, root, kid, reg, strays, tok, file, timer, lost, req, heard, crashes, mishaps>>

\* Start-up: SIGKILL to the stored pid and to nothing else.
Start ==
  /\ up = "down"
  /\ up' = "up"
  /\ root' = [a \in Attempts |-> IF a = pid THEN "dead" ELSE root[a]]
  /\ kid' = [a \in Attempts |-> IF a = pid /\ kid[a] = "child" THEN "orphan" ELSE kid[a]]
  /\ pid' = None
  /\ UNCHANGED <<pc, att, cli, reg, strays, tok, file, timer, lost, req, heard, crashes, mishaps>>

\* A unit of time, when nothing is due and no exit is to be noticed.  A token is
\* good in its last unit.
Elapse ==
  /\ Running
  /\ \A t \in Timers : timer[t] # 0
  /\ \A a \in Attempts : <<a, 0>> \notin lost
  /\ pc = "running" => Alive(att)
  /\ lost # {} \/ \E t \in Timers : timer[t] # Off
  /\ timer' = [t \in Timers |-> IF timer[t] = Off THEN Off ELSE timer[t] - 1]
  /\ lost' = {<<l[1], l[2] - 1>> : l \in lost}
  /\ tok' = [a \in Attempts |-> IF tok[a] = Off THEN Off ELSE tok[a] - 1]
  /\ UNCHANGED <<up, pc, att, cli, root, kid, reg, strays, pid, file, req, heard, crashes, mishaps>>

OfWorker == IssueToken \/ Spawn \/ Exited \/ Drained \/ Complete

Next ==
  \/ Begin \/ OfWorker \/ PrepFails \/ SpawnFails \/ SpawnStrays \/ Throw
  \/ TimeOut \/ Cancel \/ Escalate \/ Act
  \/ \E a \in Attempts : Fork(a) \/ RootEnds(a) \/ KidEnds(a) \/ Ask(a)
  \/ Crash \/ Shutdown \/ Quit \/ KillAll \/ Start
  \/ Elapse

Spec == Init /\ [][Next]_vars

\* Timers fire, hooks and files take their time and no more, and the loop of
\* shutdown looks again.  Neither agents nor their helpers have to end.
Fairness ==
  /\ WF_vars(OfWorker) /\ WF_vars(TimeOut) /\ WF_vars(Escalate)
  /\ WF_vars(Quit) /\ WF_vars(KillAll) /\ WF_vars(Elapse)

FairSpec == Spec /\ Fairness
------------------------------------------------------------------------------
TypeOK ==
  /\ up \in {"up", "stopping", "grace", "down"}
  /\ pc \in {"idle", "prep", "files", "running", "drain", "post"}
  /\ att \in Attempts \cup {-1} /\ cli \subseteq Attempts
  /\ root \in [Attempts -> {"none", "alive", "termed", "dead"}]
  /\ kid \in [Attempts -> {"none", "child", "orphan", "dead"}]
  /\ reg \in Attempts \cup {None} /\ strays \subseteq Attempts
  /\ pid \in Attempts \cup {None} /\ file \in Attempts \cup {None}
  /\ tok \in [Attempts -> Off..(Timeout + Buffer)]
  /\ timer \in [Timers -> Int] /\ lost \subseteq Attempts \X Int
  /\ req \in [by : Attempts \cup {None}, as : Attempts \cup {None}]
  /\ heard \in [by : Attempts \cup {None}, as : Attempts \cup {None}]
  /\ crashes \in 0..MaxCrashes /\ mishaps \in 0..MaxMishaps

\* As long as an agent may live, however long its files took and however it
\* resists its timeout, its token is good (worker.ts:316-317, "so tokens don't
\* expire mid-session").
TokenOutlivesAgent == Running /\ pc = "running" => Valid(att)

\* No agent whose start came to its end is alive without the worker that watches
\* it, but while the orchestrator is down: after a crash, a shutdown that it outlived
\* or both, the next start has its pid (index.ts:45-61).  Of a process whose start
\* throws after Bun.spawn (spawner/index.ts:204, 217) nothing of the kind is claimed.
NoUnattendedAgent ==
  Running => \A a \in Attempts \ strays : Alive(a) => pc = "running" /\ att = a

\* What a living agent says is taken for its own attempt: only a helper that
\* survives its agent, or an agent whose start failed, can pick up the token of a
\* later one from the workspace.
OwnReports == heard.as # heard.by => ~Alive(heard.by) \/ heard.by \in strays

\* A worker comes to its end however its agent resists, a helper that holds the
\* pipes apart: nothing has a timeout for that (spawner/index.ts:338-339).
WorkerEnds ==
  pc # "idle" ~> (pc = "idle" \/ (pc = "drain" /\ kid[att] = "orphan"))

\* A shutdown ends, with agents that resist it and workers that start one more
\* (index.ts:98-113).
ShutdownEnds == up \in {"stopping", "grace"} ~> up = "down"
==============================================================================
