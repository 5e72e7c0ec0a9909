-------------------------- MODULE AgentSession_proofs --------------------------
(* Theorems about an issue's agents, for any number of attempts, crashes and   *)
(* mishaps and for all times that TimesAssumption admits: no agent goes        *)
(* unattended, none outlives its token, and what it says counts for its own    *)
(* attempt.                                                                    *)
EXTENDS AgentSession, TLAPS

Clocks(tm) == tm \in [Timers -> Int] /\ \A t \in Timers : tm[t] >= -1

Typed ==
  /\ up \in {"up", "stopping", "grace", "down"}
  /\ pc \in {"idle", "prep", "files", "running", "drain", "post"}
  /\ att \in Attempts \cup {-1} /\ (pc # "idle" => att \in Attempts)
  /\ up = "down" => pc = "idle"
  /\ root \in [Attempts -> {"none", "alive", "termed", "dead"}]
  /\ kid \in [Attempts -> {"none", "child", "orphan", "dead"}]
  /\ tok \in [Attempts -> Int]
  /\ Clocks(timer)
  /\ lost \subseteq Attempts \X Nat
  /\ pid \in Attempts \cup {None}
  /\ reg \in Attempts \cup {None} /\ strays \subseteq Attempts

(* Each attempt has one process at most, and that one is registered, stored    *)
(* and watched, unless its start failed.                                       *)
Processes ==
  /\ \A a \in Attempts : a > att => root[a] = "none"
  /\ pc \in {"prep", "files"} => root[att] = "none"
  /\ pc = "running" => root[att] # "none" /\ reg = att
  /\ \A a \in Attempts : kid[a] # "none" => root[a] # "none"
  /\ \A l \in lost : root[l[1]] # "none"
  /\ \A a \in Attempts \ strays : Alive(a) => pid = a
  /\ reg \in Attempts => root[reg] # "none"
  /\ pid \in Attempts => root[pid] # "none"
  /\ NoUnattendedAgent

(* A due time of the agent's: the token is good for longer than that.          *)
Due(n) == timer["kill"] = n \/ <<att, n>> \in lost

Slack == Buffer - FilesMax - Escalation

(* What the token has left is more than the files, then the timeout, then some *)
(* escalation may take.                                                        *)
Clock ==
  /\ pc # "running" => timer["timeout"] = Off
  /\ reg = None => timer["kill"] = Off
  /\ pc = "files" =>
       timer["files"] >= 0 /\ tok[att] >= Timeout + Slack + Escalation + timer["files"]
  /\ pc = "running" => tok[att] >= 1
  /\ pc = "running" /\ timer["timeout"] # Off =>
       tok[att] >= timer["timeout"] + Slack + Escalation
  /\ pc = "running" /\ timer["timeout"] = Off /\ Alive(att) =>
       \E n \in Nat : Due(n) /\ tok[att] >= n + Slack

(* A call under another attempt's token is a helper's whose agent is dead, or  *)
(* a stray's.                                                                  *)
Foreign(call) ==
  call.as # call.by => call.by \in Attempts /\ (root[call.by] = "dead" \/ call.by \in strays)

Calls ==
  /\ pc = "running" /\ att \in cli => file = att
  /\ Foreign(req) /\ Foreign(heard)

IInv == Typed /\ Processes /\ Clock /\ Calls

USE BoundsAssumption DEF Attempts, Off

LEMMA TimesPositive ==
  /\ Timeout \in Nat /\ Buffer \in Nat /\ FilesMax \in Nat /\ Escalation \in Nat
  /\ Timeout >= 1 /\ FilesMax >= 1 /\ Escalation >= 1 /\ StopWait \in Nat /\ Grace \in Nat
  /\ Slack \in Int /\ Slack >= 1
BY TimesAssumption DEF Slack

LEMMA TimerNames ==
  /\ "timeout" \in Timers /\ "kill" \in Timers /\ "files" \in Timers
  /\ "wait" \in Timers /\ "grace" \in Timers
BY DEF Timers

(* Setting timers keeps them timers.                                           *)
LEMMA TimersSet ==
  ASSUME NEW tm, Clocks(tm), NEW t \in Timers, NEW n \in Int, n >= -1
  PROVE  Clocks([tm EXCEPT ![t] = n])
BY DEF Clocks

(* The timers of an attempt whose process is there.                            *)
LEMMA TimersCleared ==
  ASSUME NEW tm, Clocks(tm)
  PROVE  Clocks([tm EXCEPT !["files"] = -1, !["kill"] = -1])
BY TimerNames DEF Clocks

USE TimesPositive, TimerNames

LEMMA BeginSafe == ASSUME IInv, Begin PROVE IInv'
<1> USE DEF IInv, Begin, proc
<1>1. Typed' BY DEF Typed
<1>2. Processes' BY DEF Typed, Processes, NoUnattendedAgent, Alive, Running
<1>3. Clock' BY DEF Typed, Clock, Clocks
<1>4. Calls' BY DEF Typed, Calls, Foreign
<1> QED BY <1>1, <1>2, <1>3, <1>4

LEMMA IssueTokenSafe == ASSUME IInv, IssueToken PROVE IInv'
<1> USE DEF IInv, IssueToken, proc
<1>1. Typed'
  <2>1. Clocks(timer)  /\ timer' = [timer EXCEPT !["files"] = FilesMax] BY DEF Typed
  <2>2. Clocks(timer') BY <2>1 DEF Clocks
  <2>3. tok' \in [Attempts -> Int] BY DEF Typed
  <2> QED BY <2>2, <2>3 DEF Typed, Running
<1>2. Processes' BY DEF Typed, Processes, NoUnattendedAgent, Alive, Running
<1>3. Clock'
  <2>1. pc' = "files" /\ timer'["files"] = FilesMax /\ tok'[att] = Timeout + Buffer
    BY DEF Typed, Clocks
  <2>2. timer'["timeout"] = Off /\ timer'["kill"] = timer["kill"] BY DEF Typed, Clock, Clocks
  <2>3. tok'[att] >= Timeout + Slack + Escalation + FilesMax BY <2>1 DEF Slack
  <2> QED BY <2>1, <2>2, <2>3 DEF Clock
<1>4. Calls' BY DEF Typed, Calls, Foreign
<1> QED BY <1>1, <1>2, <1>3, <1>4

(* A process that takes the place of a stray leaves its escalation due.        *)
LEMMA Registered ==
  ASSUME IInv, pc = "files", Register
  PROVE  /\ att \in Attempts /\ root[att] = "none" /\ root'[att] = "alive" /\ reg' = att
         /\ \A a \in Attempts : a # att => root'[a] = root[a]
         /\ root' \in [Attempts -> {"none", "alive", "termed", "dead"}]
         /\ lost' \subseteq Attempts \X Nat
         /\ \A l \in lost' : root'[l[1]] # "none"
<1> USE DEF IInv, Register
<1>1. att \in Attempts /\ root[att] = "none" BY DEF Typed, Processes
<1>2. /\ root'[att] = "alive" /\ \A a \in Attempts : a # att => root'[a] = root[a]
      /\ root' \in [Attempts -> {"none", "alive", "termed", "dead"}]
  BY <1>1 DEF Typed
<1>3. ASSUME NEW l \in lost' PROVE l \in Attempts \X Nat /\ root'[l[1]] # "none"
  <2>1. CASE l \in lost
    <3>1. l \in Attempts \X Nat BY <2>1 DEF Typed
    <3>2. l[1] \in Attempts /\ root[l[1]] # "none" BY <2>1, <3>1 DEF Processes
    <3> QED BY <1>2, <3>1, <3>2
  <2>2. CASE l \notin lost
    <3>1. PICK n \in {timer["kill"]} \ {Off} : l = <<reg, n>> BY <2>2
    <3>2. n \in Int /\ n >= -1 /\ n # -1 BY <3>1 DEF Typed, Clocks
    <3>3. reg \in Attempts /\ root[reg] # "none"
      <4>1. reg # None BY <3>1 DEF Clock
      <4> QED BY <4>1 DEF Typed, Processes
    <3>4. n \in Nat BY <3>2
    <3>5. l[1] = reg /\ l \in Attempts \X Nat BY <3>1, <3>3, <3>4
    <3> QED BY <1>1, <1>2, <3>3, <3>5
  <2> QED BY <2>1, <2>2
<1>4. lost' \subseteq Attempts \X Nat BY <1>3
<1> QED BY <1>1, <1>2, <1>3, <1>4

LEMMA SpawnSafe == ASSUME IInv, Spawn PROVE IInv'
<1>0. /\ att \in Attempts /\ root[att] = "none" /\ root'[att] = "alive" /\ reg' = att
      /\ \A a \in Attempts : a # att => root'[a] = root[a]
      /\ root' \in [Attempts -> {"none", "alive", "termed", "dead"}]
      /\ lost' \subseteq Attempts \X Nat
      /\ \A l \in lost' : root'[l[1]] # "none"
  BY Registered DEF Spawn
<1> USE DEF IInv, Spawn
<1>1. Clocks(timer') /\ timer'["timeout"] = Timeout
  <2> DEFINE tm == [timer EXCEPT !["files"] = Off, !["kill"] = Off]
  <2>0. Clocks(timer) BY DEF Typed
  <2>1. Clocks(tm)
    <3> HIDE DEF IInv, Spawn
    <3> QED BY <2>0, TimersCleared
  <2>2. timer' = [tm EXCEPT !["timeout"] = Timeout] OBVIOUS
  <2> HIDE DEF tm
  <2> QED BY <2>1, <2>2 DEF Clocks
<1>2. Typed' BY <1>0, <1>1 DEF Typed, Running
<1>3. Processes'
  <2>1. \A a \in Attempts : a # att => a \in strays \/ ~Alive(a)
    BY DEF Processes, NoUnattendedAgent, Running
  <2>2. UNCHANGED <<att, kid, strays>> /\ pid' = att /\ pc' = "running" OBVIOUS
  <2>3. \A a \in Attempts \ strays : Alive(a)' => a = att
    BY <1>0, <2>1 DEF Alive
  <2>4. \A a \in Attempts : a > att => root'[a] = "none" BY <1>0 DEF Processes
  <2>5. \A a \in Attempts : kid'[a] # "none" => root'[a] # "none"
    BY <1>0, <2>2 DEF Processes
  <2>6. NoUnattendedAgent' BY <2>2, <2>3 DEF NoUnattendedAgent
  <2> QED BY <1>0, <2>2, <2>3, <2>4, <2>5, <2>6 DEF Processes
<1>4. Clock'
  <2>1. pc' = "running" /\ timer'["timeout"] = Timeout BY <1>1
  <2>2. tok'[att'] >= Timeout + Slack + Escalation /\ tok'[att'] \in Int
    BY DEF Typed, Clock, Clocks
  <2>3. tok'[att'] >= 1 BY <2>2
  <2>4. reg' # None BY <1>0
  <2> QED BY <2>1, <2>2, <2>3, <2>4 DEF Clock
<1>5. Calls'
  <2>1. \A a \in Attempts : root[a] = "dead" => root'[a] = "dead" BY <1>0
  <2> QED BY <2>1 DEF Calls, Foreign
<1> QED BY <1>2, <1>3, <1>4, <1>5

LEMMA SpawnStraysSafe == ASSUME IInv, SpawnStrays PROVE IInv'
<1>0. /\ att \in Attempts /\ root[att] = "none" /\ root'[att] = "alive" /\ reg' = att
      /\ \A a \in Attempts : a # att => root'[a] = root[a]
      /\ root' \in [Attempts -> {"none", "alive", "termed", "dead"}]
      /\ lost' \subseteq Attempts \X Nat
      /\ \A l \in lost' : root'[l[1]] # "none"
  BY Registered DEF SpawnStrays
<1> USE DEF IInv, SpawnStrays
<1>1. Clocks(timer')
  <2>1. Clocks(timer) /\ timer' = [timer EXCEPT !["files"] = Off, !["kill"] = Off]
    BY DEF Typed
  <2> HIDE DEF IInv, SpawnStrays
  <2> QED BY <2>1, TimersCleared
<1>2. Typed' BY <1>0, <1>1 DEF Typed, Running
<1>3. Processes'
  <2>1. \A a \in Attempts : a # att => a \in strays \/ ~Alive(a)
    BY DEF Processes, NoUnattendedAgent, Running
  <2>2. UNCHANGED <<att, kid>> /\ pid' = None /\ pc' = "post" /\ strays' = strays \cup {att}
    OBVIOUS
  <2>3. \A a \in Attempts \ strays' : ~Alive(a)'
    BY <1>0, <2>1, <2>2 DEF Alive
  <2>4. \A a \in Attempts : a > att => root'[a] = "none" BY <1>0 DEF Processes
  <2>5. \A a \in Attempts : kid'[a] # "none" => root'[a] # "none"
    BY <1>0, <2>2 DEF Processes
  <2>6. NoUnattendedAgent' BY <2>3 DEF NoUnattendedAgent
  <2> QED BY <1>0, <2>2, <2>3, <2>4, <2>5, <2>6 DEF Processes
<1>4. Clock'
  <2>1. timer["timeout"] = Off BY DEF Clock
  <2>2. timer'["timeout"] = Off /\ timer'["kill"] = Off BY <2>1 DEF Typed, Clocks
  <2> QED BY <2>2 DEF Clock
<1>5. Calls'
  <2>1. \A a \in Attempts : root[a] = "dead" => root'[a] = "dead" BY <1>0
  <2> QED BY <2>1 DEF Calls, Foreign
<1> QED BY <1>2, <1>3, <1>4, <1>5

(* The ends of an attempt that leave no agent behind.                          *)
LEMMA EndsSafe ==
  ASSUME IInv, Exited \/ Drained \/ Complete \/ PrepFails \/ SpawnFails \/ Throw
  PROVE  IInv'
<1> USE DEF IInv, Exited, Drained, Complete, PrepFails, SpawnFails, Throw, proc
<1>1. Typed'
  <2>1. Clocks(timer')
    <3> DEFINE tm == [timer EXCEPT !["timeout"] = Off]
    <3>1. Clocks(timer) BY DEF Typed
    <3>2. Clocks(tm) BY <3>1, TimersSet
    <3>3. timer' \in {timer, [timer EXCEPT !["files"] = Off], [tm EXCEPT !["kill"] = Off]}
      OBVIOUS
    <3> HIDE DEF tm
    <3> QED BY <3>1, <3>2, <3>3, TimersSet
  <2>2. tok' \in [Attempts -> Int] BY DEF Typed
  <2> QED BY <2>1, <2>2 DEF Typed, Running
<1>2. Processes' BY DEF Typed, Processes, NoUnattendedAgent, Alive, Running
<1>3. Clock' BY DEF Typed, Clock, Clocks
<1>4. Calls' BY DEF Typed, Calls, Foreign
<1> QED BY <1>1, <1>2, <1>3, <1>4

(* A signal sets an escalation and keeps those that are due before.            *)
LEMMA KillSafe ==
  ASSUME IInv, reg # None, NEW tm, Kill(tm),
         Clocks(tm), tm["files"] = timer["files"],
         tm["timeout"] = timer["timeout"]
           \/ (tm["timeout"] = Off /\ timer["timeout"] = 0),
         UNCHANGED <<pc, att, cli, kid, reg, strays, pid, tok, file, req, heard>>,
         up' \in {"up", "stopping", "grace"}, up # "down"
  PROVE  IInv'
<1> USE DEF IInv, Kill
<1>1. reg \in Attempts /\ root[reg] # "none" BY DEF Typed, Processes
<1>2. \A a \in Attempts : /\ root[a] = "dead" <=> root'[a] = "dead"
                          /\ root[a] = "none" <=> root'[a] = "none"
  BY <1>1 DEF Typed
<1>3. \A l \in lost' : l \in lost \/ l = <<reg, timer["kill"]>> OBVIOUS
<1>4. Typed'
  <2>1. lost' \subseteq Attempts \X Nat
    <3>1. timer["kill"] \in Int /\ timer["kill"] >= -1 BY DEF Typed, Clocks
    <3>2. timer["kill"] # Off => timer["kill"] \in Nat BY <3>1
    <3>3. \A n \in {timer["kill"]} \ {Off} : <<reg, n>> \in Attempts \X Nat BY <1>1, <3>2
    <3>4. lost \subseteq Attempts \X Nat BY DEF Typed
    <3> HIDE DEF Off, IInv
    <3> QED BY <3>3, <3>4
  <2>2. root' \in [Attempts -> {"none", "alive", "termed", "dead"}] BY DEF Typed
  <2>3. Clocks(timer') BY DEF Clocks
  <2> QED BY <2>1, <2>2, <2>3 DEF Typed
<1>5. \A a \in Attempts : Alive(a)' <=> Alive(a)
  <2>1. /\ root \in [Attempts -> {"none", "alive", "termed", "dead"}]
        /\ root' \in [Attempts -> {"none", "alive", "termed", "dead"}]
    BY <1>4 DEF Typed
  <2> QED BY <1>2, <2>1 DEF Alive
<1>6. Processes'
  <2>1. \A l \in lost' : root'[l[1]] # "none"
    <3> SUFFICES ASSUME NEW l \in lost' PROVE root'[l[1]] # "none" OBVIOUS
    <3>1. CASE l \in lost
      <4>1. l[1] \in Attempts BY <3>1 DEF Typed
      <4> QED BY <1>2, <3>1, <4>1 DEF Processes
    <3>2. CASE l = <<reg, timer["kill"]>> BY <1>1, <1>2, <3>2
    <3> QED BY <1>3, <3>1, <3>2
  <2>2. (pc # "idle" => att \in Attempts) /\ Running BY DEF Typed, Running
  <2>3. NoUnattendedAgent' BY <1>5, <2>2 DEF Processes, NoUnattendedAgent
  <2> QED BY <1>2, <1>5, <2>1, <2>2, <2>3 DEF Processes
<1>7. Clock'
  <2>1. timer'["kill"] = Escalation /\ timer'["timeout"] = tm["timeout"] BY DEF Clocks
  <2>2. CASE pc # "running"
    <3>1. tm["timeout"] = Off BY <2>2 DEF Clock
    <3>2. pc = "files" => timer'["files"] = tm["files"] BY DEF Clocks
    <3> QED BY <2>1, <2>2, <3>1, <3>2 DEF Clock
  <2>3. CASE pc = "running"
    <3>1. reg = att /\ tok[att] \in Int BY <1>1, <2>3 DEF Typed, Processes
    <3>2. \A n \in Nat : Due(n) => Due(n)' BY <3>1 DEF Due
    <3>3. CASE tm["timeout"] = timer["timeout"]
      <4>1. Alive(att)' => Alive(att) BY <1>1, <1>5, <3>1
      <4> QED BY <2>1, <2>3, <3>1, <3>2, <3>3, <4>1 DEF Clock
    <3>4. CASE tm["timeout"] = Off /\ timer["timeout"] = 0
      <4>1. tok[att] >= Escalation + Slack BY <2>3, <3>1, <3>4 DEF Clock
      <4>2. Due(Escalation)' BY <2>1 DEF Due
      <4> QED BY <2>1, <2>3, <3>1, <3>4, <4>1, <4>2 DEF Clock
    <3> QED BY <3>3, <3>4
  <2> QED BY <2>2, <2>3
<1>8. Calls' BY <1>2 DEF Calls, Foreign
<1> QED BY <1>4, <1>6, <1>7, <1>8

LEMMA SignalSafe == ASSUME IInv, TimeOut \/ Cancel \/ KillAll PROVE IInv'
<1>1. Clocks(timer) BY DEF IInv, Typed
<1>2. CASE TimeOut
  <2> DEFINE tm == [timer EXCEPT !["timeout"] = Off]
  <2>1. Clocks(tm) /\ tm["timeout"] = Off /\ tm["files"] = timer["files"]
    BY <1>1 DEF Clocks
  <2>2. /\ reg # None /\ timer["timeout"] = 0 /\ Kill(tm)
        /\ UNCHANGED <<up, pc, att, cli, kid, reg, strays, pid, tok, file, req, heard>>
        /\ up # "down"
    BY <1>2 DEF IInv, Typed, Processes, TimeOut, Running
  <2>3. up' \in {"up", "stopping", "grace"} BY <2>2 DEF IInv, Typed
  <2> HIDE DEF tm
  <2> QED BY <2>1, <2>2, <2>3, KillSafe
<1>3. CASE Cancel
  <2>1. /\ reg # None /\ Kill(timer)
        /\ UNCHANGED <<up, pc, att, cli, kid, reg, strays, pid, tok, file, req, heard>>
        /\ up # "down"
    BY <1>3 DEF Cancel, Running
  <2>2. up' \in {"up", "stopping", "grace"} BY <2>1 DEF IInv, Typed
  <2> QED BY <1>1, <2>1, <2>2, KillSafe
<1>4. CASE KillAll
  <2> DEFINE tm == [timer EXCEPT !["wait"] = Off, !["grace"] = Grace]
  <2>1. Clocks(tm) /\ tm["timeout"] = timer["timeout"] /\ tm["files"] = timer["files"]
    BY <1>1 DEF Clocks
  <2>2. /\ reg # None /\ Kill(tm)
        /\ UNCHANGED <<pc, att, cli, kid, reg, strays, pid, tok, file, req, heard>>
        /\ up = "stopping" /\ up' = "grace"
    BY <1>4 DEF KillAll
  <2> HIDE DEF tm
  <2> QED BY <2>1, <2>2, KillSafe
<1> QED BY <1>2, <1>3, <1>4

LEMMA EscalateSafe == ASSUME IInv, Escalate PROVE IInv'
<1> USE DEF IInv
<1>1. PICK a \in Attempts :
        /\ \/ a = reg /\ timer["kill"] = 0 /\ timer' = [timer EXCEPT !["kill"] = Off]
              /\ UNCHANGED lost
           \/ <<a, 0>> \in lost /\ lost' = lost \ {<<a, 0>>} /\ UNCHANGED timer
        /\ root' = [root EXCEPT ![a] = "dead"]
        /\ kid' = [kid EXCEPT ![a] = IF @ = "child" THEN "dead" ELSE @]
  BY DEF Escalate
<1>2. Running /\ UNCHANGED <<up, pc, att, cli, reg, strays, pid, tok, file, req, heard>>
  BY DEF Escalate
<1>3. root[a] # "none"
  <2>1. CASE a = reg BY <2>1 DEF Processes
  <2>2. CASE <<a, 0>> \in lost BY <2>2 DEF Processes
  <2> QED BY <1>1, <2>1, <2>2
<1>4. Typed'
  <2>1. Clocks(timer) BY DEF Typed
  <2>2. timer' \in {timer, [timer EXCEPT !["kill"] = Off]} BY <1>1
  <2>3. Clocks(timer') BY <2>1, <2>2, TimersSet
  <2>4. lost' \subseteq Attempts \X Nat BY <1>1 DEF Typed
  <2>5. /\ root' \in [Attempts -> {"none", "alive", "termed", "dead"}]
        /\ kid' \in [Attempts -> {"none", "child", "orphan", "dead"}]
    BY <1>1 DEF Typed
  <2> QED BY <1>2, <2>3, <2>4, <2>5 DEF Typed
<1>5. Processes'
  <2>1. \A b \in Attempts : /\ root'[b] = "none" <=> root[b] = "none"
                            /\ Alive(b)' => Alive(b)
                            /\ kid'[b] # "none" => kid[b] # "none"
    BY <1>1, <1>3 DEF Typed, Alive
  <2>4. pid \in Attempts => root'[pid] # "none" BY <2>1 DEF Processes
  <2>2. lost' \subseteq lost /\ \A l \in lost : l[1] \in Attempts BY <1>1 DEF Typed
  <2>3. pc # "idle" => att \in Attempts BY DEF Typed
  <2> QED BY <1>2, <2>1, <2>2, <2>3, <2>4 DEF Processes, NoUnattendedAgent, Running
<1>6. Clock'
  <2>1. timer'["timeout"] = timer["timeout"] /\ timer'["files"] = timer["files"]
        /\ timer'["kill"] \in {timer["kill"], Off}
    BY <1>1 DEF Typed, Clocks
  <2>2. ASSUME pc = "running", timer["timeout"] = Off, Alive(att)'
        PROVE  \E n \in Nat : Due(n)' /\ tok[att] >= n + Slack
    <3>0. att \in Attempts /\ att' = att BY <1>2, <2>2 DEF Typed
    <3>1. a # att /\ Alive(att)
      <4>1. /\ root' = [root EXCEPT ![a] = "dead"]
            /\ root \in [Attempts -> {"none", "alive", "termed", "dead"}]
        BY <1>1 DEF Typed
      <4>2. root'[att] \in {"alive", "termed"} BY <2>2, <3>0 DEF Alive
      <4>3. a # att BY <3>0, <4>1, <4>2
      <4> QED BY <3>0, <4>1, <4>2, <4>3 DEF Alive
    <3>2. PICK n \in Nat : Due(n) /\ tok[att] >= n + Slack BY <2>2, <3>1 DEF Clock
    <3>3. Due(n)'
      <4>1. reg = att BY <2>2 DEF Processes
      <4> QED BY <1>1, <1>2, <3>1, <3>2, <4>1 DEF Due
    <3> QED BY <3>2, <3>3
  <2> QED BY <1>2, <2>1, <2>2 DEF Clock
<1>7. Calls' BY <1>1, <1>2 DEF Typed, Calls, Foreign
<1> QED BY <1>4, <1>5, <1>6, <1>7

(* What the processes do, and the calls of those that speak.                   *)
LEMMA ProcessSafe ==
  ASSUME IInv, NEW a \in Attempts, Fork(a) \/ RootEnds(a) \/ KidEnds(a)
  PROVE  IInv'
<1> USE DEF IInv, Fork, RootEnds, KidEnds, Alive
<1>1. Typed' BY DEF Typed
<1>2. UNCHANGED <<up, pc, att, cli, reg, strays, pid, tok, file, timer, lost, req, heard>>
  OBVIOUS
<1>3. \A b \in Attempts : /\ root'[b] = "none" <=> root[b] = "none"
                          /\ root[b] = "dead" => root'[b] = "dead"
                          /\ root'[b] \in {"alive", "termed"} => root[b] \in {"alive", "termed"}
                          /\ kid'[b] # "none" => root'[b] # "none"
  BY DEF Typed, Processes
<1>4. Processes'
  <2>1. (pc # "idle" => att \in Attempts) /\ \A l \in lost : l[1] \in Attempts BY DEF Typed
  <2> QED BY <1>2, <1>3, <2>1 DEF Processes, NoUnattendedAgent, Running
<1>5. Clock'
  <2>1. pc = "running" => att \in Attempts BY DEF Typed
  <2> QED BY <1>2, <1>3, <2>1 DEF Clock, Due
<1>6. Calls' BY <1>2, <1>3 DEF Calls, Foreign
<1> QED BY <1>1, <1>4, <1>5, <1>6

LEMMA CallSafe ==
  ASSUME IInv, Act \/ \E a \in Attempts : Ask(a)
  PROVE  IInv'
<1> USE DEF IInv
<1>1. UNCHANGED <<up, pc, att, cli, root, kid, reg, strays, pid, tok, file, timer, lost>>
  BY DEF Act, Ask, proc
<1>2. Typed' BY <1>1 DEF Typed
<1>3. Processes' BY <1>1 DEF Processes, NoUnattendedAgent, Alive, Running
<1>4. Clock' BY <1>1 DEF Clock, Due, Alive
<1>5. Calls'
  <2>1. CASE Act
    <3>1. heard' = req /\ req' = NoCall BY <2>1 DEF Act
    <3>2. Foreign(req)' BY <3>1 DEF Foreign, NoCall
    <3>3. Foreign(heard)' BY <1>1, <3>1 DEF Calls, Foreign
    <3> QED BY <1>1, <3>2, <3>3 DEF Calls
  <2>2. ASSUME NEW a \in Attempts, Ask(a) PROVE Calls'
    <3>1. PICK t \in IF a \in cli THEN {file} \ {None} ELSE {a} : req' = [by |-> a, as |-> t]
      BY <2>2 DEF Ask
    <3>2. t # a => a \in cli /\ t = file BY <3>1
    <3>3. ASSUME t # a, a \notin strays PROVE root[a] = "dead"
      <4>1. ~Alive(a)
        BY <2>2, <3>2, <3>3 DEF Ask, Processes, NoUnattendedAgent, Calls
      <4>2. kid[a] # "none" BY <2>2, <4>1 DEF Ask, Speaks
      <4>3. root[a] # "none" BY <4>2 DEF Processes
      <4> QED BY <4>1, <4>3 DEF Alive, Typed
    <3> QED BY <1>1, <2>2, <3>1, <3>3 DEF Ask, Calls, Foreign
  <2> QED BY <2>1, <2>2
<1> QED BY <1>2, <1>3, <1>4, <1>5

(* The orchestrator's process.                                                 *)
LEMMA GoneSafe == ASSUME IInv, Gone PROVE IInv'
<1> USE DEF IInv, Gone
<1>1. Typed' BY DEF Typed, Clocks
<1>2. Processes' BY DEF Typed, Processes, NoUnattendedAgent, Alive, Running
<1>3. Clock' BY DEF Clock
<1>4. Calls' BY DEF Calls, Foreign, NoCall
<1> QED BY <1>1, <1>2, <1>3, <1>4

LEMMA ShutdownSafe == ASSUME IInv, Shutdown PROVE IInv'
<1> USE DEF IInv, Shutdown, proc
<1>1. Clocks(timer') /\ \A t \in {"timeout", "kill", "files"} : timer'[t] = timer[t]
  BY DEF Typed, Clocks
<1>2. Typed' BY <1>1 DEF Typed
<1>3. Processes' BY DEF Processes, NoUnattendedAgent, Alive, Running
<1>4. Clock' BY <1>1 DEF Clock, Due, Alive
<1>5. Calls' BY DEF Calls, Foreign
<1> QED BY <1>2, <1>3, <1>4, <1>5

LEMMA StartSafe == ASSUME IInv, Start PROVE IInv'
<1> USE DEF IInv, Start
<1>1. Typed' BY DEF Typed
<1>2. pc = "idle" BY DEF Typed
<1>3. \A a \in Attempts : /\ a \notin strays => ~Alive(a)'
                          /\ root[a] = "none" => root'[a] = "none"
                          /\ root[a] # "none" => root'[a] # "none"
                          /\ root[a] = "dead" => root'[a] = "dead"
                          /\ kid'[a] # "none" => kid[a] # "none"
  BY DEF Typed, Processes, Alive
<1>4. Processes'
  <2>1. \A l \in lost : l[1] \in Attempts BY DEF Typed
  <2>2. pid' \notin Attempts OBVIOUS
  <2> QED BY <1>2, <1>3, <2>1, <2>2 DEF Processes, NoUnattendedAgent
<1>5. Clock' BY <1>2 DEF Clock
<1>6. Calls' BY <1>2, <1>3 DEF Calls, Foreign
<1> QED BY <1>1, <1>4, <1>5, <1>6

(* A unit of time: what is due comes closer, and the token with it.            *)
LEMMA ElapseSafe == ASSUME IInv, Elapse PROVE IInv'
<1> USE DEF IInv
<1>1. /\ \A t \in Timers : timer[t] # 0
      /\ \A a \in Attempts : <<a, 0>> \notin lost
      /\ pc = "running" => Alive(att)
      /\ timer' = [t \in Timers |-> IF timer[t] = Off THEN Off ELSE timer[t] - 1]
      /\ lost' = {<<l[1], l[2] - 1>> : l \in lost}
      /\ tok' = [a \in Attempts |-> IF tok[a] = Off THEN Off ELSE tok[a] - 1]
      /\ UNCHANGED <<up, pc, att, cli, root, kid, reg, strays, pid, file, req, heard>>
  BY DEF Elapse
<1>2. Clocks(timer') BY <1>1 DEF Typed, Clocks
<1>3. \A l \in lost : l = <<l[1], l[2]>> /\ l[1] \in Attempts /\ l[2] \in Nat /\ l[2] # 0
  BY <1>1 DEF Typed
<1>4. Typed'
  <2>1. lost' \subseteq Attempts \X Nat BY <1>1, <1>3
  <2>2. tok' \in [Attempts -> Int] BY <1>1 DEF Typed
  <2> QED BY <1>1, <1>2, <2>1, <2>2 DEF Typed
<1>5. Processes'
  <2>1. \A k \in lost' : root[k[1]] # "none" BY <1>1, <1>3 DEF Processes
  <2> QED BY <1>1, <2>1 DEF Processes, NoUnattendedAgent, Alive, Running
<1>6. Clock'
  <2>1. \A t \in Timers : /\ timer[t] \in Int /\ timer[t] >= -1 /\ timer[t] # 0
                          /\ timer'[t] = IF timer[t] = Off THEN Off ELSE timer[t] - 1
    BY <1>1 DEF Typed, Clocks
  <2>2. \A n \in Nat : Due(n) /\ att \in Attempts => n >= 1 /\ Due(n - 1)'
    <3> SUFFICES ASSUME NEW n \in Nat, Due(n), att \in Attempts PROVE n >= 1 /\ Due(n - 1)'
      OBVIOUS
    <3>1. CASE timer["kill"] = n BY <1>1, <2>1, <3>1 DEF Due
    <3>2. CASE <<att, n>> \in lost
      <4>1. n # 0 BY <1>1, <3>2
      <4>2. <<att, n - 1>> \in lost' BY <1>1, <3>2
      <4> QED BY <1>1, <4>1, <4>2 DEF Due
    <3> QED BY <3>1, <3>2 DEF Due
  <2>3. pc \in {"files", "running"} =>
          /\ att \in Attempts /\ tok[att] \in Int /\ tok[att] >= 1 /\ tok'[att] = tok[att] - 1
    <3>1. pc \in {"files", "running"} => att \in Attempts /\ tok[att] \in Int BY DEF Typed
    <3>2. pc = "files" => tok[att] >= 1 BY <2>1, <3>1 DEF Clock
    <3>3. pc = "running" => tok[att] >= 1 BY DEF Clock
    <3> QED BY <1>1, <3>1, <3>2, <3>3
  <2>4. /\ pc # "running" => timer'["timeout"] = Off
        /\ reg = None => timer'["kill"] = Off
    BY <2>1 DEF Clock
  <2>5. pc = "files" =>
          timer'["files"] >= 0 /\ tok'[att] >= Timeout + Slack + Escalation + timer'["files"]
    BY <2>1, <2>3 DEF Clock
  <2>6. pc = "running" /\ timer["timeout"] # Off =>
          /\ tok'[att] >= timer'["timeout"] + Slack + Escalation
          /\ tok'[att] >= 1 /\ timer'["timeout"] # Off
    <3> SUFFICES ASSUME pc = "running", timer["timeout"] # Off
                 PROVE  /\ tok'[att] >= timer'["timeout"] + Slack + Escalation
                        /\ tok'[att] >= 1 /\ timer'["timeout"] # Off
      OBVIOUS
    <3>1. tok[att] >= timer["timeout"] + Slack + Escalation BY DEF Clock
    <3>2. timer["timeout"] \in Int /\ timer["timeout"] >= 1
          /\ timer'["timeout"] = timer["timeout"] - 1
      BY <2>1
    <3>3. tok[att] \in Int /\ tok'[att] = tok[att] - 1 BY <2>3
    <3> HIDE DEF IInv, Attempts
    <3> QED BY <3>1, <3>2, <3>3
  <2>7. pc = "running" /\ timer["timeout"] = Off =>
          /\ \E n \in Nat : Due(n)' /\ tok'[att] >= n + Slack
          /\ tok'[att] >= 1 /\ timer'["timeout"] = Off
    <3> SUFFICES ASSUME pc = "running", timer["timeout"] = Off
                 PROVE  /\ \E n \in Nat : Due(n)' /\ tok'[att] >= n + Slack
                        /\ tok'[att] >= 1
      BY <2>1
    <3>1. PICK n \in Nat : Due(n) /\ tok[att] >= n + Slack BY <1>1 DEF Clock
    <3>2. n - 1 \in Nat /\ Due(n - 1)' BY <2>2, <2>3, <3>1
    <3>3. tok'[att] >= (n - 1) + Slack BY <2>3, <3>1
    <3>4. tok'[att] >= 1 BY <2>3, <3>2, <3>3
    <3> QED BY <3>2, <3>3, <3>4
  <2> QED BY <1>1, <2>4, <2>5, <2>6, <2>7 DEF Clock
<1>7. Calls' BY <1>1 DEF Calls, Foreign
<1> QED BY <1>4, <1>5, <1>6, <1>7

LEMMA Initially == ASSUME Init PROVE IInv
<1>1. Typed BY DEF Init, Typed, Clocks
<1>2. Processes BY DEF Init, Processes, NoUnattendedAgent, Alive
<1>3. Clock BY DEF Init, Clock
<1>4. Calls BY DEF Init, Calls, Foreign, NoCall
<1> QED BY <1>1, <1>2, <1>3, <1>4 DEF IInv

LEMMA Kept == ASSUME IInv, UNCHANGED vars PROVE IInv'
<1> USE DEF IInv, vars, proc
<1>1. Typed' BY DEF Typed
<1>2. Processes' BY DEF Processes, NoUnattendedAgent, Alive, Running
<1>3. Clock' BY DEF Clock, Due, Alive
<1>4. Calls' BY DEF Calls, Foreign
<1> QED BY <1>1, <1>2, <1>3, <1>4

LEMMA Inductive == ASSUME IInv, [Next]_vars PROVE IInv'
<1>1. CASE Begin \/ OfWorker \/ PrepFails \/ SpawnFails \/ SpawnStrays \/ Throw
  BY <1>1, BeginSafe, IssueTokenSafe, SpawnSafe, SpawnStraysSafe, EndsSafe DEF OfWorker
<1>2. CASE TimeOut \/ Cancel \/ Escalate \/ Act
  BY <1>2, SignalSafe, EscalateSafe, CallSafe
<1>3. ASSUME NEW a \in Attempts, Fork(a) \/ RootEnds(a) \/ KidEnds(a) \/ Ask(a) PROVE IInv'
  BY <1>3, ProcessSafe, CallSafe
<1>4. CASE Crash \/ Shutdown \/ Quit \/ KillAll \/ Start
  BY <1>4, GoneSafe, ShutdownSafe, SignalSafe, StartSafe DEF Crash, Quit
<1>5. CASE Elapse BY <1>5, ElapseSafe
<1>6. CASE UNCHANGED vars BY <1>6, Kept
<1> QED BY <1>1, <1>2, <1>3, <1>4, <1>5, <1>6 DEF Next

LEMMA Invariant == Spec => []IInv
<1>1. Init => IInv BY Initially
<1>2. IInv /\ [Next]_vars => IInv' BY Inductive
<1> QED BY <1>1, <1>2, PTL DEF Spec

(* For all times whose order is that of the code's: while an agent may live,   *)
(* its token is good, though the agent resists and is signalled again.         *)
THEOREM TokenOutlivesAgentTheorem == Spec => []TokenOutlivesAgent
<1>1. IInv => TokenOutlivesAgent BY DEF IInv, Clock, TokenOutlivesAgent, Valid
<1> QED BY <1>1, Invariant, PTL

(* For any number of crashes and shutdowns, in the middle of one another too:  *)
(* while the orchestrator is up, a living agent has its worker.                *)
THEOREM NoUnattendedAgentTheorem == Spec => []NoUnattendedAgent
<1>1. IInv => NoUnattendedAgent BY DEF IInv, Processes
<1> QED BY <1>1, Invariant, PTL

(* For any number of attempts and helpers, on either transport: a living agent *)
(* is heard as its own attempt.                                                *)
THEOREM OwnReportsTheorem == Spec => []OwnReports
<1>1. IInv => OwnReports BY DEF IInv, Calls, Foreign, OwnReports, Alive
<1> QED BY <1>1, Invariant, PTL
================================================================================
