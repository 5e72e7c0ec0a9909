------------------------------ MODULE PlanRunner ------------------------------
(***************************************************************************)
(* The runner of an approved plan (plan-runtime/runner.ts, journal.ts, as  *)
(* executePlan calls it): a script whose issue() calls each create a       *)
(* sub-issue and poll it, retry it when it is cancelled, and journal its   *)
(* end; a crash, after which the script runs again from the start and      *)
(* takes from the journal what it finds there.                             *)
(*                                                                         *)
(* A script is the set of its calls and the order among them: a call waits *)
(* for the calls before it (an await, a layer of dag(), a stage of         *)
(* pipeline()), and what it waits for must have returned, or have failed   *)
(* where the script catches that.  The runner shares the event loop: what  *)
(* it does between two awaits is one action.                               *)
(***************************************************************************)
EXTENDS Integers, FiniteSets

CONSTANTS
  Calls,      \* issue() calls
  Phases,     \* titles that scripts give to phase()
  Scripts,    \* the scripts of the instance
  MaxRetries, \* meta.max_retries
  MaxSubs,    \* bound on the sub-issues of a call
  MaxFaults,  \* bound on cancellations, deletions, re-openings and delays
  MaxCrashes, \* bound on crashes
  NoKey, None

\* An explicit key, or the phase and the index of the call in it.
Keys == Calls \cup (Phases \X (1..Cardinality(Calls)))

Script ==
  [after : [Calls -> SUBSET Calls],       \* what a call waits for
   key : [Calls -> Calls \cup {NoKey}],   \* opts.key; the node's id in dag()
   phase : [Calls -> Phases],             \* the phase it is called in
   gate : SUBSET Calls,                   \* opts.gate
   caught : SUBSET Calls,                 \* failures the script catches
   limit : Nat]                           \* meta.max_issues

\* All that call c waits for, directly or not: what every set closed under `after'
\* has that holds what c waits for directly.
Before(s, c) ==
  {b \in Calls : \A S \in SUBSET Calls :
     s.after[c] \subseteq S /\ (\A x \in S : s.after[x] \subseteq S) => b \in S}

\* The keys of script s name its calls in every life of the process: explicit keys
\* are distinct, and a call without one is made at the same place among the calls
\* of its phase, whatever else happens (an earlier one that the script catches
\* might have been refused).  sdk.ts:20-24 promises as much of every script,
\* runner.ts:91-97 keeps it of these.
StableKeys(s) ==
  \A b, c \in Calls :
    /\ c \notin Before(s, c)
    /\ b # c /\ s.key[b] = s.key[c] => s.key[c] = NoKey
    /\ b # c /\ s.phase[b] = s.phase[c] /\ s.key[c] = NoKey =>
         (b \in Before(s, c) /\ b \notin s.caught) \/ c \in Before(s, b)

ASSUME ScriptsAssumption == Scripts \subseteq Script
ASSUME CallsAssumption == IsFiniteSet(Calls) /\ Calls \cap (Phases \X Nat) = {}
ASSUME KeysAssumption == NoKey \notin Calls /\ None \notin Calls \cup (Phases \X Nat)
ASSUME BoundsAssumption ==
  /\ MaxRetries \in Nat /\ MaxSubs \in Nat /\ MaxFaults \in Nat /\ MaxCrashes \in Nat

SubStates == {"none", "plan_review", "open", "done", "cancelled", "deleted"}
Entry == [st : {"none", "done", "cancelled"}, result : Calls \cup {None}]
NoEntry == [st |-> "none", result |-> None]

VARIABLES
  script,  \* plan_runs.script
  plan,    \* plan_runs.state
  job,     \* runPlan: pending, or ended with its branches left behind, or gone
  late,    \* whether its wall time has passed
  subs,    \* the sub-issues of each call, in the order of their creation
  journal, \* the last issue_done of each key
  nodes,   \* plan_run_nodes.state
  done,    \* completedResults: the journal as it was when runPlan began
  count,   \* issueCount
  index,   \* phaseCallIndex
  call,    \* where each call is: its key, its sub-issue, its retries, its result
  faults, crashes

vars == <<script, plan, job, late, subs, journal, nodes, done, count, index, call, faults, crashes>>

\* dag(): what is reached after so many layers, and what a node waits for then, all
\* of the layers before its own.
Layered(ids, edges) ==
  LET R[k \in 0..Cardinality(ids)] ==
        IF k = 0 THEN {} ELSE {n \in ids : \A m \in ids : <<m, n>> \in edges => m \in R[k - 1]}
  IN {R[k] : k \in 0..Cardinality(ids)}

DagAfter(ids, edges) ==
  [n \in ids |-> UNION {before \in Layered(ids, edges) : n \notin before}]

Idle == [st |-> "idle", key |-> None, n |-> 0, tries |-> 0, result |-> None]

\* The number of sub-issues made for call c.
Made(c) == Cardinality({n \in 1..MaxSubs : subs[c][n] # "none"})

Settled(c) == call[c].st = "returned" \/ (call[c].st = "failed" /\ c \in script.caught)
------------------------------------------------------------------------------
Init ==
  /\ script \in Scripts
  /\ plan = "running"
  /\ job = "pending"
  /\ late = FALSE
  /\ subs = [c \in Calls |-> [n \in 1..MaxSubs |-> "none"]]
  /\ journal = [k \in Keys |-> NoEntry]
  /\ nodes = [k \in Keys |-> "none"]
  /\ done = journal
  /\ count = 0
  /\ index = [p \in Phases |-> 0]
  /\ call = [c \in Calls |-> Idle]
  /\ faults = 0
  /\ crashes = 0

Fault == faults < MaxFaults /\ faults' = faults + 1

\* appendJournalEntry of an issue_done; what a later run reads is the last of a key.
Journalled(k, st, result) == journal' = [journal EXCEPT ![k] = [st |-> st, result |-> result]]

\* upsertPlanRunNode: one row for each key.
NodeIs(k, st) == nodes' = [nodes EXCEPT ![k] = st]

\* A call throws.  Unless the script catches it, runPlan returns and the
\* executor finishes the plan run, whatever its state has become; the branches
\* that Promise.all leaves behind go on.
Throws(c) ==
  /\ call' = [call EXCEPT ![c].st = "failed"]
  /\ IF c \in script.caught \/ job # "pending"
     THEN UNCHANGED <<plan, job>>
     ELSE plan' = "failed" /\ job' = "ended"

\* The key by the phase alone.
KeyOfPhase(c) == IF script.key[c] # NoKey THEN script.key[c] ELSE <<script.phase[c], 1>>

\* The key of a call that is made now.
KeyOf(c) ==
  IF script.key[c] # NoKey THEN script.key[c]
  ELSE <<script.phase[c], index[script.phase[c]] + 1>>

\* A sub-issue is inserted, its node is running, its issue_start journalled.  A retry
\* made after the wall time throws at its first look at the clock, which changes
\* nothing for a plan run that has ended by then.
Create(c, k, tries) ==
  LET n == Made(c) + 1 IN
  /\ n <= MaxSubs
  /\ subs' = [subs EXCEPT ![c][n] = IF c \in script.gate THEN "plan_review" ELSE "open"]
  /\ NodeIs(k, "running")
  /\ call' = [call EXCEPT ![c] = [st |-> IF late THEN "failed" ELSE "polling", key |-> k,
                                  n |-> n, tries |-> tries, result |-> None]]

\* The branch of the script reaches the call.
Reached(c) ==
  /\ job # "gone"
  /\ call[c].st = "idle"
  /\ \A b \in script.after[c] : Settled(b)

\* runIssue refuses: the wall time has passed, or max_issues is reached.
Refuse(c) ==
  /\ Reached(c)
  /\ late \/ count >= script.limit
  /\ Throws(c)
  /\ UNCHANGED <<script, late, subs, journal, nodes, done, count, index, faults, crashes>>

\* A call that does not look at the journal.
IssueAlways(c) ==
  /\ Reached(c)
  /\ ~late /\ count < script.limit
  /\ count' = count + 1
  /\ index' = [index EXCEPT ![script.phase[c]] = @ + 1]
  /\ Create(c, KeyOf(c), 0)
  /\ UNCHANGED <<script, plan, job, late, journal, done, faults, crashes>>

\* runIssue up to its first await: a call that was journalled as ended before the
\* restart returns what the journal has, cancelled or not; else it makes its issue.
Issue(c) ==
  /\ Reached(c)
  /\ ~late /\ count < script.limit
  /\ count' = count + 1
  /\ index' = [index EXCEPT ![script.phase[c]] = @ + 1]
  /\ LET k == KeyOf(c) IN
     IF done[k].st # "none"
     THEN /\ call' = [call EXCEPT ![c] = [st |-> "returned", key |-> k, n |-> 0, tries |-> 0,
                                          result |-> done[k].result]]
          /\ UNCHANGED <<subs, nodes>>
     ELSE Create(c, k, 0)
  /\ UNCHANGED <<script, plan, job, late, journal, done, faults, crashes>>
------------------------------------------------------------------------------
(* The polls.  A sub-issue that is neither done nor cancelled is polled again. *)

\* A timer fires when the script has nothing left to do: what waited for a promise
\* goes on in the microtasks, before any timer.
Quiet == \A c \in Calls : ~Reached(c)

\* The wall time is looked at before the await: what the poll under way finds when
\* it passes is acted upon all the same.
Polls(c) == job # "gone" /\ call[c].st = "polling" /\ Quiet

\* The poll finds the sub-issue done.
PollDone(c) ==
  /\ Polls(c)
  /\ subs[c][call[c].n] = "done"
  /\ NodeIs(call[c].key, "done")
  /\ Journalled(call[c].key, "done", c)
  /\ call' = [call EXCEPT ![c].st = "returned", ![c].result = c]
  /\ UNCHANGED <<script, plan, job, late, subs, done, count, index, faults, crashes>>

\* It finds it cancelled, with the plan run still alive and retries left: another
\* issue is made in the same breath, and issueCount goes down by one.
PollRetry(c) ==
  /\ Polls(c)
  /\ subs[c][call[c].n] = "cancelled"
  /\ plan # "cancelled"
  /\ call[c].tries < MaxRetries
  /\ Journalled(call[c].key, "cancelled", None)
  /\ count' = count - 1
  /\ Create(c, call[c].key, call[c].tries + 1)
  /\ UNCHANGED <<script, plan, job, late, done, index, faults, crashes>>

\* It finds it cancelled with the plan run, or for the last time.
PollCancelled(c) ==
  /\ Polls(c)
  /\ subs[c][call[c].n] = "cancelled"
  /\ plan = "cancelled" \/ call[c].tries >= MaxRetries
  /\ Journalled(call[c].key, "cancelled", None)
  /\ NodeIs(call[c].key, IF plan = "cancelled" THEN "cancelled" ELSE "failed")
  /\ Throws(c)
  /\ UNCHANGED <<script, late, subs, done, count, index, faults, crashes>>

\* It finds it deleted, or seven days have passed.
PollLost(c) ==
  /\ Polls(c)
  /\ \/ subs[c][call[c].n] = "deleted" /\ UNCHANGED faults
     \/ subs[c][call[c].n] # "deleted" /\ ~late /\ Fault
  /\ NodeIs(call[c].key, "failed")
  /\ Throws(c)
  /\ UNCHANGED <<script, late, subs, journal, done, count, index, crashes>>

\* A poll that leaves the wall time to the timer of Promise.race.
PollLateOfPending(c) ==
  /\ Polls(c)
  /\ job = "pending" /\ late
  /\ subs[c][call[c].n] \notin {"done", "cancelled", "deleted"}
  /\ Throws(c)
  /\ UNCHANGED <<script, late, subs, journal, nodes, done, count, index, faults, crashes>>

\* It finds the sub-issue under way and the wall time passed: the node is left as
\* it is.
PollLate(c) ==
  /\ Polls(c)
  /\ late
  /\ subs[c][call[c].n] \notin {"done", "cancelled", "deleted"}
  /\ Throws(c)
  /\ UNCHANGED <<script, late, subs, journal, nodes, done, count, index, faults, crashes>>

Poll(c) == PollDone(c) \/ PollRetry(c) \/ PollCancelled(c) \/ PollLost(c) \/ PollLate(c)

\* The script has run to its end.
Succeed ==
  /\ job = "pending"
  /\ \A c \in Calls : Settled(c)
  /\ plan' = "done"
  /\ job' = "ended"
  /\ UNCHANGED <<script, late, subs, journal, nodes, done, count, index, call, faults, crashes>>

\* The wall time passes: the timer of Promise.race fires if runPlan is pending,
\* and checkWallTime throws from now on, in the branches left behind too.
WallTime ==
  /\ job # "gone"
  /\ ~late /\ Quiet
  /\ late' = TRUE
  /\ IF job = "pending" THEN plan' = "failed" /\ job' = "ended" ELSE UNCHANGED <<plan, job>>
  /\ UNCHANGED <<script, subs, journal, nodes, done, count, index, call, faults, crashes>>
------------------------------------------------------------------------------
(* What becomes of the sub-issues, of the plan run and of the process. *)

SubEnds(c, n) ==
  /\ subs[c][n] = "open"
  /\ subs' = [subs EXCEPT ![c][n] = "done"]
  /\ UNCHANGED <<script, plan, job, late, journal, nodes, done, count, index, call, faults, crashes>>

\* approve-plan, or an "/approve" comment.
GateOpens(c, n) ==
  /\ subs[c][n] = "plan_review"
  /\ subs' = [subs EXCEPT ![c][n] = "open"]
  /\ UNCHANGED <<script, plan, job, late, journal, nodes, done, count, index, call, faults, crashes>>

\* The agent gives up, an operator deletes the issue, or opens it again.
SubMishap(c, n) ==
  /\ subs[c][n] # "none"
  /\ Fault
  /\ \E st \in {"cancelled", "deleted", "open"} :
       /\ st = "cancelled" => subs[c][n] = "open"
       /\ st = "open" => subs[c][n] \in {"done", "cancelled"}
       /\ subs' = [subs EXCEPT ![c][n] = st]
  /\ UNCHANGED <<script, plan, job, late, journal, nodes, done, count, index, call, crashes>>

\* DELETE /plan-runs/:id, and tickExpiredPlans, which ends a run the same way.
CancelPlan ==
  /\ plan = "running"
  /\ Fault
  /\ plan' = "cancelled"
  /\ subs' = [c \in Calls |-> [n \in 1..MaxSubs |->
                IF subs[c][n] \in {"plan_review", "open"} THEN "cancelled" ELSE subs[c][n]]]
  /\ UNCHANGED <<script, job, late, journal, nodes, done, count, index, call, crashes>>

\* The process dies at an await; resumeRunningPlans runs the script again if the
\* plan run is running, with the journal of before and everything else anew.
CrashRestart ==
  /\ crashes < MaxCrashes
  /\ crashes' = crashes + 1
  /\ job' = IF plan = "running" THEN "pending" ELSE "gone"
  /\ late' = FALSE
  /\ done' = journal
  /\ count' = 0
  /\ index' = [p \in Phases |-> 0]
  /\ call' = [c \in Calls |-> Idle]
  /\ UNCHANGED <<script, plan, subs, journal, nodes, faults>>

Next ==
  \/ \E c \in Calls : Refuse(c) \/ Issue(c) \/ Poll(c)
  \/ Succeed \/ WallTime \/ CancelPlan \/ CrashRestart
  \/ \E c \in Calls, n \in 1..MaxSubs : SubEnds(c, n) \/ GateOpens(c, n) \/ SubMishap(c, n)

Spec == Init /\ [][Next]_vars

\* Timers fire: the poll's of every call, and the wall time's of runPlan.  No
\* agent and no operator has to do anything.
Fairness ==
  /\ WF_vars(WallTime)
  /\ \A c \in Calls : WF_vars(Refuse(c) \/ Issue(c)) /\ WF_vars(Poll(c))

FairSpec == Spec /\ Fairness
------------------------------------------------------------------------------
TypeOK ==
  /\ script \in Scripts
  /\ plan \in {"running", "done", "failed", "cancelled"}
  /\ job \in {"pending", "ended", "gone"}
  /\ late \in BOOLEAN
  /\ subs \in [Calls -> [1..MaxSubs -> SubStates]]
  /\ journal \in [Keys -> Entry]
  /\ done \in [Keys -> Entry]
  /\ nodes \in [Keys -> {"none", "running", "done", "cancelled", "failed"}]
  /\ count \in Int
  /\ index \in [Phases -> Nat]
  /\ call \in [Calls -> [st : {"idle", "polling", "returned", "failed"}, key : Keys \cup {None},
                         n : 0..MaxSubs, tries : Nat, result : Calls \cup {None}]]
  /\ faults \in 0..MaxFaults
  /\ crashes \in 0..MaxCrashes

\* After any number of crashes and retries a call returns the result of a
\* sub-issue of its own; nothing, only where the journal it began with had a
\* cancelled issue for it (runner.ts:92-109, "Stable resume identity").
OwnResult ==
  \A c \in Calls : call[c].st = "returned" =>
    call[c].result = c \/ (call[c].result = None /\ done[call[c].key].st = "cancelled")

\* Work that was journalled as done is not done again, by no later crash either
\* (journal.ts:4, "skip already-completed issues").
NoRedo ==
  [][\A c \in Calls : Made(c)' > Made(c) => journal[call'[c].key].st # "done"]_vars

\* No branch polls for ever, of a plan that failed without it neither: the wall
\* time reaches it (runner.ts:156-158).
PollsEnd == \A c \in Calls : call[c].st = "polling" ~> call[c].st # "polling"

==============================================================================
