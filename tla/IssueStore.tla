------------------------------ MODULE IssueStore ------------------------------
(***************************************************************************)
(* The issues of the tracker (db/tracker-issues.ts, db/tracker-runs.ts),   *)
(* and those who write them: the operator's routes (http/routes/issues.ts, *)
(* comments.ts, helpers.ts), the plan runner that creates gated issues     *)
(* with their blockers, the workers of the dispatched issues.              *)
(*                                                                         *)
(* A route whose handler awaits its body reads the issue before and writes *)
(* it after, with everybody else in between; so does a worker that prepares *)
(* its workspace.  A deleted issue takes its rows with it, but neither its  *)
(* worker nor the requests about it.                                       *)
(***************************************************************************)
EXTENDS Naturals, FiniteSets

CONSTANTS
  Issues,       \* uuids, which are never used again
  Gates,        \* <<i, g>>: node g of a DAG is a gate, node i its successor
  Labelled,     \* issues with a label that names a role
  MaxRequests   \* bound on the requests whose body is awaited

ASSUME GatesAssumption == Gates \subseteq Issues \X Issues /\ \A i \in Issues : <<i, i>> \notin Gates
ASSUME LabelledAssumption == Labelled \subseteq Issues
ASSUME BoundAssumption == MaxRequests \in Nat

\* issues.state, as far as the routes and the candidate query tell them apart.
States == {"todo", "planning", "plan_review", "in_progress", "done"}

Kinds == {"put", "comment", "retrigger"}

Request ==
  [kind : Kinds,
   issue : Issues,
   read : States]       \* issue.state, as the handler read it

VARIABLES
  issue,    \* issues.state, "none" before the row is there and "deleted" after
  role,     \* issues.agent_role is set
  rows,     \* issue_blockers.blocker_state, "none" where there is no row
  run,      \* symphony_runs.last_state, "none" where there is no row
  worker,   \* the worker of the issue and the issue as it read it
  requests, \* requests whose body is awaited
  decided,  \* (history) decisions on the issue since it came to plan_review
  edited    \* (history) issues whose state was last written by updateIssue

vars == <<issue, role, rows, run, worker, requests, decided, edited>>

Exists(i) == issue[i] \notin {"none", "deleted"}
Idle == [pc |-> "idle", read |-> "todo", role |-> FALSE]
------------------------------------------------------------------------------
Init ==
  /\ issue = [i \in Issues |-> "none"]
  /\ role = [i \in Issues |-> FALSE]
  /\ rows = [p \in Gates |-> "none"]
  /\ run = [i \in Issues |-> "none"]
  /\ worker = [i \in Issues |-> Idle]
  /\ requests = {}
  /\ decided = [i \in Issues |-> 0]
  /\ edited = {}

(* The tables. *)

\* The issue comes to plan_review, or not.
Reviewed(i, s) ==
  decided' = IF s = "plan_review" /\ issue[i] # s THEN [decided EXCEPT ![i] = 0] ELSE decided

\* updateIssueState that leaves the copies of the state alone.
UpdateIssueOnly(i, s) ==
  /\ issue' = IF Exists(i) THEN [issue EXCEPT ![i] = s] ELSE issue
  /\ Reviewed(i, s)
  /\ UNCHANGED <<rows, edited>>

\* updateIssueState: the issue, if it is there, and the copies of its state.
UpdateIssueState(i, s) ==
  /\ issue' = IF Exists(i) THEN [issue EXCEPT ![i] = s] ELSE issue
  /\ Reviewed(i, s)
  /\ rows' = [p \in Gates |-> IF p[2] = i /\ rows[p] # "none" THEN s ELSE rows[p]]
  /\ edited' = edited \ {i}

\* The same, by who decides on a plan.
UpdateIssueStateDeciding(i, s) ==
  /\ issue' = [issue EXCEPT ![i] = s]
  /\ decided' = [decided EXCEPT ![i] = @ + 1]
  /\ rows' = [p \in Gates |-> IF p[2] = i /\ rows[p] # "none" THEN s ELSE rows[p]]
  /\ edited' = edited \ {i}

\* updateIssue: every column of the issue, and of no other table.
UpdateIssue(i, s, r) ==
  /\ issue' = IF Exists(i) THEN [issue EXCEPT ![i] = s] ELSE issue
  /\ role' = [role EXCEPT ![i] = r /\ Exists(i)]
  /\ Reviewed(i, s)
  /\ edited' = IF Exists(i) /\ issue[i] # s THEN edited \cup {i} ELSE edited
  /\ UNCHANGED rows

\* releaseIssue, scheduleRetry: an UPDATE, of a row that may be gone.
ReleaseIssue(i, st) == run' = IF run[i] = "none" THEN run ELSE [run EXCEPT ![i] = st]

ReleaseForReschedule(i) == ReleaseIssue(i, "released")
------------------------------------------------------------------------------
(* Creation. *)

\* The plan runner creates a node of its DAG, and for each gate before it a
\* blocker with the state the gate has now, or "todo" where it is gone.
CreateNode(i) ==
  /\ issue[i] = "none"
  /\ \A g \in Issues : <<i, g>> \in Gates => issue[g] # "none"
  /\ issue' = [issue EXCEPT ![i] = IF \E j \in Issues : <<j, i>> \in Gates
                                 THEN "plan_review" ELSE "todo"]
  /\ rows' = [p \in Gates |->
               IF p[1] # i THEN rows[p] ELSE IF Exists(p[2]) THEN issue[p[2]] ELSE "todo"]
  /\ UNCHANGED <<role, run, worker, requests, decided, edited>>

\* POST /issues.
CreateIssue(i) ==
  /\ issue[i] = "none"
  /\ \E s \in States : issue' = [issue EXCEPT ![i] = s]
  /\ UNCHANGED <<role, rows, run, worker, requests, decided, edited>>

\* DELETE /issues/:uuid: one transaction over all its rows, on both sides of
\* issue_blockers.  Its agent is not told.
Delete(i) ==
  /\ Exists(i)
  /\ issue' = [issue EXCEPT ![i] = "deleted"]
  /\ role' = [role EXCEPT ![i] = FALSE]
  /\ rows' = [p \in Gates |-> IF i \in {p[1], p[2]} THEN "none" ELSE rows[p]]
  /\ run' = [run EXCEPT ![i] = "none"]
  /\ UNCHANGED <<worker, requests, decided, edited>>

\* DELETE /issues/:uuid/blockers/:blockerUuid.
RemoveBlocker(p) ==
  /\ Exists(p[1])
  /\ rows[p] # "none"
  /\ rows' = [rows EXCEPT ![p] = "none"]
  /\ UNCHANGED <<issue, role, run, worker, requests, decided, edited>>
------------------------------------------------------------------------------
(* The worker of an issue. *)

\* The candidate query goes by the copies; a worker is started with the claim and
\* reads the issue before its first await.
Claim(i) ==
  /\ issue[i] \in States \ {"done", "plan_review"}
  /\ \A p \in Gates : p[1] = i => rows[p] \in {"none", "done"}
  /\ run[i] \in {"none", "released", "retry_queued"}
  /\ worker[i].pc = "idle"
  /\ run' = [run EXCEPT ![i] = "claimed"]
  /\ worker' = [worker EXCEPT ![i] = [pc |-> "prep", read |-> issue[i], role |-> role[i]]]
  /\ UNCHANGED <<issue, role, rows, requests, decided, edited>>

\* The workspace is ready: the role that a label names is written down with the
\* state that the worker read, and the agent is started.
Prepared(i) ==
  /\ worker[i].pc = "prep"
  /\ worker' = [worker EXCEPT ![i] = [Idle EXCEPT !.pc = "agent"]]
  /\ IF ~worker[i].role /\ i \in Labelled
     THEN UpdateIssue(i, worker[i].read, TRUE)
     ELSE UNCHANGED <<issue, role, rows, decided, edited>>
  /\ UNCHANGED <<run, requests>>

\* The agent has ended: the issue moves on, or back into the queue.
Ended(i) ==
  /\ worker[i].pc = "agent"
  /\ worker' = [worker EXCEPT ![i] = Idle]
  /\ \/ \E s \in {"in_progress", "done"} : UpdateIssueState(i, s) /\ ReleaseIssue(i, "released")
     \/ /\ ReleaseIssue(i, "retry_queued")
        /\ UNCHANGED <<issue, rows, decided, edited>>
  /\ UNCHANGED <<role, requests>>
------------------------------------------------------------------------------
(* The routes of the operator. *)

\* The plan of an issue that was in review when the handler read it is approved.
ApproveAsRead(i, read) ==
  /\ read = "plan_review" /\ Exists(i)
  /\ UpdateIssueStateDeciding(i, "in_progress")
  /\ ReleaseForReschedule(i)

\* approvePlan, which reads the issue itself.
ApprovePlan(i, read) ==
  /\ issue[i] = "plan_review"
  /\ UpdateIssueStateDeciding(i, "in_progress")
  /\ ReleaseForReschedule(i)

\* revisePlan, likewise.
RevisePlan(i) ==
  /\ issue[i] = "plan_review"
  /\ UpdateIssueStateDeciding(i, "planning")
  /\ ReleaseForReschedule(i)

\* POST approve-plan and revise-plan.
Decide(i) ==
  /\ ApprovePlan(i, issue[i]) \/ RevisePlan(i)
  /\ UNCHANGED <<role, worker, requests>>

\* POST approve and request-changes, whatever the issue's state.
Review(i) ==
  /\ Exists(i)
  /\ \E s \in {"done", "todo"} : UpdateIssueState(i, s)
  /\ UNCHANGED <<role, run, worker, requests>>

\* A handler reads the issue and awaits the body.
Begin(i) ==
  /\ Exists(i)
  /\ Cardinality(requests) < MaxRequests
  /\ \E k \in Kinds : requests' = requests \cup {[kind |-> k, issue |-> i, read |-> issue[i]]}
  /\ UNCHANGED <<issue, role, rows, run, worker, decided, edited>>

Answered(r) == r \in requests /\ requests' = requests \ {r}

\* PUT: the columns that the body leaves out become null, but for the title and
\* the state, which are written as they were read.
Put(r) ==
  /\ r.kind = "put"
  /\ Answered(r)
  /\ \E s \in States, named \in BOOLEAN :
       UpdateIssue(r.issue, IF named THEN s ELSE r.read, FALSE)
  /\ UNCHANGED <<run, worker>>

\* "/approve": the plan if the issue was in review, else the run is released.
CommentApprove(r) ==
  \/ /\ r.read = "plan_review"
     /\ ApprovePlan(r.issue, r.read)
  \/ /\ r.read = "plan_review" /\ issue[r.issue] # "plan_review"
     /\ UNCHANGED <<issue, rows, run, decided, edited>>
  \/ /\ r.read # "plan_review"
     /\ ReleaseForReschedule(r.issue)
     /\ UNCHANGED <<issue, rows, decided, edited>>

\* "/revise" with a note, and "/skip-plan", which goes by what was read.
CommentRevise(r) == r.read = "plan_review" /\ RevisePlan(r.issue)

CommentSkip(r) ==
  /\ r.read = "todo"
  /\ UpdateIssueState(r.issue, "in_progress")
  /\ ReleaseForReschedule(r.issue)

Comment(r) ==
  /\ r.kind = "comment"
  /\ Answered(r)
  /\ CommentApprove(r) \/ CommentRevise(r) \/ CommentSkip(r)
  /\ UNCHANGED <<role, worker>>

\* POST retrigger: the state is left alone if it was the target when it was read.
Retrigger(r) ==
  /\ r.kind = "retrigger"
  /\ Answered(r)
  /\ \E s \in {"todo", "in_progress"} :
       IF r.read # s THEN UpdateIssueState(r.issue, s) ELSE UNCHANGED <<issue, rows, decided, edited>>
  /\ ReleaseForReschedule(r.issue)
  /\ UNCHANGED <<role, worker>>

Next ==
  \/ \E i \in Issues :
       \/ CreateNode(i) \/ CreateIssue(i) \/ Delete(i)
       \/ Claim(i) \/ Prepared(i) \/ Ended(i)
       \/ Decide(i) \/ Review(i) \/ Begin(i)
  \/ \E p \in Gates : RemoveBlocker(p)
  \/ \E r \in requests : Put(r) \/ Comment(r) \/ Retrigger(r)

Spec == Init /\ [][Next]_vars
------------------------------------------------------------------------------
TypeOK ==
  /\ issue \in [Issues -> States \cup {"none", "deleted"}]
  /\ role \in [Issues -> BOOLEAN]
  /\ rows \in [Gates -> States \cup {"none"}]
  /\ run \in [Issues -> {"none", "released", "retry_queued", "claimed"}]
  /\ worker \in [Issues -> [pc : {"idle", "prep", "agent"}, read : States, role : BOOLEAN]]
  /\ requests \subseteq Request
  /\ decided \in [Issues -> Nat]
  /\ edited \subseteq Issues

\* The copy that the candidate query trusts is the state of the blocker, whoever
\* moved it and in whatever order, until an edit of the whole row (PUT, or the
\* assignment of a role) moves the state without it (tracker-issues.ts:341).
CopiesRight ==
  \A p \in Gates : rows[p] # "none" /\ Exists(p[2]) /\ p[2] \notin edited => rows[p] = issue[p[2]]

\* Of the approvals and revisions of one plan, from the panel and from comments at
\* the same time, one takes effect (helpers.ts:14, 34).
DecidedOnce == \A i \in Issues : decided[i] <= 1

==============================================================================
