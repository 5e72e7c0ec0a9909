-------------------------- MODULE AttemptLoop_proofs --------------------------
(***************************************************************************)
(* Theorems of AttemptLoop, for any causes, budgets, thresholds and        *)
(* retries: first what each stage of the verdict passes on, then that      *)
(* every step of the loop keeps what the two safety properties rest on.    *)
(***************************************************************************)
EXTENDS AttemptLoop, TLAPS

Said == [sem : Semantics \cup {""}, cause : Causes \cup {NoCause}]
Log == [said : Said, fails : Nat, emitted : {"none", "valid", "invalid"}, planned : BOOLEAN]
Row == [state : IssueStates, cause : AllCauses, plan : BOOLEAN, require : BOOLEAN]
RunRow == [st : RunStates, next : Nat, lis : IssueStates \cup {""}]
Worker == [on : BOOLEAN, attempt : Nat, snap : IssueStates]
Last == [out : {"none", "success", "other"}, code : {"zero", "nonzero", "absent"},
         reported : BOOLEAN]

LEMMA Typed ==
  TypeOK <=> /\ issue \in Row /\ run \in RunRow /\ worker \in Worker /\ log \in Log
             /\ spent \in Nat /\ last \in Last
             /\ calls \in 0..MaxCalls /\ ops \in 0..MaxOps
  BY DEF TypeOK, Row, RunRow, Worker, Log, Said, Last

LEMMA TypedNext ==
  TypeOK' <=> /\ issue' \in Row /\ run' \in RunRow /\ worker' \in Worker /\ log' \in Log
              /\ spent' \in Nat /\ last' \in Last
              /\ calls' \in 0..MaxCalls /\ ops' \in 0..MaxOps
  BY DEF TypeOK, Row, RunRow, Worker, Log, Said, Last
------------------------------------------------------------------------------
(* The stages of the verdict. *)

LEMMA EvidenceFields ==
  ASSUME NEW e \in Evidence
  PROVE  /\ e.spawned \in BOOLEAN /\ e.timedOut \in BOOLEAN
         /\ e.code \in {"zero", "nonzero", "absent"} /\ e.status \in Statuses
         /\ e.reason \in Causes \cup {NoCause} /\ e.tokens \in 0..1
         /\ e.code = "absent" <=> ~e.spawned
         /\ ~e.spawned => e.tokens = 0
  BY DEF Evidence

\* A failing exit is never taken for success.
LEMMA Derived ==
  ASSUME NEW e \in Evidence
  PROVE  /\ Derive(e) \in Verdicts
         /\ e.code = "nonzero" => Derive(e).sem # "success"
<1>1. Ending(e) \in {"killed", "mismatch", "missing", "success", "needs_retry", "abandoned",
                     "timeout"}
  BY EvidenceFields DEF Ending, Statuses
<1>2. e.code = "nonzero" => Ending(e) # "success"
  BY DEF Ending
<1>3. DerivedSemantics[Ending(e)] \in Semantics
      /\ (DerivedSemantics[Ending(e)] = "success" => Ending(e) = "success")
  BY <1>1 DEF DerivedSemantics, Semantics
<1>4. DerivedCause(e) \in Causes \cup OwnCauses \cup {NoCause}
  BY <1>1, EvidenceFields DEF DerivedCause, OwnCauses
<1> QED
  BY <1>2, <1>3, <1>4 DEF Derive, Verdicts

\* Nor does a report of success make one of it.
LEMMA Overridden ==
  ASSUME NEW v \in Verdicts, NEW e \in Evidence, NEW said \in Said,
         e.code = "nonzero" => v.sem # "success"
  PROVE  /\ Override(v, e, said) \in Verdicts
         /\ said.sem # "" /\ e.code = "nonzero" => Override(v, e, said).sem # "success"
<1>1. CASE said.sem = "" \/ (said.sem = "success" /\ e.code = "nonzero")
  BY <1>1 DEF Override
<1>2. CASE ~(said.sem = "" \/ (said.sem = "success" /\ e.code = "nonzero"))
  <2>1. Override(v, e, said) =
          [v EXCEPT !.sem = said.sem, !.cause = IF said.cause = NoCause THEN @ ELSE said.cause]
    BY <1>2 DEF Override
  <2>2. said.sem \in Semantics /\ said.cause \in Causes \cup {NoCause}
    BY <1>2 DEF Said
  <2> QED
    BY <1>2, <2>1, <2>2 DEF Verdicts
<1> QED
  BY <1>1, <1>2

LEMMA FellBack ==
  ASSUME NEW v \in Verdicts, NEW said \in Said, NEW emitted
  PROVE  /\ Fallback(v, said, emitted) \in Verdicts
         /\ said.sem # "" => Fallback(v, said, emitted) = v
  BY DEF Fallback, Verdicts, Semantics

LEMMA Transitions ==
  ASSUME NEW sem \in Semantics
  PROVE  /\ Transition[sem] \in {"done", "in_review", "cancelled", ""}
         /\ Transition[sem] = "done" <=> sem = "success"
         /\ sem = "handoff" => Transition[sem] = "in_review"
<1>1. /\ Transition["success"] = "done" /\ Transition["handoff"] = "in_review"
      /\ Transition["abandoned"] = "cancelled" /\ Transition["needs_retry"] = ""
  BY DEF Transition
<1> QED
  BY <1>1 DEF Semantics

LEMMA Aimed ==
  ASSUME NEW v \in Verdicts
  PROVE  /\ Aim(v) \in Verdicts
         /\ Aim(v).sem = v.sem
         /\ Aim(v).target = Transition[v.sem]
<1>0. v.sem \in Semantics
  BY DEF Verdicts
<1>1. Transition[v.sem] \in {"done", "in_review", "cancelled", ""}
  BY <1>0, Transitions
<1> QED
  BY <1>1 DEF Aim, Verdicts

\* Where a verdict may lead: to done by success only, to a wait for a plan only an
\* issue that waits already.
Aims(v, state) ==
  /\ v.target = "done" <=> v.sem = "success"
  /\ v.sem = "handoff" => v.target \in {"in_review", "awaiting_plan"}
  /\ v.target = "awaiting_plan" => state = "awaiting_plan"

LEMMA HandoffGuarded ==
  ASSUME NEW v \in Verdicts, NEW state, NEW plan, Aims(v, state)
  PROVE  /\ HandoffGuard(v, state, plan) \in Verdicts
         /\ Aims(HandoffGuard(v, state, plan), state)
         /\ HandoffGuard(v, state, plan).sem = "success" => v.sem = "success"
         /\ state = "awaiting_plan" /\ plan => HandoffGuard(v, state, plan).sem # "needs_retry"
  BY DEF HandoffGuard, Verdicts, Semantics, Aims

LEMMA PlanGuarded ==
  ASSUME NEW v \in Verdicts, NEW state, NEW require, NEW planned, Aims(v, state)
  PROVE  /\ PlanGuard(v, require, planned) \in Verdicts
         /\ Aims(PlanGuard(v, require, planned), state)
         /\ PlanGuard(v, require, planned).sem = "success" =>
              v.sem = "success" /\ (require => planned)
         /\ planned => PlanGuard(v, require, planned) = v
  BY DEF PlanGuard, Verdicts, Semantics, OwnCauses, Aims

LEMMA BudgetGuarded ==
  ASSUME NEW v \in Verdicts, NEW e \in Evidence, NEW sp \in Nat, NEW state, Aims(v, state)
  PROVE  /\ BudgetGuard(v, e, sp) \in Verdicts
         /\ Aims(BudgetGuard(v, e, sp), state)
         /\ BudgetGuard(v, e, sp).sem # "abandoned" =>
              BudgetGuard(v, e, sp) = v /\ (e.spawned => sp + e.tokens <= Budget)
<1>1. Budget \in Nat /\ e.tokens \in 0..1
  BY LoopAssumption, EvidenceFields
<1>2. CASE e.spawned /\ sp + e.tokens > Budget
  BY <1>2 DEF BudgetGuard, Verdicts, Semantics, OwnCauses, Aims
<1>3. CASE ~(e.spawned /\ sp + e.tokens > Budget)
  BY <1>1, <1>3 DEF BudgetGuard
<1> QED
  BY <1>2, <1>3

\* What the verdict of an attempt guarantees to the transaction that acts on it.
LEMMA VerdictSound ==
  ASSUME NEW e \in Evidence, NEW row \in Row, NEW lg \in Log, NEW sp \in Nat
  PROVE  LET v == Verdict(e, row, lg, sp) IN
         /\ v \in Verdicts /\ Aims(v, row.state)
         /\ v.sem = "success" =>
              /\ lg.said.sem # "" => e.code # "nonzero"
              /\ row.require => lg.planned
         /\ v.sem = "needs_retry" =>
              /\ e.spawned => sp + e.tokens <= Budget
              /\ row.state = "awaiting_plan" /\ row.plan => ~lg.planned
<1> DEFINE d == Derive(e)
           o == Override(d, e, lg.said)
           f == Fallback(o, lg.said, lg.emitted)
           a == Aim(f)
           h == HandoffGuard(a, row.state, row.plan)
           p == PlanGuard(h, row.require, lg.planned)
           v == BudgetGuard(p, e, sp)
<1>0. lg.said \in Said /\ lg.planned \in BOOLEAN /\ row.require \in BOOLEAN
  BY DEF Log, Row
<1>1. d \in Verdicts /\ (e.code = "nonzero" => d.sem # "success")
  BY Derived
<1>2. o \in Verdicts /\ (lg.said.sem # "" /\ e.code = "nonzero" => o.sem # "success")
  BY <1>0, <1>1, Overridden
<1>3. f \in Verdicts /\ (lg.said.sem # "" /\ e.code = "nonzero" => f.sem # "success")
  BY <1>0, <1>2, FellBack
<1>4. a \in Verdicts /\ a.sem = f.sem /\ Aims(a, row.state)
  <2>1. a \in Verdicts /\ a.sem = f.sem /\ a.target = Transition[f.sem]
    BY <1>3, Aimed
  <2>2. f.sem \in Semantics
    BY <1>3 DEF Verdicts
  <2> QED
    BY <2>1, <2>2, Transitions DEF Aims
<1>5. /\ h \in Verdicts /\ Aims(h, row.state)
      /\ h.sem = "success" => a.sem = "success"
      /\ row.state = "awaiting_plan" /\ row.plan => h.sem # "needs_retry"
  BY <1>4, HandoffGuarded
<1>6. /\ p \in Verdicts /\ Aims(p, row.state)
      /\ p.sem = "success" => h.sem = "success" /\ (row.require => lg.planned)
      /\ lg.planned => p = h
  BY <1>5, PlanGuarded
<1>7. /\ v \in Verdicts /\ Aims(v, row.state)
      /\ v.sem # "abandoned" => v = p /\ (e.spawned => sp + e.tokens <= Budget)
  BY <1>6, BudgetGuarded
<1>8. v = Verdict(e, row, lg, sp)
  BY DEF Verdict
<1> HIDE DEF d, o, f, a, h, p, v
<1>9. /\ v.sem = "success" =>
              /\ lg.said.sem # "" => e.code # "nonzero"
              /\ row.require => lg.planned
      /\ v.sem = "needs_retry" =>
              /\ e.spawned => sp + e.tokens <= Budget
              /\ row.state = "awaiting_plan" /\ row.plan => ~lg.planned
  BY <1>3, <1>4, <1>5, <1>6, <1>7
<1> QED
  BY <1>7, <1>8, <1>9
------------------------------------------------------------------------------
(* The inductive invariant. *)

\* An issue that is or was linked to a plan run has one on record, so that the
\* plan guard cannot turn its success into a retry.
PlanKnown ==
  /\ issue.plan => log.planned
  /\ issue.state = "awaiting_plan" => issue.plan

\* A queued retry has no worker whose agent could still report or wait.
QueuedIdle == worker.on => run.st # "retry_queued"

\* The two properties are not inductive by themselves: a retry needs to know that
\* the issue it is queued for has no plan to wait for, and keeps its lawfulness
\* only because nobody reports while it is queued.
IInv == TypeOK /\ PlanKnown /\ QueuedIdle /\ RetryLawful /\ SuccessEarned

LEMMA Initially == Init => IInv
<1> SUFFICES ASSUME Init
             PROVE  IInv
  OBVIOUS
<1>0. PICK require \in BOOLEAN :
        issue = [state |-> "todo", cause |-> NoCause, plan |-> FALSE, require |-> require]
  BY DEF Init
<1>1. TypeOK
  <2>1. issue \in Row
    BY <1>0 DEF Row, IssueStates, Candidacy, AllCauses
  <2>2. run \in RunRow /\ worker \in Worker
    BY DEF Init, RunRow, RunStates, NoWorker, Worker, IssueStates, Candidacy
  <2>3. log \in Log /\ last \in Last
    BY DEF Init, Log, Said, Silent, Unknown, Last
  <2>4. spent = 0 /\ calls = 0 /\ ops = 0
    BY DEF Init
  <2>5. spent \in Nat /\ calls \in 0..MaxCalls /\ ops \in 0..MaxOps
    BY <2>4, LoopAssumption
  <2> QED
    BY <2>1, <2>2, <2>3, <2>5, Typed
<1>2. PlanKnown /\ QueuedIdle /\ RetryLawful /\ SuccessEarned
  <2>1. run.st = "none" /\ last.out = "none"
    BY DEF Init, Unknown
  <2>2. ~issue.plan /\ issue.state = "todo"
    BY <1>0
  <2> QED
    BY <2>1, <2>2 DEF PlanKnown, QueuedIdle, RetryLawful, SuccessEarned
<1> QED
  BY <1>1, <1>2 DEF IInv

LEMMA StartKeeps ==
  ASSUME IInv, Start
  PROVE  IInv'
<1>0. TypeOK /\ run \in RunRow /\ issue \in Row
  BY Typed DEF IInv
<1>1. PICK a \in Nat :
        /\ run' = [run EXCEPT !.st = "claimed", !.next = a]
        /\ worker' = [NoWorker EXCEPT !.on = TRUE, !.attempt = a, !.snap = issue.state]
  <2> DEFINE n == CASE run.st = "none" -> 0
                    [] run.st = "retry_queued" -> run.next
                    [] run.st = "released" -> run.next + 1
  <2>1. run.st \in {"none", "retry_queued", "released"}
    BY DEF Start, Ready, Candidate
  <2>2. run.next \in Nat
    BY <1>0 DEF RunRow
  <2>3. n \in Nat
    BY <2>1, <2>2
  <2>4. /\ run' = [run EXCEPT !.st = "claimed", !.next = n]
        /\ worker' = [NoWorker EXCEPT !.on = TRUE, !.attempt = n, !.snap = issue.state]
    BY DEF Start
  <2> QED
    BY <2>3, <2>4
<1>2. run' \in RunRow /\ run'.st = "claimed"
  BY <1>0, <1>1 DEF RunRow, RunStates
<1>3. worker' \in Worker
  BY <1>0, <1>1 DEF Worker, NoWorker, Row
<1>4. last' \in Last /\ last'.out = "none"
  BY DEF Start, Unknown, Last
<1>5. UNCHANGED <<issue, log, spent, calls, ops>>
  BY DEF Start
<1>6. TypeOK'
  BY <1>0, <1>2, <1>3, <1>4, <1>5, Typed, TypedNext
<1> QED
  BY <1>2, <1>4, <1>5, <1>6 DEF IInv, PlanKnown, QueuedIdle, RetryLawful, SuccessEarned

\* A tool call needs a running worker, and is counted.
LEMMA CallTyped ==
  ASSUME TypeOK, Call
  PROVE  worker.on /\ calls' \in 0..MaxCalls
<1>1. calls \in 0..MaxCalls /\ MaxCalls \in Nat
  BY LoopAssumption DEF TypeOK
<1> QED
  BY <1>1 DEF Call

LEMMA ToolsKeep ==
  ASSUME IInv, Tools
  PROVE  IInv'
<1>0. /\ TypeOK /\ run \in RunRow /\ issue \in Row /\ log \in Log
      /\ PlanKnown /\ QueuedIdle /\ SuccessEarned
  BY Typed DEF IInv
<1>1. ASSUME NEW sem \in Semantics, NEW cause \in Causes \cup {NoCause},
             SessionCompleted(sem, cause)
      PROVE  IInv'
  <2>1. worker.on /\ calls' \in 0..MaxCalls
    BY <1>0, <1>1, CallTyped DEF SessionCompleted
  <2>2. PICK n \in Nat :
          log' = [log EXCEPT !.said = [sem |-> sem, cause |-> cause], !.fails = n]
    <3> DEFINE m == IF sem = "needs_retry" THEN log.fails + 1 ELSE 0
    <3>1. m \in Nat
      BY <1>0 DEF Log
    <3>2. log' = [log EXCEPT !.said = [sem |-> sem, cause |-> cause], !.fails = m]
      BY <1>1 DEF SessionCompleted
    <3> QED
      BY <3>1, <3>2
  <2>3. log' \in Log /\ log'.planned = log.planned
    BY <1>0, <2>2 DEF Log, Said
  <2>4. PICK c \in AllCauses : issue' = [issue EXCEPT !.cause = c]
    <3>1. issue.cause \in AllCauses /\ cause \in AllCauses /\ NoCause \in AllCauses
      BY <1>0 DEF Row, AllCauses
    <3> QED
      BY <1>1, <3>1 DEF SessionCompleted
  <2>5. issue' \in Row
    BY <1>0, <2>4 DEF Row
  <2>6. issue'.state = issue.state /\ issue'.plan = issue.plan /\ issue'.require = issue.require
    BY <1>0, <2>4 DEF Row
  <2>7. UNCHANGED <<run, worker, spent, last, ops>>
    BY <1>1 DEF SessionCompleted
  <2>8. TypeOK'
    BY <1>0, <2>1, <2>3, <2>5, <2>7 DEF TypeOK, Log, Row, Said
  <2> QED
    BY <1>0, <2>1, <2>3, <2>6, <2>7, <2>8
       DEF IInv, PlanKnown, QueuedIdle, RetryLawful, SuccessEarned
<1>2. ASSUME NEW b \in BOOLEAN, EmitResult(b)
      PROVE  IInv'
  <2>1. worker.on /\ calls' \in 0..MaxCalls
    BY <1>0, <1>2, CallTyped DEF EmitResult
  <2>2. log' \in Log /\ log'.planned = log.planned
    BY <1>0, <1>2 DEF EmitResult, Log
  <2>3. UNCHANGED <<issue, run, worker, spent, last, ops>>
    BY <1>2 DEF EmitResult
  <2>4. TypeOK'
    BY <1>0, <2>1, <2>2, <2>3 DEF TypeOK, Log, Said
  <2> QED
    BY <1>0, <2>1, <2>2, <2>3, <2>4 DEF IInv, PlanKnown, QueuedIdle, RetryLawful, SuccessEarned
<1>3. ASSUME NEW b \in BOOLEAN, SpawnPlan(b)
      PROVE  IInv'
  <2>1. worker.on /\ calls' \in 0..MaxCalls
    BY <1>0, <1>3, CallTyped DEF SpawnPlan
  <2>2. log' \in Log /\ log'.planned
    BY <1>0, <1>3 DEF SpawnPlan, Log
  <2>3. UNCHANGED <<worker, spent, last, ops>>
    BY <1>3 DEF SpawnPlan
  <2>4. CASE b
    <3>1. /\ issue' = [issue EXCEPT !.plan = TRUE, !.state = "awaiting_plan"]
          /\ run' = [run EXCEPT !.st = "released", !.lis = "awaiting_plan"]
      BY <1>3, <2>4 DEF SpawnPlan
    <3>2. issue' \in Row /\ issue'.plan /\ issue'.state = "awaiting_plan"
      BY <1>0, <3>1 DEF Row, IssueStates
    <3>3. run' \in RunRow /\ run'.st = "released"
      BY <1>0, <3>1 DEF RunRow, RunStates, IssueStates
    <3>4. TypeOK'
      BY <1>0, <2>1, <2>2, <2>3, <3>2, <3>3 DEF TypeOK, Log, Said, Row, RunRow
    <3> QED
      BY <1>0, <2>2, <2>3, <3>2, <3>3, <3>4
         DEF IInv, PlanKnown, QueuedIdle, RetryLawful, SuccessEarned
  <2>5. CASE ~b
    <3>1. UNCHANGED <<issue, run>>
      BY <1>3, <2>5 DEF SpawnPlan
    <3>2. TypeOK'
      BY <1>0, <2>1, <2>2, <2>3, <3>1 DEF TypeOK, Log, Said
    <3> QED
      BY <1>0, <2>1, <2>2, <2>3, <3>1, <3>2
         DEF IInv, PlanKnown, QueuedIdle, RetryLawful, SuccessEarned
  <2> QED
    BY <2>4, <2>5
<1>4. ASSUME NEW state \in Candidacy, Suggest(state)
      PROVE  IInv'
  <2>1. worker.on /\ calls' \in 0..MaxCalls
    BY <1>0, <1>4, CallTyped DEF Suggest
  <2>2. issue' \in Row /\ issue'.state \in Candidacy /\ issue'.plan = issue.plan
    BY <1>0, <1>4 DEF Suggest, Row, IssueStates
  <2>3. UNCHANGED <<run, worker, log, spent, last, ops>>
    BY <1>4 DEF Suggest
  <2>4. TypeOK'
    BY <1>0, <2>1, <2>2, <2>3, Typed, TypedNext
  <2> QED
    BY <1>0, <2>1, <2>2, <2>3, <2>4
       DEF IInv, PlanKnown, QueuedIdle, RetryLawful, SuccessEarned, Candidacy
<1> QED
  BY <1>1, <1>2, <1>3, <1>4 DEF Tools

LEMMA EventTyped ==
  ASSUME TypeOK, Event
  PROVE  ops' \in 0..MaxOps
<1>1. ops \in 0..MaxOps /\ MaxOps \in Nat
  BY LoopAssumption DEF TypeOK
<1> QED
  BY <1>1 DEF Event

LEMMA OutsideKeeps ==
  ASSUME IInv, Outside
  PROVE  IInv'
<1>0. /\ TypeOK /\ run \in RunRow /\ issue \in Row /\ worker \in Worker
      /\ PlanKnown /\ QueuedIdle /\ SuccessEarned /\ RetryLawful
  BY Typed DEF IInv
<1>1. CASE CrashRestart
  <2>1. ops' \in 0..MaxOps
    BY <1>0, <1>1, EventTyped DEF CrashRestart
  <2>2. run' \in RunRow /\ run'.st # "retry_queued"
    BY <1>0, <1>1 DEF CrashRestart, QueuedIdle, RunRow, RunStates
  <2>3. worker' \in Worker
    BY <1>1 DEF CrashRestart, NoWorker, Worker, IssueStates, Candidacy
  <2>4. UNCHANGED <<issue, log, spent, last, calls>>
    BY <1>1 DEF CrashRestart
  <2>5. TypeOK'
    BY <1>0, <2>1, <2>2, <2>3, <2>4, Typed, TypedNext
  <2> QED
    BY <1>0, <2>2, <2>4, <2>5 DEF IInv, PlanKnown, QueuedIdle, RetryLawful, SuccessEarned
<1>2. CASE PlanEnds
  <2>1. ops' \in 0..MaxOps
    BY <1>0, <1>2, EventTyped DEF PlanEnds
  <2>2. PICK state \in {"todo", "done", "cancelled"} :
          /\ issue' = [issue EXCEPT !.plan = FALSE, !.state = state]
          /\ run' = [run EXCEPT !.lis = state]
    BY <1>2 DEF PlanEnds
  <2>3. issue' \in Row /\ issue'.state = state /\ issue'.plan = FALSE
    BY <1>0, <2>2 DEF Row, IssueStates, Candidacy
  <2>4. run' \in RunRow /\ run'.st = run.st
    BY <1>0, <2>2 DEF RunRow, IssueStates, Candidacy
  <2>5. UNCHANGED <<worker, log, spent, last, calls>>
    BY <1>2 DEF PlanEnds
  <2>6. TypeOK'
    BY <1>0, <2>1, <2>3, <2>4, <2>5, Typed, TypedNext
  <2>7. log.planned
    BY <1>0, <1>2 DEF PlanEnds, PlanKnown
  <2> QED
    BY <1>0, <2>3, <2>4, <2>5, <2>6, <2>7
       DEF IInv, PlanKnown, QueuedIdle, RetryLawful, SuccessEarned
<1>3. ASSUME NEW state \in Candidacy, NEW reset \in BOOLEAN, Retrigger(state, reset)
      PROVE  IInv'
  <2>1. ops' \in 0..MaxOps
    BY <1>0, <1>3, EventTyped DEF Retrigger
  <2>2. PICK c \in AllCauses : issue' = [issue EXCEPT !.state = state, !.cause = c]
    <3>1. issue.cause \in AllCauses /\ NoCause \in AllCauses
      BY <1>0 DEF Row, AllCauses
    <3> QED
      BY <1>3, <3>1 DEF Retrigger
  <2>3. issue' \in Row /\ issue'.state \in Candidacy /\ issue'.plan = issue.plan
    BY <1>0, <2>2 DEF Row, IssueStates
  <2>4. run' \in RunRow /\ run'.st = "released"
    BY <1>0, <1>3 DEF Retrigger, Released, RunRow, RunStates
  <2>5. UNCHANGED <<worker, log, spent, last, calls>>
    BY <1>3 DEF Retrigger
  <2>6. TypeOK'
    BY <1>0, <2>1, <2>3, <2>4, <2>5, Typed, TypedNext
  <2> QED
    BY <1>0, <2>3, <2>4, <2>5, <2>6
       DEF IInv, PlanKnown, QueuedIdle, RetryLawful, SuccessEarned, Candidacy
<1> QED
  BY <1>1, <1>2, <1>3 DEF Outside

\* The state that a completion may leave the issue in.
LEMMA MovedTyped ==
  ASSUME TypeOK, NEW state \in IssueStates \cup {""}
  PROVE  Moved(state) \in IssueStates /\ Moved(state) \in {state, issue.state}
<1>1. issue.state \in IssueStates
  BY Typed DEF Row
<1> QED
  BY <1>1 DEF Moved

\* An attempt that ends: whichever branch the transaction takes, the verdict it acts
\* on bears out what is written.
LEMMA FinishKeeps ==
  ASSUME IInv, NEW e \in Evidence, Finish(e)
  PROVE  IInv'
<1> DEFINE v == Verdict(e, issue, log, spent)
<1>0. /\ TypeOK /\ run \in RunRow /\ issue \in Row /\ worker \in Worker /\ log \in Log
      /\ spent \in Nat
      /\ PlanKnown /\ SuccessEarned
  BY Typed DEF IInv
<1>1. /\ v \in Verdicts /\ Aims(v, issue.state)
      /\ v.sem = "success" =>
           /\ log.said.sem # "" => e.code # "nonzero"
           /\ issue.require => log.planned
      /\ v.sem = "needs_retry" =>
           /\ e.spawned => spent + e.tokens <= Budget
           /\ issue.state = "awaiting_plan" /\ issue.plan => ~log.planned
  BY <1>0, VerdictSound
<1>2. /\ worker.on
      /\ Succeed(v) \/ HandOff(v) \/ ShortCircuit(v) \/ Retry(v) \/ Trip(v) \/ GiveUp(v)
      /\ last' = [out |-> IF v.sem = "success" THEN "success" ELSE "other", code |-> e.code,
                  reported |-> log.said.sem # ""]
      /\ worker' = NoWorker /\ spent' = spent + e.tokens
      /\ UNCHANGED <<log, calls, ops>>
  BY DEF Finish, RecordLlmCall
<1> HIDE DEF v
<1>3. /\ e.code \in {"zero", "nonzero", "absent"} /\ e.tokens \in 0..1
      /\ e.code = "absent" <=> ~e.spawned
  BY EvidenceFields
<1>4. worker' \in Worker /\ ~worker'.on
  BY <1>2 DEF NoWorker, Worker, IssueStates, Candidacy
<1>5. spent' \in Nat
  <2>1. spent \in Nat /\ e.tokens \in 0..1 /\ spent' = spent + e.tokens
    BY <1>0, <1>2, <1>3
  <2> QED
    BY <2>1
<1>6. /\ last' \in Last /\ last'.code = e.code
      /\ last'.out = "success" => v.sem = "success"
      /\ last'.reported => log.said.sem # ""
  BY <1>2, <1>3 DEF Last
<1>7. last'.out = "success" /\ last'.reported => last'.code # "nonzero"
  BY <1>1, <1>6
<1>8. /\ v.sem \in Semantics /\ v.target \in IssueStates \cup {""}
      /\ v.cause \in AllCauses /\ NoCause \in AllCauses
  BY <1>1 DEF Verdicts, IssueStates, Candidacy, AllCauses
<1>9. /\ worker.snap \in IssueStates /\ worker.attempt \in Nat /\ issue.cause \in AllCauses
      /\ issue.state \in IssueStates /\ log.fails \in Nat
  BY <1>0 DEF Worker, Row, Log
<1>10. Final(v) \in IssueStates
  BY <1>8, <1>9 DEF Final
\* The row of the issue: a new state that is done needs a success, one that awaits
\* a plan was there before.
<1>11. ASSUME NEW state \in IssueStates, NEW cause \in AllCauses,
              issue' = [issue EXCEPT !.state = state, !.cause = cause],
              state = "done" => v.sem = "success" \/ issue.state = "done",
              state = "awaiting_plan" => issue.state = "awaiting_plan"
       PROVE  issue' \in Row /\ issue'.state = state /\ PlanKnown' /\ SuccessEarned'
  <2>1. /\ issue' \in Row /\ issue'.state = state /\ issue'.plan = issue.plan
        /\ issue'.require = issue.require
    BY <1>0, <1>11 DEF Row
  <2>2. log' = log
    BY <1>2
  <2>3. PlanKnown'
    BY <1>0, <1>11, <2>1, <2>2 DEF PlanKnown
  <2>4. issue'.require /\ issue'.state = "done" => log'.planned
    BY <1>0, <1>1, <1>11, <2>1, <2>2 DEF SuccessEarned
  <2> QED
    BY <1>7, <2>1, <2>3, <2>4 DEF SuccessEarned
\* What each branch writes, in those terms.
<1>12. \E state \in IssueStates, cause \in AllCauses :
         /\ issue' = [issue EXCEPT !.state = state, !.cause = cause]
         /\ state = "done" => v.sem = "success" \/ issue.state = "done"
         /\ state = "awaiting_plan" => issue.state = "awaiting_plan"
  <2>0. /\ issue = [issue EXCEPT !.state = issue.state, !.cause = issue.cause]
        /\ \A s \in IssueStates : [issue EXCEPT !.state = s] =
             [issue EXCEPT !.state = s, !.cause = issue.cause]
        /\ \A c \in AllCauses : [issue EXCEPT !.cause = c] =
             [issue EXCEPT !.state = issue.state, !.cause = c]
    BY <1>0 DEF Row
  <2>1. CASE Succeed(v) \/ HandOff(v)
    <3>1. issue' = [issue EXCEPT !.state = Moved(v.target), !.cause = NoCause]
      BY <2>1 DEF Succeed, HandOff
    <3>2. Moved(v.target) \in IssueStates /\ Moved(v.target) \in {v.target, issue.state}
      BY <1>0, <1>8, MovedTyped
    <3> QED
      BY <1>1, <1>8, <3>1, <3>2 DEF Aims
  <2>2. ASSUME NEW s \in {"blocked", "cancelled"},
               issue' = [issue EXCEPT !.state = Moved(s)]
               \/ issue' = [issue EXCEPT !.state = s]
        PROVE  \E state \in IssueStates, cause \in AllCauses :
                 /\ issue' = [issue EXCEPT !.state = state, !.cause = cause]
                 /\ state = "done" => v.sem = "success" \/ issue.state = "done"
                 /\ state = "awaiting_plan" => issue.state = "awaiting_plan"
    <3>1. s \in IssueStates
      BY DEF IssueStates
    <3>2. Moved(s) \in IssueStates /\ Moved(s) \in {s, issue.state}
      BY <1>0, <3>1, MovedTyped
    <3>3. /\ issue.cause \in AllCauses /\ s \notin {"done", "awaiting_plan"}
          /\ [issue EXCEPT !.state = s] = [issue EXCEPT !.state = s, !.cause = issue.cause]
          /\ [issue EXCEPT !.state = Moved(s)] =
               [issue EXCEPT !.state = Moved(s), !.cause = issue.cause]
      BY <1>9, <2>0, <3>1, <3>2
    <3>4. CASE issue' = [issue EXCEPT !.state = s]
      BY <3>1, <3>3, <3>4
    <3>5. CASE issue' = [issue EXCEPT !.state = Moved(s)]
      BY <3>2, <3>3, <3>5
    <3> QED
      BY <2>2, <3>4, <3>5
  <2>3. CASE ShortCircuit(v) \/ GiveUp(v) \/ Trip(v)
    <3>1. \E s \in {"blocked", "cancelled"} : issue' = [issue EXCEPT !.state = Moved(s)]
                                              \/ issue' = [issue EXCEPT !.state = s]
      BY <2>3 DEF ShortCircuit, GiveUp, Trip
    <3> QED
      BY <2>2, <3>1
  <2>4. CASE Retry(v)
    <3> DEFINE c == IF v.cause = NoCause THEN issue.cause ELSE v.cause
    <3>1. issue' = [issue EXCEPT !.cause = c]
      BY <2>4 DEF Retry
    <3>2. c \in AllCauses
      BY <1>8, <1>9
    <3> HIDE DEF c
    <3> QED
      BY <1>9, <2>0, <3>1, <3>2
  <2> QED
    BY <1>2, <2>1, <2>3, <2>4
<1>13. issue' \in Row /\ PlanKnown' /\ SuccessEarned'
  BY <1>11, <1>12
\* The row of the run: only Retry queues one.
<1>14. run' \in RunRow
  <2>0. "blocked" \in IssueStates
    BY DEF IssueStates
  <2>1. ASSUME NEW lis \in IssueStates
        PROVE  Released(lis) \in RunRow
    BY <1>0 DEF Released, RunRow, RunStates
  <2>2. CASE HandOff(v)
    <3>1. Final(v) \in {"in_review", "awaiting_plan"}
      BY <1>1, <2>2 DEF HandOff, Final, Aims
    <3>2. run' = [run EXCEPT !.st = Final(v), !.lis = Final(v)]
      BY <2>2 DEF HandOff
    <3> QED
      BY <1>0, <1>10, <3>1, <3>2 DEF RunRow, RunStates
  <2>3. CASE Retry(v)
    <3>1. run' = [run EXCEPT !.st = "retry_queued", !.next = worker.attempt + 1]
      BY <2>3 DEF Retry, ScheduleRetry
    <3>2. worker.attempt + 1 \in Nat
      BY <1>9
    <3> QED
      BY <1>0, <3>1, <3>2 DEF RunRow, RunStates
  <2>4. CASE Succeed(v) \/ GiveUp(v) \/ ShortCircuit(v) \/ Trip(v)
    BY <1>10, <2>0, <2>1, <2>4 DEF Succeed, GiveUp, ShortCircuit, Trip
  <2> QED
    BY <1>2, <2>2, <2>3, <2>4
<1>15. run'.st = "retry_queued" => Retry(v)
  <2>1. CASE HandOff(v)
    <3>1. Final(v) \in {"in_review", "awaiting_plan"}
      BY <1>1, <2>1 DEF HandOff, Final, Aims
    <3> QED
      BY <1>0, <2>1, <3>1 DEF HandOff, RunRow
  <2>2. CASE Succeed(v) \/ GiveUp(v) \/ ShortCircuit(v) \/ Trip(v)
    BY <1>0, <2>2 DEF Succeed, GiveUp, ShortCircuit, Trip, Released, RunRow
  <2> QED
    BY <1>2, <2>1, <2>2
<1>16. RetryLawful'
  <2> SUFFICES ASSUME run'.st = "retry_queued"
               PROVE  /\ last'.code # "absent" => spent' <= Budget
                      /\ log'.fails < Threshold
                      /\ issue'.state # "awaiting_plan"
    BY DEF RetryLawful
  <2>1. /\ v.sem = "needs_retry" /\ ~(log.fails >= Threshold)
        /\ issue' = [issue EXCEPT !.cause = IF v.cause = NoCause THEN @ ELSE v.cause]
    BY <1>15 DEF Retry, MayRetry, Tripped
  <2>2. last'.code # "absent" => spent' <= Budget
    BY <1>1, <1>2, <1>3, <1>6, <2>1
  <2>3. log'.fails < Threshold
    <3>1. Threshold \in Nat /\ log.fails \in Nat /\ ~(log.fails >= Threshold)
      BY <1>9, <2>1, LoopAssumption
    <3>2. log.fails < Threshold
      BY <3>1
    <3> QED
      BY <1>2, <3>2
  <2>4. issue'.state = issue.state
    BY <1>0, <2>1 DEF Row
  <2>5. issue.state # "awaiting_plan"
    BY <1>0, <1>1, <2>1 DEF PlanKnown
  <2> QED
    BY <2>2, <2>3, <2>4, <2>5
<1>17. TypeOK'
  <2>1. /\ issue' \in Row /\ run' \in RunRow /\ worker' \in Worker /\ spent' \in Nat
        /\ last' \in Last
    BY <1>4, <1>5, <1>6, <1>13, <1>14
  <2> QED
    BY <1>0, <1>2, <2>1, Typed, TypedNext
<1> QED
  BY <1>4, <1>13, <1>16, <1>17 DEF IInv, QueuedIdle

LEMMA Inductive == IInv /\ [Next]_vars => IInv'
<1> SUFFICES ASSUME IInv, [Next]_vars
             PROVE  IInv'
  OBVIOUS
<1>1. CASE Start
  BY <1>1, StartKeeps
<1>2. CASE Ends
  BY <1>2, FinishKeeps DEF Ends
<1>3. CASE Tools
  BY <1>3, ToolsKeep
<1>4. CASE Outside
  BY <1>4, OutsideKeeps
<1>5. CASE UNCHANGED vars
  <2>1. UNCHANGED <<issue, run, worker, log, spent, last, calls, ops>>
    BY <1>5 DEF vars
  <2>2. TypeOK'
    <3>1. /\ issue \in Row /\ run \in RunRow /\ worker \in Worker /\ log \in Log
          /\ spent \in Nat /\ last \in Last
          /\ calls \in 0..MaxCalls /\ ops \in 0..MaxOps
      BY Typed DEF IInv
    <3>2. /\ issue' \in Row /\ run' \in RunRow /\ worker' \in Worker /\ log' \in Log
          /\ spent' \in Nat /\ last' \in Last
          /\ calls' \in 0..MaxCalls /\ ops' \in 0..MaxOps
      BY <2>1, <3>1
    <3> QED
      BY <3>2 DEF TypeOK, Row, RunRow, Worker, Log, Said, Last
  <2>3. (PlanKnown /\ QueuedIdle /\ RetryLawful /\ SuccessEarned)'
    BY <2>1 DEF IInv, PlanKnown, QueuedIdle, RetryLawful, SuccessEarned
  <2> QED
    BY <2>2, <2>3 DEF IInv
<1> QED
  BY <1>1, <1>2, <1>3, <1>4, <1>5 DEF Next, Rests

LEMMA Invariance == Spec => []IInv
<1> QED
  BY Initially, Inductive, PTL DEF Spec
------------------------------------------------------------------------------
(* The theorems. *)

\* The rows, the agent's record and the counts keep their types: whatever the agent
\* reports and in whatever order, the transaction writes a state, a run status and
\* a fingerprint the schema knows (worker.ts:551-846).
THEOREM AttemptTypeCorrect == Spec => []TypeOK
<1>1. IInv => TypeOK
  BY DEF IInv
<1> QED
  BY <1>1, Invariance, PTL

\* No retry is queued over the budget (unless spawn() threw), against an open
\* breaker or a plan run the issue waits for, for any budget, threshold and number
\* of retries (worker.ts:551-592, 700-846).
THEOREM RetryLawfulTheorem == Spec => []RetryLawful
<1>1. IInv => RetryLawful
  BY DEF IInv
<1> QED
  BY <1>1, Invariance, PTL

\* No attempt succeeds by a report against a non-zero exit, and no issue that
\* requires a plan is done before one was spawned, whatever the agent says, emits
\* or suggests (worker.ts:438-492, 562-572).
THEOREM SuccessEarnedTheorem == Spec => []SuccessEarned
<1>1. IInv => SuccessEarned
  BY DEF IInv
<1> QED
  BY <1>1, Invariance, PTL
==============================================================================
