--------------------------- MODULE Dispatch_proofs ---------------------------
(***************************************************************************)
(* What the claims of Dispatch guarantee for every set of issues, slots    *)
(* and events: a claim always has a worker that will give it up; and, as   *)
(* long as nothing releases a claim over its worker's head, an issue has   *)
(* one worker and a workspace one issue, the dispatch implements the lease *)
(* of IssueLease, and no issue is dispatched without a cause.  The last    *)
(* part is about the semaphore of DispatchSlots, which has names of its    *)
(* own and so can be extended beside Dispatch.                             *)
(***************************************************************************)
EXTENDS DispatchLease, DispatchSlots, FiniteSetTheorems, TLAPS

\* The conjuncts of TypeOK that the proofs take one at a time.
StateType == state \in [Issues -> IssueStates] /\ seen \in [Issues -> IssueStates]
RunType == run \in [Issues -> Run]
WorkerType ==
  /\ wk \in [Slots -> Worker]
  /\ \A s \in Slots : wk[s].pc # "idle" => wk[s].issue \in Issues
RestType ==
  /\ proc \in [Issues -> Slots \cup {None}]
  /\ orphans \subseteq Issues
  /\ left \subseteq Issues
  /\ ops \in 0..MaxOps

LEMMA TypeParts == TypeOK <=> StateType /\ RunType /\ WorkerType /\ RestType
  BY DEF TypeOK, StateType, RunType, WorkerType, RestType

LEMMA TypeInit ==
  ASSUME Init
  PROVE  TypeOK
<1>1. StateType
  BY DEF Init, StateType, IssueStates, Candidacy
<1>2. RunType
  BY DEF Init, RunType, Run, RunStates
<1>3. WorkerType
  BY DEF Init, WorkerType, Worker, Idle, Phases, IssueStates, Candidacy
<1>4. RestType
  <2>1. ops = 0 /\ orphans = {} /\ left = {} /\ proc = [i \in Issues |-> None]
    BY DEF Init
  <2> QED
    BY <2>1, BoundsAssumption DEF RestType
<1> QED
  BY <1>1, <1>2, <1>3, <1>4, TypeParts

\* What a worker's action needs to know of its slot.
LEMMA WorkerFields ==
  ASSUME WorkerType, NEW s \in Slots, wk[s].pc # "idle"
  PROVE  /\ wk[s].issue \in Issues
         /\ wk[s].attempt \in Nat
         /\ wk[s].snap \in IssueStates
  BY DEF WorkerType, Worker

LEMMA WorkerBusy ==
  ASSUME NEW s \in Slots, WorkerStep(s) \/ Throw(s) \/ Beat(s) \/ Suggest(s)
  PROVE  wk[s].pc # "idle"
  BY DEF WorkerStep, Throw, Beat, Suggest, Spawn, SpawnFails, PromptFails, Exit, Complete, Log

LEMMA OutcomeTypes ==
  ASSUME RunType, NEW i \in Issues, NEW a \in Nat, NEW snap \in IssueStates, NEW o \in Outcomes
  PROVE  /\ Settled(i, o, a, snap) \in Run
         /\ Written(o, snap) \subseteq IssueStates
<1>1. o = "retry" \/ Target(o) \in IssueStates
  BY DEF Target, Outcomes, IssueStates, Candidacy, WaitStates, FinalStates
<1>2. run[i] \in Run
  BY DEF RunType
<1>3. Settled(i, o, a, snap) \in Run
  <2>1. CASE o = "retry"
    <3>1. a + 1 \in Nat /\ "retry_queued" \in RunStates
      BY DEF RunStates
    <3> QED
      BY <1>2, <2>1, <3>1 DEF Settled, Run
  <2>2. CASE o # "retry"
    <3>1. (IF o = "exhausted" THEN snap ELSE Target(o)) \in IssueStates
      BY <1>1, <2>2
    <3>2. (IF o = "handoff" THEN "in_review" ELSE "released") \in RunStates
      BY DEF RunStates
    <3> QED
      BY <1>2, <2>2, <3>1, <3>2 DEF Settled, Run
  <2> QED
    BY <2>1, <2>2
<1>4. Written(o, snap) \subseteq IssueStates
  BY <1>1 DEF Written, IssueStates, FinalStates
<1> QED
  BY <1>3, <1>4

LEMMA AttemptType ==
  ASSUME RunType, NEW i \in Issues
  PROVE  Attempt(i) \in Nat
<1>1. run[i].next \in Nat
  BY DEF RunType, Run
<1> QED
  BY <1>1 DEF Attempt

LEMMA StateTypeStep ==
  ASSUME TypeOK, Next
  PROVE  StateType'
<1>0. StateType /\ RunType /\ WorkerType
  BY TypeParts
<1> USE <1>0 DEF StateType
<1>1. ASSUME NEW i \in Issues, NEW st \in IssueStates, UpdateIssueState(i, st)
      PROVE  StateType'
  BY <1>1 DEF UpdateIssueState
<1>2. CASE StartTick
  BY <1>2 DEF StartTick, IssueStates, Candidacy
<1>3. ASSUME NEW i \in Issues, NEW s \in Slots, Claim(i, s)
      PROVE  StateType'
  BY <1>3 DEF Claim
<1>4. ASSUME NEW i \in Issues, Defer(i) \/ Due(i) \/ Age(i) \/ OrphanExits(i)
      PROVE  StateType'
  BY <1>4 DEF Defer, Due, Age, OrphanExits
<1>5. ASSUME NEW i \in Issues, Operator(i)
      PROVE  StateType'
  <2>1. CASE Retrigger(i)
    BY <2>1, <1>1 DEF Retrigger, IssueStates
  <2>2. CASE Resume(i) \/ Pause(i) \/ Cancel(i)
    BY <2>2 DEF Resume, Pause, Cancel
  <2>3. CASE Review(i)
    <3>1. {"done", "todo"} \subseteq IssueStates
      BY DEF IssueStates, FinalStates, Candidacy
    <3> QED
      BY <2>3, <3>1, <1>1 DEF Review
  <2>4. CASE Put(i)
    BY <2>4 DEF Put
  <2> QED
    BY <1>5, <2>1, <2>2, <2>3, <2>4 DEF Operator
<1>6. ASSUME NEW s \in Slots, WorkerStep(s) \/ Throw(s) \/ Beat(s) \/ Suggest(s)
      PROVE  StateType'
  <2>1. wk[s].issue \in Issues /\ wk[s].attempt \in Nat /\ wk[s].snap \in IssueStates
    BY <1>6, WorkerBusy, WorkerFields
  <2>2. CASE Complete(s)
    <3>1. PICK o \in Outcomes :
            \/ UNCHANGED <<state, seen>>
            \/ \E st \in Written(o, wk[s].snap) : UpdateIssueState(wk[s].issue, st)
      BY <2>2 DEF Complete
    <3>2. Written(o, wk[s].snap) \subseteq IssueStates
      BY <2>1, OutcomeTypes
    <3> QED
      BY <2>1, <3>1, <3>2, <1>1
  <2>3. CASE Suggest(s)
    BY <2>1, <2>3, <1>1 DEF Suggest, IssueStates
  <2>4. CASE Spawn(s) \/ SpawnFails(s)
    <3>1. AssignRole(s) /\ UNCHANGED seen
      BY <2>4 DEF Spawn, SpawnFails
    <3> QED
      BY <2>1, <3>1 DEF AssignRole
  <2> QED
    BY <1>6, <2>2, <2>3, <2>4 DEF WorkerStep, Throw, Beat, PromptFails, Exit, Log
<1>7. CASE CrashRestart
  BY <1>7 DEF CrashRestart
<1> QED
  BY <1>2, <1>3, <1>4, <1>5, <1>6, <1>7 DEF Next

LEMMA RowChanges ==
  ASSUME NEW row \in Run, NEW st \in RunStates
  PROVE  /\ [row EXCEPT !.st = st] \in Run
         /\ [row EXCEPT !.due = TRUE] \in Run
         /\ [row EXCEPT !.fresh = TRUE] \in Run
         /\ [row EXCEPT !.fresh = FALSE] \in Run
         /\ [row EXCEPT !.st = st, !.pid = None] \in Run
         /\ row.st \in RunStates
  BY DEF Run

LEMMA RunTypeStep ==
  ASSUME TypeOK, Next
  PROVE  RunType'
<1>0. RunType /\ WorkerType
  BY TypeParts
<1> USE <1>0 DEF RunType
<1>0a. "released" \in RunStates /\ \A i \in Issues : run[i] \in Run
  BY DEF RunStates
<1>1. CASE StartTick
  <2>1. run' = [i \in Issues |->
                  IF i \in Stale THEN [run[i] EXCEPT !.st = "released"] ELSE run[i]]
    BY <1>1 DEF StartTick
  <2>2. \A i \in Issues : [run[i] EXCEPT !.st = "released"] \in Run
    BY <1>0a, RowChanges
  <2> QED
    BY <1>0a, <2>1, <2>2
<1>2. ASSUME NEW i \in Issues, NEW s \in Slots, Claim(i, s)
      PROVE  RunType'
  <2>1. PICK a \in Nat :
          run' = [run EXCEPT ![i].st = "claimed", ![i].next = a, ![i].fresh = TRUE]
    BY <1>2, AttemptType DEF Claim
  <2> DEFINE row == [run[i] EXCEPT !.st = "claimed", !.next = a, !.fresh = TRUE]
  <2>2. row \in Run
    BY DEF Run, RunStates
  <2>3. run' = [run EXCEPT ![i] = row]
    BY <2>1
  <2> QED
    BY <2>2, <2>3
<1>3. ASSUME NEW i \in Issues, Defer(i) \/ OrphanExits(i)
      PROVE  RunType'
  BY <1>3 DEF Defer, OrphanExits
<1>4. ASSUME NEW i \in Issues, Due(i)
      PROVE  RunType'
  <2> DEFINE row == [run[i] EXCEPT !.due = TRUE]
  <2>1. row \in Run
    BY <1>0a, RowChanges
  <2>2. run' = [run EXCEPT ![i] = row]
    BY <1>4 DEF Due
  <2> HIDE DEF row
  <2> QED
    BY <2>1, <2>2
<1>5. ASSUME NEW i \in Issues, Age(i)
      PROVE  RunType'
  <2> DEFINE row == [run[i] EXCEPT !.fresh = FALSE]
  <2>1. row \in Run
    BY <1>0a, RowChanges
  <2>2. run' = [run EXCEPT ![i] = row]
    BY <1>5 DEF Age
  <2> HIDE DEF row
  <2> QED
    BY <2>1, <2>2
<1>6. ASSUME NEW i \in Issues, Operator(i)
      PROVE  RunType'
  <2>1. ASSUME NEW st \in RunStates, run' = Released(i, st)
        PROVE  RunType'
    <3> DEFINE row == [run[i] EXCEPT !.st = st]
    <3>1. row \in Run
      BY <1>0a, RowChanges
    <3>2. run' = run \/ run' = [run EXCEPT ![i] = row]
      BY <2>1 DEF Released
    <3> HIDE DEF row
    <3> QED
      BY <3>1, <3>2
  <2>2. CASE Retrigger(i)
    <3>1. CASE run' = run
      BY <3>1
    <3>2. CASE run' = [run EXCEPT ![i].st = "released", ![i].lis = ""]
      <4> DEFINE row == [run[i] EXCEPT !.st = "released", !.lis = ""]
      <4>1. row \in Run
        BY DEF Run, RunStates
      <4>2. run' = [run EXCEPT ![i] = row]
        BY <3>2
      <4> QED
        BY <4>1, <4>2
    <3> QED
      BY <2>2, <3>1, <3>2 DEF Retrigger
  <2>3. CASE Resume(i) \/ Pause(i) \/ Cancel(i)
    BY <2>1, <2>3 DEF Resume, Pause, Cancel, RunStates
  <2>4. CASE Review(i)
    <3>1. CASE run' = run
      BY <3>1
    <3>2. ASSUME NEW st \in IssueStates, run' = [run EXCEPT ![i].lis = st]
          PROVE  RunType'
      BY <3>2 DEF Run
    <3>3. {"done", "todo"} \subseteq IssueStates
      BY DEF IssueStates, FinalStates, Candidacy
    <3> QED
      BY <2>4, <3>1, <3>2, <3>3 DEF Review
  <2>5. CASE Put(i)
    BY <2>5 DEF Put
  <2> QED
    BY <1>6, <2>2, <2>3, <2>4, <2>5 DEF Operator
<1>7. ASSUME NEW s \in Slots, WorkerStep(s) \/ Throw(s) \/ Beat(s) \/ Suggest(s)
      PROVE  RunType'
  <2>1. wk[s].issue \in Issues /\ wk[s].attempt \in Nat /\ wk[s].snap \in IssueStates
    BY <1>7, WorkerBusy, WorkerFields
  <2> DEFINE i == wk[s].issue
  <2>a. ASSUME NEW row \in Run, run' = [run EXCEPT ![i] = row]
        PROVE  RunType'
    BY <2>1, <2>a
  <2>b. run[i] \in Run
    BY <2>1
  <2>c. wk[s].snap \in IssueStates \cup {""} /\ "released" \in RunStates
    BY <2>1 DEF RunStates
  <2>2. CASE Spawn(s)
    <3> DEFINE row == [run[i] EXCEPT !.cur = wk[s].attempt, !.pid = s]
    <3>1. row \in Run
      BY <2>1, <2>b DEF Run
    <3>2. run' = [run EXCEPT ![i] = row]
      BY <2>2 DEF Spawn
    <3> QED
      BY <2>a, <3>1, <3>2
  <2>3. CASE SpawnFails(s)
    <3> DEFINE row == [run[i] EXCEPT !.cur = wk[s].attempt, !.pid = None]
    <3>1. row \in Run
      BY <2>1, <2>b DEF Run
    <3>2. run' = [run EXCEPT ![i] = row]
      BY <2>1, <2>3 DEF SpawnFails
    <3> QED
      BY <2>a, <3>1, <3>2
  <2>4. CASE PromptFails(s)
    <3> DEFINE row == [run[i] EXCEPT !.st = "released", !.lis = wk[s].snap]
    <3>1. row \in Run
      BY <2>b, <2>c DEF Run
    <3>2. run' = [run EXCEPT ![i] = row]
      BY <2>1, <2>4 DEF PromptFails
    <3> QED
      BY <2>a, <3>1, <3>2
  <2>5. CASE Exit(s)
    <3> DEFINE row == [run[i] EXCEPT !.pid = None]
    <3>1. row \in Run
      BY <2>b DEF Run
    <3>2. run' = [run EXCEPT ![i] = row]
      BY <2>5 DEF Exit
    <3> QED
      BY <2>a, <3>1, <3>2
  <2>6. CASE Complete(s)
    BY <2>1, <2>6, OutcomeTypes DEF Complete
  <2>7. CASE Throw(s)
    <3>1. CASE run' = run
      BY <3>1
    <3>2. CASE run' = [run EXCEPT ![wk[s].issue].st = "released"]
      <4> DEFINE row == [run[i] EXCEPT !.st = "released"]
      <4>1. row \in Run /\ run' = [run EXCEPT ![i] = row]
        BY <1>0a, <2>b, <3>2, RowChanges
      <4> QED
        BY <2>a, <4>1
    <3> QED
      BY <2>7, <3>1, <3>2 DEF Throw
  <2>8. CASE Beat(s)
    <3> DEFINE row == [run[i] EXCEPT !.fresh = TRUE]
    <3>1. row \in Run
      BY <1>0a, <2>b, RowChanges
    <3>2. run' = [run EXCEPT ![i] = row]
      BY <2>8 DEF Beat
    <3> QED
      BY <2>a, <3>1, <3>2
  <2> QED
    BY <1>7, <2>2, <2>3, <2>4, <2>5, <2>6, <2>7, <2>8 DEF WorkerStep, Log, Suggest
<1>8. CASE CrashRestart
  <2> DEFINE st(i) == IF run[i].st = "claimed" THEN "released" ELSE run[i].st
  <2>1. \A i \in Issues : st(i) \in RunStates
    BY <1>0a, RowChanges
  <2>2. run' = [i \in Issues |-> [run[i] EXCEPT !.st = st(i), !.pid = None]]
    BY <1>8 DEF CrashRestart
  <2> HIDE DEF st
  <2>3. \A i \in Issues : [run[i] EXCEPT !.st = st(i), !.pid = None] \in Run
    BY <1>0a, <2>1, RowChanges
  <2> QED
    BY <2>2, <2>3
<1> QED
  BY <1>1, <1>2, <1>3, <1>4, <1>5, <1>6, <1>7, <1>8 DEF Next

LEMMA SignalType ==
  ASSUME WorkerType, NEW agents, Signal(agents)
  PROVE  /\ WorkerType'
         /\ \A s \in Slots : /\ wk'[s].pc = wk[s].pc
                             /\ wk'[s].issue = wk[s].issue
<1>1. \A s \in Slots : [wk[s] EXCEPT !.signalled = TRUE] \in Worker
  BY DEF WorkerType, Worker
<1>2. wk' \in [Slots -> Worker]
  BY <1>1 DEF Signal, WorkerType
<1>3. \A s \in Slots : wk'[s].pc = wk[s].pc /\ wk'[s].issue = wk[s].issue
  BY DEF Signal, WorkerType, Worker
<1> QED
  BY <1>2, <1>3 DEF WorkerType

LEMMA WorkerTypeStep ==
  ASSUME TypeOK, Next
  PROVE  WorkerType'
<1>0. StateType /\ RunType /\ WorkerType
  BY TypeParts
<1>1. CASE StartTick
  BY <1>0, <1>1, SignalType DEF StartTick
<1>2. ASSUME NEW i \in Issues, NEW s \in Slots, Claim(i, s)
      PROVE  WorkerType'
  <2>1. Attempt(i) \in Nat
    BY <1>0, AttemptType
  <2>2. state[i] \in IssueStates
    BY <1>0 DEF StateType
  <2>3. [pc |-> "prep", issue |-> i, attempt |-> Attempt(i), snap |-> state[i],
         signalled |-> FALSE] \in Worker
    BY <2>1, <2>2 DEF Worker, Phases
  <2> QED
    BY <1>0, <1>2, <2>3 DEF Claim, WorkerType
<1>3. ASSUME NEW i \in Issues, Defer(i) \/ Due(i) \/ Age(i) \/ OrphanExits(i) \/ Operator(i)
      PROVE  WorkerType'
  <2>1. CASE Cancel(i)
    BY <1>0, <2>1, SignalType DEF Cancel
  <2>2. CASE wk' = wk
    BY <1>0, <2>2 DEF WorkerType
  <2> QED
    BY <1>3, <2>1, <2>2
       DEF Defer, Due, Age, OrphanExits, Operator, Retrigger, Resume, Pause, Review, Put
<1>4. ASSUME NEW s \in Slots, WorkerStep(s) \/ Throw(s) \/ Beat(s) \/ Suggest(s)
      PROVE  WorkerType'
  <2>1. ASSUME NEW pc \in Phases, wk' = [wk EXCEPT ![s].pc = pc]
        PROVE  WorkerType'
    <3>1. wk[s].pc # "idle"
      BY <1>4, WorkerBusy
    <3> QED
      BY <1>0, <2>1, <3>1 DEF WorkerType, Worker
  <2>2. CASE Log(s)
    <3>1. Idle \in Worker /\ Idle.pc = "idle"
      BY DEF Idle, Worker, Phases, IssueStates, Candidacy
    <3> QED
      BY <1>0, <2>2, <3>1 DEF Log, WorkerType
  <2>3. CASE wk' = wk
    BY <1>0, <2>3 DEF WorkerType
  <2> QED
    BY <1>4, <2>1, <2>2, <2>3
       DEF WorkerStep, Spawn, SpawnFails, PromptFails, Exit, Complete, Throw, Beat, Suggest, Phases
<1>5. CASE CrashRestart
  BY <1>5 DEF CrashRestart, WorkerType, Worker, Idle, Phases, IssueStates, Candidacy
<1> QED
  BY <1>1, <1>2, <1>3, <1>4, <1>5 DEF Next

LEMMA RestTypeStep ==
  ASSUME TypeOK, Next
  PROVE  RestType'
<1>0. RestType /\ WorkerType
  BY TypeParts
<1>1. ASSUME NEW o, Event(o)
      PROVE  ops' \in 0..MaxOps
  BY <1>0, <1>1, BoundsAssumption DEF Event, RestType
<1>2. CASE StartTick
  BY <1>0, <1>2 DEF StartTick, RestType
<1>3. ASSUME NEW i \in Issues, NEW s \in Slots, Claim(i, s)
      PROVE  RestType'
  BY <1>0, <1>3 DEF Claim, RestType
<1>4. ASSUME NEW i \in Issues, Defer(i) \/ Due(i) \/ Age(i) \/ OrphanExits(i) \/ Operator(i)
      PROVE  RestType'
  BY <1>0, <1>1, <1>4
     DEF Defer, Due, Age, OrphanExits, Operator, Retrigger, Resume, Pause, Cancel, Review, Put,
         RestType
<1>5. ASSUME NEW s \in Slots, WorkerStep(s) \/ Throw(s) \/ Beat(s) \/ Suggest(s)
      PROVE  RestType'
  <2>1. wk[s].issue \in Issues
    BY <1>0, <1>5, WorkerBusy, WorkerFields
  <2> QED
    BY <1>0, <1>1, <1>5, <2>1
       DEF WorkerStep, Throw, Beat, Suggest, Spawn, SpawnFails, PromptFails, Exit, Complete, Log,
           RestType
<1>6. CASE CrashRestart
  <2>1. orphans' \subseteq Issues
    BY <1>0, <1>6, WorkerFields DEF CrashRestart, LiveAgents, RestType
  <2> QED
    BY <1>0, <1>1, <1>6, <2>1 DEF CrashRestart, RestType
<1> QED
  BY <1>2, <1>3, <1>4, <1>5, <1>6 DEF Next

LEMMA TypeStep ==
  ASSUME TypeOK, [Next]_vars
  PROVE  TypeOK'
<1>1. CASE Next
  BY <1>1, StateTypeStep, RunTypeStep, WorkerTypeStep, RestTypeStep, TypeParts
     DEF TypeOK, StateType, RunType, WorkerType, RestType
<1>2. CASE UNCHANGED vars
  BY <1>2 DEF vars, TypeOK
<1> QED
  BY <1>1, <1>2

\* The values of every variable stay what they should be, whatever happens.
THEOREM TypeCorrect == Spec => []TypeOK
  BY TypeInit, TypeStep, PTL DEF Spec
------------------------------------------------------------------------------
(* A claim always has a worker. *)

AtWork == {"prep", "running", "post"}

\* Signals leave every worker where it is.
LEMMA SignalWorking ==
  ASSUME WorkerType, NEW agents, Signal(agents), NEW i \in Issues
  PROVE  Working(i)' = Working(i)
  BY SignalType DEF Working

\* No step but a claim puts a worker to work.
LEMMA WorkingShrinks ==
  ASSUME TypeOK, [Next]_vars, NEW i \in Issues, \A s \in Slots : ~Claim(i, s)
  PROVE  Working(i)' \subseteq Working(i)
<1>0. WorkerType
  BY TypeParts
<1>1. CASE StartTick
  BY <1>0, <1>1, SignalWorking DEF StartTick
<1>2. ASSUME NEW j \in Issues, NEW s \in Slots, Claim(j, s)
      PROVE  Working(i)' \subseteq Working(i)
  BY <1>0, <1>2 DEF Claim, Working, WorkerType
<1>3. ASSUME NEW j \in Issues, Defer(j) \/ Due(j) \/ Age(j) \/ OrphanExits(j) \/ Operator(j)
      PROVE  Working(i)' \subseteq Working(i)
  <2>1. CASE Cancel(j)
    BY <1>0, <2>1, SignalWorking DEF Cancel
  <2>2. CASE wk' = wk
    BY <2>2 DEF Working
  <2> QED
    BY <1>3, <2>1, <2>2
       DEF Defer, Due, Age, OrphanExits, Operator, Retrigger, Resume, Pause, Review, Put
<1>4. ASSUME NEW s \in Slots, WorkerStep(s) \/ Throw(s) \/ Beat(s) \/ Suggest(s)
      PROVE  Working(i)' \subseteq Working(i)
  <2>1. CASE wk[s].pc \in AtWork /\ \E pc \in Phases : wk' = [wk EXCEPT ![s].pc = pc]
    BY <1>0, <2>1 DEF AtWork, Working, WorkerType, Worker
  <2>2. CASE Log(s)
    BY <1>0, <2>2 DEF Log, Working, WorkerType, Idle
  <2>3. CASE wk' = wk
    BY <2>3 DEF Working
  <2> QED
    BY <1>4, <2>1, <2>2, <2>3
       DEF WorkerStep, Spawn, SpawnFails, PromptFails, Exit, Complete, Throw, Beat, Suggest,
           AtWork, Phases
<1>5. CASE CrashRestart
  BY <1>5 DEF CrashRestart, Working, Idle
<1>6. CASE UNCHANGED vars
  BY <1>6 DEF vars, Working
<1> QED
  BY <1>1, <1>2, <1>3, <1>4, <1>5, <1>6 DEF Next

\* The steps with which a worker stops working; each gives the claim up.
Stops(s) == PromptFails(s) \/ Complete(s) \/ Throw(s)

LEMMA StopsRelease ==
  ASSUME TypeOK, NEW s \in Slots, Stops(s)
  PROVE  /\ wk[s].issue \in Issues
         /\ s \in Working(wk[s].issue)
         /\ s \notin Working(wk[s].issue)'
         /\ run'[wk[s].issue].st # "claimed"
         /\ \A i \in Issues \ {wk[s].issue} : run'[i] = run[i] /\ Working(i)' = Working(i)
<1>0. RunType /\ WorkerType
  BY TypeParts
<1>1. wk[s].pc \in {"prep", "post"} /\ wk' = [wk EXCEPT ![s].pc = "logging"]
  BY DEF Stops, PromptFails, Complete, Throw
<1>2. wk[s].issue \in Issues
  BY <1>0, <1>1 DEF WorkerType
<1>3. /\ s \in Working(wk[s].issue) /\ s \notin Working(wk[s].issue)'
      /\ \A i \in Issues \ {wk[s].issue} : Working(i)' = Working(i)
  BY <1>0, <1>1, <1>2 DEF Working, WorkerType, Worker
<1>4. run'[wk[s].issue].st # "claimed" /\ \A i \in Issues \ {wk[s].issue} : run'[i] = run[i]
  <2>1. CASE PromptFails(s)
    BY <1>0, <1>2, <2>1 DEF PromptFails, RunType, Run
  <2>2. CASE Complete(s)
    <3>1. PICK o \in Outcomes :
            run' = [run EXCEPT ![wk[s].issue] =
                      Settled(wk[s].issue, o, wk[s].attempt, wk[s].snap)]
      BY <2>2 DEF Complete
    <3>2. run[wk[s].issue] \in Run
      BY <1>0, <1>2 DEF RunType
    <3>3. Settled(wk[s].issue, o, wk[s].attempt, wk[s].snap).st # "claimed"
      BY <3>2 DEF Settled, Run
    <3> QED
      BY <1>0, <1>2, <3>1, <3>3 DEF RunType
  <2>3. CASE Throw(s)
    BY <1>0, <1>2, <2>3 DEF Throw, RunType, Run
  <2> QED
    BY <2>1, <2>2, <2>3 DEF Stops
<1> QED
  BY <1>2, <1>3, <1>4

LEMMA NoRunsAtFirst ==
  ASSUME Init, NEW i \in Issues
  PROVE  run[i].st = "none"
<1> DEFINE row == [st |-> "none", next |-> 0, lis |-> "", due |-> FALSE, fresh |-> FALSE,
                   pid |-> None, cur |-> -1]
<1>1. run = [j \in Issues |-> row]
  BY DEF Init
<1>2. row.st = "none"
  OBVIOUS
<1> HIDE DEF row
<1> QED
  BY <1>1, <1>2

LEMMA ClaimHasWorkerStep ==
  ASSUME TypeOK, ClaimHasWorker, [Next]_vars
  PROVE  ClaimHasWorker'
<1>0. RunType /\ WorkerType
  BY TypeParts
<1> SUFFICES ASSUME NEW i \in Issues, run'[i].st = "claimed"
             PROVE  Working(i)' # {}
  BY DEF ClaimHasWorker
<1>1. ASSUME run[i].st = "claimed", Working(i) \subseteq Working(i)'
      PROVE  Working(i)' # {}
  BY <1>1 DEF ClaimHasWorker
<1>2. CASE StartTick
  <2>1. run[i].st = "claimed"
    BY <1>0, <1>2 DEF StartTick, RunType, Run
  <2> QED
    BY <1>0, <1>1, <1>2, <2>1, SignalWorking DEF StartTick
<1>3. ASSUME NEW j \in Issues, NEW s \in Slots, Claim(j, s)
      PROVE  Working(i)' # {}
  <2>1. CASE i = j
    <3>1. s \in Working(i)'
      BY <1>0, <1>3, <2>1 DEF Claim, Working, WorkerType
    <3> QED
      BY <3>1
  <2>2. CASE i # j
    <3>1. run[i].st = "claimed"
      BY <1>0, <1>3, <2>2 DEF Claim, RunType
    <3>2. Working(i) \subseteq Working(i)'
      BY <1>0, <1>3 DEF Claim, Free, Working, WorkerType
    <3> QED
      BY <1>1, <3>1, <3>2
  <2> QED
    BY <2>1, <2>2
<1>4. ASSUME NEW s \in Slots, Stops(s)
      PROVE  Working(i)' # {}
  BY <1>1, <1>4, StopsRelease
<1>5. ASSUME NEW s \in Slots, Spawn(s) \/ SpawnFails(s) \/ Exit(s) \/ Beat(s) \/ Suggest(s) \/ Log(s)
      PROVE  Working(i)' # {}
  <2>0. wk[s].issue \in Issues
    BY <1>0, <1>5 DEF WorkerType, Spawn, SpawnFails, Exit, Beat, Suggest, Log
  <2>1. run[i].st = "claimed"
    <3>1. CASE Spawn(s)
      BY <1>0, <2>0, <3>1 DEF Spawn, RunType, Run
    <3>2. CASE SpawnFails(s)
      BY <1>0, <2>0, <3>2 DEF SpawnFails, RunType, Run
    <3>3. CASE Exit(s)
      BY <1>0, <2>0, <3>3 DEF Exit, RunType, Run
    <3>4. CASE Beat(s)
      BY <1>0, <2>0, <3>4 DEF Beat, RunType, Run
    <3> QED
      BY <1>5, <3>1, <3>2, <3>3, <3>4 DEF Suggest, Log
  <2>2. Working(i) \subseteq Working(i)'
    BY <1>0, <1>5 DEF Spawn, SpawnFails, Exit, Beat, Suggest, Log, Working, WorkerType, Worker
  <2> QED
    BY <1>1, <2>1, <2>2
<1>6. ASSUME NEW j \in Issues, Defer(j) \/ Due(j) \/ Age(j) \/ OrphanExits(j) \/ Operator(j)
      PROVE  Working(i)' # {}
  <2>1. run[i].st = "claimed"
    <3>1. CASE run' = run
      BY <3>1
    <3>2. CASE Due(j) \/ Age(j)
      BY <1>0, <3>2 DEF Due, Age, RunType, Run
    <3>3. CASE Resume(j) \/ Pause(j) \/ Cancel(j)
      BY <1>0, <3>3 DEF Resume, Pause, Cancel, Released, RunType, Run
    <3>4. CASE Retrigger(j)
      BY <1>0, <3>4 DEF Retrigger, RunType, Run
    <3>5. CASE Review(j)
      <4>1. PICK st \in {"done", "todo"} :
              run' = run \/ run' = [run EXCEPT ![j].lis = st]
        BY <3>5 DEF Review
      <4>2. CASE run' = [run EXCEPT ![j].lis = st]
        BY <1>0, <4>2 DEF RunType, Run
      <4> QED
        BY <4>1, <4>2
    <3> QED
      BY <1>6, <3>1, <3>2, <3>3, <3>4, <3>5 DEF Defer, OrphanExits, Operator, Put
  <2>2. Working(i) \subseteq Working(i)'
    <3>1. CASE Cancel(j)
      BY <1>0, <3>1, SignalWorking DEF Cancel
    <3>2. CASE wk' = wk
      BY <3>2 DEF Working
    <3> QED
      BY <1>6, <3>1, <3>2
         DEF Defer, Due, Age, OrphanExits, Operator, Retrigger, Resume, Pause, Review, Put
  <2> QED
    BY <1>1, <2>1, <2>2
<1>7. CASE CrashRestart
  BY <1>0, <1>7 DEF CrashRestart, RunType, Run
<1>8. CASE UNCHANGED vars
  BY <1>1, <1>8 DEF vars, Working
<1> QED
  BY <1>2, <1>3, <1>4, <1>5, <1>6, <1>7, <1>8 DEF Next, WorkerStep, Stops

\* Whatever operators, agents, crashes and zombie workers do, a claimed run has
\* a worker that has still to complete: no claim is stuck.
THEOREM ClaimHasWorkerTheorem == Spec => []ClaimHasWorker
<1>1. Init => TypeOK /\ ClaimHasWorker
  BY TypeInit, NoRunsAtFirst DEF ClaimHasWorker
<1>2. TypeOK /\ ClaimHasWorker /\ [Next]_vars => (TypeOK /\ ClaimHasWorker)'
  BY TypeStep, ClaimHasWorkerStep
<1> QED
  BY <1>1, <1>2, PTL DEF Spec
------------------------------------------------------------------------------
(* One worker per issue, one issue per workspace, as long as no request     *)
(* releases a claim and no worker outlasts the heartbeat timeout.           *)

ClaimsKept == Ops \cap {"retrigger", "resume"} = {} /\ StalePhases = {}

\* No claim is stale, so that ticks release none.
NeverStale == \A i \in Issues : run[i].st = "claimed" => run[i].fresh

\* SoleWriter alone is not inductive: a claim needs to know that a run that can
\* be claimed has no worker, and a tick that it finds no stale run.
SoleInv ==
  /\ TypeOK
  /\ ClaimHasWorker
  /\ NeverStale
  /\ WorkerHoldsRun
  /\ SoleWriter
  /\ WorkspaceExclusive

Held == {"claimed", "paused", "cancelled"}

\* WorkerHoldsRun, by issue.
LEMMA HeldByIssue ==
  ASSUME WorkerType
  PROVE  WorkerHoldsRun <=> \A i \in Issues : Working(i) # {} => run[i].st \in Held
  BY DEF WorkerHoldsRun, Working, WorkerType, Held

LEMMA NeverStaleStep ==
  ASSUME TypeOK, ClaimHasWorker, NeverStale, ClaimsKept, [Next]_vars
  PROVE  NeverStale'
<1>0. RunType /\ WorkerType
  BY TypeParts
<1> SUFFICES ASSUME NEW i \in Issues, run'[i].st = "claimed"
             PROVE  run'[i].fresh
  BY DEF NeverStale
<1>1. ASSUME run[i].st = "claimed", run'[i].fresh = run[i].fresh
      PROVE  run'[i].fresh
  BY <1>1 DEF NeverStale
<1>2. CASE StartTick
  BY <1>0, <1>1, <1>2 DEF StartTick, RunType, Run
<1>3. ASSUME NEW j \in Issues, NEW s \in Slots, Claim(j, s)
      PROVE  run'[i].fresh
  <2>1. CASE i = j
    BY <1>0, <1>3, <2>1 DEF Claim, RunType, Run
  <2>2. CASE i # j
    BY <1>0, <1>1, <1>3, <2>2 DEF Claim, RunType
  <2> QED
    BY <2>1, <2>2
<1>4. ASSUME NEW s \in Slots, Stops(s)
      PROVE  run'[i].fresh
  BY <1>1, <1>4, StopsRelease
<1>5. ASSUME NEW s \in Slots, Spawn(s) \/ SpawnFails(s) \/ Exit(s) \/ Beat(s) \/ Suggest(s) \/ Log(s)
      PROVE  run'[i].fresh
  <2>0. wk[s].issue \in Issues
    BY <1>0, <1>5 DEF WorkerType, Spawn, SpawnFails, Exit, Beat, Suggest, Log
  <2>1. CASE Spawn(s)
    BY <1>0, <1>1, <2>0, <2>1 DEF Spawn, RunType, Run
  <2>2. CASE SpawnFails(s)
    BY <1>0, <1>1, <2>0, <2>2 DEF SpawnFails, RunType, Run
  <2>3. CASE Exit(s)
    BY <1>0, <1>1, <2>0, <2>3 DEF Exit, RunType, Run
  <2>4. CASE Beat(s)
    BY <1>0, <1>1, <2>0, <2>4 DEF Beat, RunType, Run
  <2> QED
    BY <1>1, <1>5, <2>1, <2>2, <2>3, <2>4 DEF Suggest, Log
<1>6. ASSUME NEW j \in Issues, Defer(j) \/ Due(j) \/ Age(j) \/ OrphanExits(j) \/ Operator(j)
      PROVE  run'[i].fresh
  <2>1. CASE run' = run
    BY <1>1, <2>1
  <2>2. CASE Due(j)
    BY <1>0, <1>1, <2>2 DEF Due, RunType, Run
  <2>3. ~Age(j)
    <3>1. Age(j) => Working(j) # {}
      BY DEF Age, ClaimHasWorker
    <3> QED
      BY <3>1 DEF Age, ClaimsKept, Working
  <2>4. CASE Resume(j) \/ Pause(j) \/ Cancel(j)
    BY <1>0, <1>1, <2>4 DEF Resume, Pause, Cancel, Released, RunType, Run
  <2>5. CASE Review(j)
    <3>1. PICK st \in {"done", "todo"} :
            run' = run \/ run' = [run EXCEPT ![j].lis = st]
      BY <2>5 DEF Review
    <3>2. CASE run' = [run EXCEPT ![j].lis = st]
      BY <1>0, <1>1, <3>2 DEF RunType, Run
    <3> QED
      BY <1>1, <3>1, <3>2
  <2>6. ~Retrigger(j)
    BY DEF Retrigger, Event, ClaimsKept
  <2> QED
    BY <1>6, <2>1, <2>2, <2>3, <2>4, <2>5, <2>6 DEF Defer, OrphanExits, Operator, Put
<1>7. CASE CrashRestart
  BY <1>0, <1>7 DEF CrashRestart, RunType, Run
<1>8. CASE UNCHANGED vars
  BY <1>1, <1>8 DEF vars
<1> QED
  BY <1>2, <1>3, <1>4, <1>5, <1>6, <1>7, <1>8 DEF Next, WorkerStep, Stops

\* A step that is no claim keeps the hold of a run whose worker goes on.
LEMMA HoldKept ==
  ASSUME SoleInv, ClaimsKept, [Next]_vars, NEW i \in Issues,
         \A s \in Slots : ~Claim(i, s), Working(i)' # {}
  PROVE  run'[i].st \in Held
<1>0. TypeOK /\ RunType /\ WorkerType
  BY TypeParts DEF SoleInv
<1>1. Working(i)' \subseteq Working(i)
  BY <1>0, WorkingShrinks
<1>2. Working(i) # {} /\ run[i].st \in Held
  BY <1>0, <1>1, HeldByIssue DEF SoleInv
<1>3. CASE StartTick
  <2>1. i \notin Stale
    BY DEF Stale, SoleInv, NeverStale
  <2> QED
    BY <1>2, <1>3, <2>1 DEF StartTick
<1>4. ASSUME NEW j \in Issues, NEW s \in Slots, Claim(j, s)
      PROVE  run'[i].st \in Held
  BY <1>0, <1>2, <1>4 DEF Claim, RunType
<1>5. ASSUME NEW s \in Slots, Stops(s)
      PROVE  run'[i].st \in Held
  <2>1. CASE wk[s].issue = i
    <3>0. s \in Working(i)
      BY <1>0, <1>5, <2>1, StopsRelease
    <3>1. s \in Working(i) /\ s \notin Working(i)'
      <4>1. wk' = [wk EXCEPT ![s].pc = "logging"]
        BY <1>5 DEF Stops, PromptFails, Complete, Throw
      <4>2. wk'[s].pc = "logging"
        BY <1>0, <4>1 DEF WorkerType, Worker
      <4> QED
        BY <3>0, <4>2 DEF Working
    <3>2. PICK t \in Working(i)' : TRUE
      OBVIOUS
    <3>3. t \in Working(i)
      BY <1>1, <3>2
    <3>4. t = s
      BY <3>1, <3>3 DEF SoleInv, SoleWriter
    <3> QED
      BY <3>1, <3>2, <3>4
  <2>2. CASE wk[s].issue # i
    BY <1>0, <1>2, <1>5, <2>2, StopsRelease
  <2> QED
    BY <2>1, <2>2
<1>6. ASSUME NEW s \in Slots, Spawn(s) \/ SpawnFails(s) \/ Exit(s) \/ Beat(s) \/ Suggest(s) \/ Log(s)
      PROVE  run'[i].st \in Held
  <2>0. wk[s].issue \in Issues
    BY <1>0, <1>6 DEF WorkerType, Spawn, SpawnFails, Exit, Beat, Suggest, Log
  <2>1. run'[i].st = run[i].st
    <3>1. CASE Spawn(s)
      BY <1>0, <2>0, <3>1 DEF Spawn, RunType, Run
    <3>2. CASE SpawnFails(s)
      BY <1>0, <2>0, <3>2 DEF SpawnFails, RunType, Run
    <3>3. CASE Exit(s)
      BY <1>0, <2>0, <3>3 DEF Exit, RunType, Run
    <3>4. CASE Beat(s)
      BY <1>0, <2>0, <3>4 DEF Beat, RunType, Run
    <3> QED
      BY <1>6, <3>1, <3>2, <3>3, <3>4 DEF Suggest, Log
  <2> QED
    BY <1>2, <2>1
<1>7. ASSUME NEW j \in Issues, Defer(j) \/ Due(j) \/ Age(j) \/ OrphanExits(j) \/ Operator(j)
      PROVE  run'[i].st \in Held
  <2>1. CASE run' = run
    BY <1>2, <2>1
  <2>2. CASE Due(j) \/ Age(j)
    BY <1>0, <1>2, <2>2 DEF Due, Age, RunType, Run
  <2>3. CASE Pause(j) \/ Cancel(j)
    BY <1>0, <1>2, <2>3 DEF Pause, Cancel, Released, RunType, Run, Held
  <2>4. CASE Review(j)
    <3>1. PICK st \in {"done", "todo"} :
            run' = run \/ run' = [run EXCEPT ![j].lis = st]
      BY <2>4 DEF Review
    <3>2. CASE run' = [run EXCEPT ![j].lis = st]
      BY <1>0, <1>2, <3>2 DEF RunType, Run
    <3> QED
      BY <1>2, <3>1, <3>2
  <2>5. ~Retrigger(j) /\ ~Resume(j)
    BY DEF Retrigger, Resume, Event, ClaimsKept
  <2> QED
    BY <1>7, <2>1, <2>2, <2>3, <2>4, <2>5 DEF Defer, OrphanExits, Operator, Put
<1>8. CASE CrashRestart
  <2>1. Working(i)' = {}
    BY <1>8 DEF CrashRestart, Working, Idle
  <2> QED
    BY <2>1
<1>9. CASE UNCHANGED vars
  BY <1>2, <1>9 DEF vars
<1> QED
  BY <1>3, <1>4, <1>5, <1>6, <1>7, <1>8, <1>9 DEF Next, WorkerStep, Stops

\* A claim finds the issue without a worker, and no other issue at work in its
\* workspace.
LEMMA ClaimAlone ==
  ASSUME SoleInv, NEW i \in Issues, NEW s \in Slots, Claim(i, s)
  PROVE  /\ Working(i)' = {s}
         /\ run'[i].st = "claimed"
         /\ \A j \in Issues : j # i /\ Override[i] = Override[j] /\ Override[i] # NoPath
              => Working(j)' = {}
<1>0. TypeOK /\ RunType /\ WorkerType
  BY TypeParts DEF SoleInv
<1>1. run[i].st \notin Held /\ Working(i) = {}
  <2>1. run[i].st \notin Held
    BY DEF Claim, Held
  <2> QED
    BY <1>0, <2>1, HeldByIssue DEF SoleInv
<1>2. /\ s \in Slots /\ wk[s].pc = "idle"
      /\ wk'[s].pc = "prep" /\ wk'[s].issue = i
      /\ \A t \in Slots \ {s} : wk'[t] = wk[t]
  BY <1>0 DEF Claim, Free, WorkerType
<1>3. Working(i)' = {s}
  BY <1>1, <1>2 DEF Working
<1>4. run'[i].st = "claimed"
  BY <1>0 DEF Claim, RunType, Run
<1>5. ASSUME NEW j \in Issues, j # i, Override[i] = Override[j], Override[i] # NoPath
      PROVE  Working(j)' = {}
  <2>1. run[j].st \in {"none", "released"}
    BY <1>5 DEF Claim, Conflict
  <2>2. Working(j) = {}
    BY <1>0, <2>1, HeldByIssue DEF SoleInv, Held
  <2> QED
    BY <1>2, <1>5, <2>2 DEF Working
<1> QED
  BY <1>3, <1>4, <1>5

LEMMA SoleInvStep ==
  ASSUME SoleInv, ClaimsKept, [Next]_vars
  PROVE  SoleInv'
<1>0. TypeOK /\ WorkerType /\ TypeOK' /\ WorkerType'
  BY TypeStep, TypeParts DEF SoleInv, TypeOK, WorkerType
<1>1. ClaimHasWorker' /\ NeverStale'
  BY ClaimHasWorkerStep, NeverStaleStep DEF SoleInv
<1>2. ASSUME NEW i \in Issues, \A s \in Slots : ~Claim(i, s)
      PROVE  Working(i)' \subseteq Working(i)
  BY <1>0, <1>2, WorkingShrinks
<1>3. WorkerHoldsRun'
  <2>1. ASSUME NEW i \in Issues, Working(i)' # {}
        PROVE  run'[i].st \in Held
    <3>1. CASE \E s \in Slots : Claim(i, s)
      BY <3>1, ClaimAlone DEF Held
    <3>2. CASE \A s \in Slots : ~Claim(i, s)
      BY <2>1, <3>2, HoldKept
    <3> QED
      BY <3>1, <3>2
  <2> QED
    BY <1>0, <2>1 DEF WorkerHoldsRun, Working, WorkerType, Held
<1>4. SoleWriter'
  <2> SUFFICES ASSUME NEW i \in Issues
               PROVE  \A s, t \in Working(i)' : s = t
    BY DEF SoleWriter
  <2>1. CASE \E s \in Slots : Claim(i, s)
    BY <2>1, ClaimAlone
  <2>2. CASE \A s \in Slots : ~Claim(i, s)
    BY <1>2, <2>2 DEF SoleInv, SoleWriter
  <2> QED
    BY <2>1, <2>2
<1>5. WorkspaceExclusive'
  <2> SUFFICES ASSUME NEW i \in Issues, NEW j \in Issues,
                      i # j, Override[i] = Override[j], Override[i] # NoPath
               PROVE  Working(i)' = {} \/ Working(j)' = {}
    BY DEF WorkspaceExclusive
  <2>1. CASE \E s \in Slots : Claim(i, s) \/ Claim(j, s)
    BY <2>1, ClaimAlone
  <2>2. CASE \A s \in Slots : ~Claim(i, s) /\ ~Claim(j, s)
    <3>1. Working(i) = {} \/ Working(j) = {}
      BY DEF SoleInv, WorkspaceExclusive
    <3> QED
      BY <1>2, <2>2, <3>1
  <2> QED
    BY <2>1, <2>2
<1> QED
  BY <1>0, <1>1, <1>3, <1>4, <1>5 DEF SoleInv

LEMMA SoleInvInit ==
  ASSUME Init
  PROVE  SoleInv
<1>1. \A i \in Issues : Working(i) = {}
  BY DEF Init, Working, Idle
<1>2. WorkerHoldsRun
  BY <1>1, TypeInit, TypeParts, HeldByIssue
<1> QED
  BY <1>1, <1>2, TypeInit, NoRunsAtFirst
     DEF SoleInv, ClaimHasWorker, NeverStale, SoleWriter, WorkspaceExclusive

LEMMA SoleInductive ==
  ASSUME ClaimsKept
  PROVE  Spec => []SoleInv
<1>1. Init => SoleInv
  BY SoleInvInit
<1>2. SoleInv /\ [Next]_vars => SoleInv'
  BY SoleInvStep
<1> QED
  BY <1>1, <1>2, PTL DEF Spec

\* ADR 003's single writer per issue holds as long as nobody retriggers, resumes
\* or "/approve"s a claimed run and no worker outlasts the heartbeat timeout.
THEOREM SoleWriterTheorem ==
  ASSUME ClaimsKept
  PROVE  Spec => []SoleWriter
<1>1. SoleInv => SoleWriter
  BY DEF SoleInv
<1> QED
  BY <1>1, SoleInductive, PTL

\* Under the same premise the conflict check in the claim transaction keeps the
\* issues of one external workspace apart, crashes and operators included.
THEOREM WorkspaceExclusiveTheorem ==
  ASSUME ClaimsKept
  PROVE  Spec => []WorkspaceExclusive
<1>1. SoleInv => WorkspaceExclusive
  BY DEF SoleInv
<1> QED
  BY <1>1, SoleInductive, PTL
------------------------------------------------------------------------------
(* The dispatch implements the lease. *)

\* The attempt of a worker is the last one granted for its issue.
AttemptsCurrent ==
  \A i \in Issues : \A s \in Working(i) : wk[s].attempt = run[i].next

\* What the step-by-step refinement of IssueLease rests on.
LeaseInv == SoleInv /\ AttemptsCurrent

\* A step that neither claims an issue nor ends its worker leaves its row alone, and
\* its state, but for a worker that writes down a role; unless it is an event, which
\* may park the run, or give the claim up in a crash.
Quiet(i) ==
  /\ run'[i].st = run[i].st /\ run'[i].lis = run[i].lis
  /\ state'[i] = state[i] \/ \E s \in Working(i) : state'[i] = wk[s].snap
  /\ ops' = ops

Eventful(i) ==
  /\ ops' = ops + 1
  /\ \/ run'[i].st = run[i].st
     \/ CrashRestart /\ run[i].st = "claimed" /\ run'[i].st = "released"
     \/ (Pause(i) \/ Cancel(i)) /\ run[i].st # "none" /\ run'[i].st \in {"paused", "cancelled"}

LEMMA RowKept ==
  ASSUME SoleInv, ClaimsKept, [Next]_vars, NEW i \in Issues,
         \A s \in Slots : ~Claim(i, s) /\ (Stops(s) => wk[s].issue # i)
  PROVE  run'[i].next = run[i].next /\ (Quiet(i) \/ Eventful(i))
<1>0. RunType /\ WorkerType /\ StateType
  BY TypeParts DEF SoleInv
<1> USE <1>0
<1>2. CASE StartTick
  <2>1. i \notin Stale
    BY DEF Stale, SoleInv, NeverStale
  <2>2. run'[i] = run[i]
    BY <1>2, <2>1 DEF StartTick
  <2>3. state'[i] = state[i] /\ ops' = ops
    BY <1>2, <2>1 DEF StartTick
  <2> QED
    BY <2>2, <2>3 DEF Quiet
<1>3. ASSUME NEW j \in Issues, NEW s \in Slots, Claim(j, s)
      PROVE  run'[i].next = run[i].next /\ Quiet(i)
  BY <1>3 DEF Claim, RunType, Quiet
<1>4. ASSUME NEW s \in Slots, Stops(s)
      PROVE  run'[i].next = run[i].next /\ (Quiet(i) \/ Eventful(i))
  <2>1. wk[s].issue \in Issues \ {i} /\ run'[i] = run[i]
    BY <1>4, StopsRelease DEF SoleInv
  <2>2. CASE PromptFails(s)
    BY <2>1, <2>2 DEF PromptFails, Quiet
  <2>3. CASE Complete(s)
    <3>1. state'[i] = state[i] /\ ops' = ops
      BY <2>1, <2>3 DEF Complete, UpdateIssueState, StateType
    <3> QED
      BY <2>1, <3>1 DEF Quiet
  <2>4. CASE Throw(s)
    BY <2>1, <2>4 DEF Throw, Event, Eventful
  <2> QED
    BY <1>4, <2>2, <2>3, <2>4 DEF Stops
<1>5. ASSUME NEW s \in Slots, Spawn(s) \/ SpawnFails(s) \/ Exit(s) \/ Beat(s) \/ Log(s)
      PROVE  run'[i].next = run[i].next /\ Quiet(i)
  <2>0. wk[s].issue \in Issues
    BY <1>5 DEF WorkerType, Spawn, SpawnFails, Exit, Beat, Log
  <2>1. CASE Spawn(s) \/ SpawnFails(s)
    <3>1. /\ run'[i].st = run[i].st /\ run'[i].lis = run[i].lis
          /\ run'[i].next = run[i].next
      <4>1. CASE Spawn(s)
        BY <2>0, <4>1 DEF Spawn, RunType, Run
      <4>2. CASE SpawnFails(s)
        BY <2>0, <4>2 DEF SpawnFails, RunType, Run
      <4> QED
        BY <2>1, <4>1, <4>2
    <3>2. AssignRole(s) /\ ops' = ops /\ s \in Working(wk[s].issue)
      BY <2>1 DEF Spawn, SpawnFails, Working
    <3>3. state'[i] = state[i] \/ (wk[s].issue = i /\ state'[i] = wk[s].snap)
      BY <2>0, <3>2 DEF AssignRole, StateType
    <3> QED
      BY <3>1, <3>2, <3>3 DEF Quiet
  <2>3. CASE Exit(s)
    BY <2>0, <2>3 DEF Exit, RunType, Run, Quiet
  <2>4. CASE Beat(s)
    BY <2>0, <2>4 DEF Beat, RunType, Run, Quiet
  <2>5. CASE Log(s)
    BY <2>5 DEF Log, Quiet
  <2> QED
    BY <1>5, <2>1, <2>3, <2>4, <2>5
<1>6. ASSUME NEW s \in Slots, Suggest(s)
      PROVE  run'[i].next = run[i].next /\ Eventful(i)
  BY <1>6 DEF Suggest, Event, Eventful
<1>7. ASSUME NEW j \in Issues, Defer(j) \/ Due(j) \/ OrphanExits(j)
      PROVE  run'[i].next = run[i].next /\ Quiet(i)
  <2>1. CASE run' = run
    BY <1>7, <2>1 DEF Defer, Due, OrphanExits, Quiet
  <2>2. CASE Due(j)
    BY <2>2 DEF Due, RunType, Run, Quiet
  <2> QED
    BY <1>7, <2>1, <2>2 DEF Defer, OrphanExits
<1>8. ASSUME NEW j \in Issues, Age(j) \/ Operator(j)
      PROVE  run'[i].next = run[i].next /\ Eventful(i)
  <2>0. ops' = ops + 1
    BY <1>8 DEF Age, Operator, Retrigger, Resume, Pause, Cancel, Review, Put, Event
  <2>1. CASE run' = run
    BY <2>0, <2>1 DEF Eventful
  <2>2. CASE Age(j)
    BY <2>0, <2>2 DEF Age, RunType, Run, Eventful
  <2>3. CASE Pause(j) \/ Cancel(j)
    <3>1. CASE i = j
      BY <2>0, <2>3, <3>1 DEF Pause, Cancel, Released, RunType, Run, Eventful
    <3>2. CASE i # j
      BY <2>0, <2>3, <3>2 DEF Pause, Cancel, Released, RunType, Eventful
    <3> QED
      BY <3>1, <3>2
  <2>4. CASE Review(j)
    <3>1. PICK st \in {"done", "todo"} :
            run' = run \/ run' = [run EXCEPT ![j].lis = st]
      BY <2>4 DEF Review
    <3>2. CASE run' = [run EXCEPT ![j].lis = st]
      BY <2>0, <3>2 DEF RunType, Run, Eventful
    <3> QED
      BY <2>1, <3>1, <3>2
  <2>5. ~Retrigger(j) /\ ~Resume(j)
    BY DEF Retrigger, Resume, Event, ClaimsKept
  <2> QED
    BY <1>8, <2>1, <2>2, <2>3, <2>4, <2>5 DEF Operator, Put
<1>9. CASE CrashRestart
  <2>1. /\ ops' = ops + 1
        /\ run'[i].next = run[i].next
        /\ run'[i].st = IF run[i].st = "claimed" THEN "released" ELSE run[i].st
    BY <1>9 DEF CrashRestart, Event, RunType, Run
  <2> QED
    BY <1>9, <2>1 DEF Eventful
<1>10. CASE UNCHANGED vars
  BY <1>10 DEF vars, Quiet
<1> QED
  BY <1>2, <1>3, <1>4, <1>5, <1>6, <1>7, <1>8, <1>9, <1>10 DEF Next, WorkerStep, Stops

\* A worker that goes on keeps what it was given at the claim.
LEMMA WorkerKept ==
  ASSUME TypeOK, [Next]_vars, NEW i \in Issues, \A s \in Slots : ~Claim(i, s),
         NEW s \in Working(i)'
  PROVE  s \in Working(i) /\ wk'[s].attempt = wk[s].attempt /\ wk'[s].snap = wk[s].snap
<1>0. WorkerType
  BY TypeParts
<1>1. s \in Working(i) /\ s \in Slots
  BY WorkingShrinks DEF Working
<1>2. ASSUME NEW agents, Signal(agents)
      PROVE  wk'[s].attempt = wk[s].attempt /\ wk'[s].snap = wk[s].snap
  BY <1>0, <1>1, <1>2 DEF Signal, WorkerType, Worker
<1>3. ASSUME NEW j \in Issues, NEW t \in Slots, Claim(j, t)
      PROVE  wk'[s] = wk[s]
  BY <1>0, <1>1, <1>3 DEF Claim, Free, Working, WorkerType
<1>4. ASSUME NEW j \in Issues, Defer(j) \/ Due(j) \/ Age(j) \/ OrphanExits(j) \/ Operator(j)
      PROVE  wk' = wk \/ Signal({j})
  BY <1>4 DEF Defer, Due, Age, OrphanExits, Operator, Retrigger, Resume, Pause, Cancel, Review, Put
<1>5. ASSUME NEW t \in Slots, WorkerStep(t) \/ Throw(t) \/ Beat(t) \/ Suggest(t)
      PROVE  wk'[s].attempt = wk[s].attempt /\ wk'[s].snap = wk[s].snap
  <2>1. wk' = wk \/ (\E pc \in Phases : wk' = [wk EXCEPT ![t].pc = pc]) \/ Log(t)
    BY <1>5 DEF WorkerStep, Spawn, SpawnFails, PromptFails, Exit, Complete, Throw, Beat, Suggest,
                Phases
  <2>2. CASE Log(t)
    <3>1. s # t
      BY <1>1, <2>2 DEF Log, Working
    <3> QED
      BY <1>0, <1>1, <2>2, <3>1 DEF Log, WorkerType
  <2>3. ASSUME NEW pc \in Phases, wk' = [wk EXCEPT ![t].pc = pc]
        PROVE  wk'[s].attempt = wk[s].attempt /\ wk'[s].snap = wk[s].snap
    BY <1>0, <1>1, <2>3 DEF WorkerType, Worker
  <2> QED
    BY <2>1, <2>2, <2>3
<1>6. CASE CrashRestart
  <2>1. wk'[s].pc = "idle"
    BY <1>1, <1>6 DEF CrashRestart, Idle
  <2> QED
    BY <2>1 DEF Working
<1>7. CASE UNCHANGED vars
  BY <1>1, <1>7 DEF vars
<1>8. CASE StartTick
  BY <1>0, <1>1, <1>8 DEF StartTick, Signal, WorkerType, Worker
<1> QED
  BY <1>1, <1>2, <1>3, <1>4, <1>5, <1>6, <1>7, <1>8 DEF Next

\* A worker that stops leaves the number of its grant behind, a retry included.
LEMMA StopsReturn ==
  ASSUME LeaseInv, NEW s \in Slots, Stops(s), NEW i \in Issues, wk[s].issue = i
  PROVE  /\ s \in Working(i)
         /\ Working(i)' = Working(i) \ {s}
         /\ LastGrant(i)' = LastGrant(i)
<1>0. RunType /\ WorkerType
  BY TypeParts DEF LeaseInv, SoleInv
<1>1. s \in Working(i) /\ wk[s].attempt = run[i].next
  <2>1. s \in Working(i)
    BY <1>0, StopsRelease DEF LeaseInv, SoleInv
  <2> QED
    BY <2>1 DEF LeaseInv, AttemptsCurrent
<1>2. wk' = [wk EXCEPT ![s].pc = "logging"]
  BY DEF Stops, PromptFails, Complete, Throw
<1>3. Working(i)' = Working(i) \ {s}
  BY <1>0, <1>1, <1>2 DEF Working, WorkerType, Worker
<1> SUFFICES LastGrant(i)' = LastGrant(i)
  BY <1>1, <1>3
<1>4. run[i].st \in Held /\ run[i] \in Run
  BY <1>0, <1>1, HeldByIssue DEF LeaseInv, SoleInv, RunType
<1>5. LastGrant(i) = run[i].next
  BY <1>4 DEF LastGrant, Held
<1>6. ASSUME run'[i].next = run[i].next, run'[i].st \in {"in_review", "released"} \cup Held
      PROVE  LastGrant(i)' = LastGrant(i)
  BY <1>5, <1>6 DEF LastGrant, Held
<1>7. CASE PromptFails(s)
  BY <1>0, <1>1, <1>6, <1>7 DEF PromptFails, RunType, Run
<1>8. CASE Throw(s)
  BY <1>0, <1>1, <1>4, <1>6, <1>8 DEF Throw, RunType, Run
<1>9. CASE Complete(s)
  <2>1. PICK o \in Outcomes :
          run' = [run EXCEPT ![i] = Settled(i, o, wk[s].attempt, wk[s].snap)]
    BY <1>9 DEF Complete
  <2>2. run'[i] = Settled(i, o, wk[s].attempt, wk[s].snap)
    BY <1>0, <1>1, <2>1 DEF RunType
  <2>3. CASE o = "retry"
    <3>1. run'[i].st = "retry_queued" /\ run'[i].next = run[i].next + 1
      <4> DEFINE row == [run[i] EXCEPT !.st = "retry_queued", !.next = wk[s].attempt + 1,
                                       !.due = FALSE]
      <4>1. run'[i] = row
        BY <2>2, <2>3 DEF Settled
      <4>2. row.st = "retry_queued" /\ row.next = wk[s].attempt + 1
        BY <1>4 DEF Run
      <4>3. wk[s].attempt = run[i].next
        BY <1>1
      <4> QED
        BY <4>1, <4>2, <4>3
    <3>2. LastGrant(i)' = run'[i].next - 1
      BY <3>1 DEF LastGrant
    <3>3. run[i].next \in Nat
      BY <1>4 DEF Run
    <3> QED
      BY <1>5, <3>1, <3>2, <3>3
  <2>4. CASE o # "retry"
    <3>1. run'[i].st \in {"in_review", "released"} /\ run'[i].next = run[i].next
      BY <1>4, <2>2, <2>4 DEF Settled, Run
    <3> QED
      BY <1>6, <3>1
  <2> QED
    BY <2>3, <2>4
<1> QED
  BY <1>7, <1>8, <1>9 DEF Stops

\* Only a claim, or the completion of the one worker, moves the attempt of a run.
LEMMA AttemptsCurrentStep ==
  ASSUME LeaseInv, ClaimsKept, [Next]_vars
  PROVE  AttemptsCurrent'
<1>0. SoleInv /\ TypeOK /\ RunType /\ WorkerType
  BY TypeParts DEF LeaseInv, SoleInv
<1> SUFFICES ASSUME NEW i \in Issues, NEW s \in Working(i)'
             PROVE  wk'[s].attempt = run'[i].next
  BY DEF AttemptsCurrent
<1>1. ASSUME NEW t \in Slots, Claim(i, t)
      PROVE  wk'[s].attempt = run'[i].next
  <2>1. s = t
    BY <1>0, <1>1, ClaimAlone
  <2> QED
    BY <1>0, <1>1, <2>1 DEF Claim, RunType, Run, WorkerType
<1>2. CASE \A t \in Slots : ~Claim(i, t)
  <2>1. /\ s \in Working(i)
        /\ wk'[s].attempt = wk[s].attempt
        /\ wk[s].attempt = run[i].next
    BY <1>0, <1>2, WorkerKept DEF LeaseInv, AttemptsCurrent
  <2>2. ASSUME NEW t \in Slots, Stops(t)
        PROVE  wk[t].issue # i
    <3> SUFFICES ASSUME wk[t].issue = i
                 PROVE  FALSE
      OBVIOUS
    <3>1. t \in Working(i) /\ t \notin Working(i)'
      BY <2>2, StopsReturn
    <3>2. s = t
      BY <1>0, <2>1, <3>1 DEF SoleInv, SoleWriter
    <3> QED
      BY <3>1, <3>2
  <2> QED
    BY <1>0, <1>2, <2>1, <2>2, RowKept
<1> QED
  BY <1>1, <1>2

\* Without a claim, a worker that stops and a crash, an issue keeps its workers.
LEMMA WorkingKept ==
  ASSUME TypeOK, [Next]_vars, ~CrashRestart, NEW i \in Issues,
         \A s \in Slots : ~Claim(i, s) /\ (Stops(s) => wk[s].issue # i)
  PROVE  Working(i)' = Working(i)
<1>0. WorkerType
  BY TypeParts
<1>1. Working(i)' \subseteq Working(i)
  BY WorkingShrinks
<1>2. CASE StartTick
  BY <1>0, <1>2, SignalWorking DEF StartTick
<1>3. ASSUME NEW j \in Issues, NEW s \in Slots, Claim(j, s)
      PROVE  Working(i) \subseteq Working(i)'
  BY <1>0, <1>3 DEF Claim, Free, Working, WorkerType
<1>4. ASSUME NEW s \in Slots, Stops(s)
      PROVE  Working(i) \subseteq Working(i)'
  BY <1>4, StopsRelease
<1>5. ASSUME NEW s \in Slots, Spawn(s) \/ SpawnFails(s) \/ Exit(s) \/ Beat(s) \/ Suggest(s) \/ Log(s)
      PROVE  Working(i) \subseteq Working(i)'
  BY <1>0, <1>5 DEF Spawn, SpawnFails, Exit, Beat, Suggest, Log, Working, WorkerType, Worker
<1>6. ASSUME NEW j \in Issues, Defer(j) \/ Due(j) \/ Age(j) \/ OrphanExits(j) \/ Operator(j)
      PROVE  Working(i) \subseteq Working(i)'
  <2>1. CASE Cancel(j)
    BY <1>0, <2>1, SignalWorking DEF Cancel
  <2>2. CASE wk' = wk
    BY <2>2 DEF Working
  <2> QED
    BY <1>6, <2>1, <2>2
       DEF Defer, Due, Age, OrphanExits, Operator, Retrigger, Resume, Pause, Review, Put
<1>7. CASE UNCHANGED vars
  BY <1>7 DEF vars, Working
<1> QED
  BY <1>1, <1>2, <1>3, <1>4, <1>5, <1>6, <1>7 DEF Next, WorkerStep, Stops

\* ... and its last grant, unless a request parks a retry.
LEMMA GrantKept ==
  ASSUME SoleInv, ClaimsKept, [Next]_vars, NEW i \in Issues,
         \A s \in Slots : ~Claim(i, s) /\ (Stops(s) => wk[s].issue # i)
  PROVE  \/ LastGrant(i)' = LastGrant(i)
         \/ /\ Pause(i) \/ Cancel(i)
            /\ run[i].st = "retry_queued"
            /\ LastGrant(i)' = LastGrant(i) + 1
<1>1. run[i] \in Run /\ run'[i] \in Run
  BY TypeParts, TypeStep DEF SoleInv, TypeOK
<1>2. run'[i].next = run[i].next /\ (Quiet(i) \/ Eventful(i))
  BY RowKept
<1>3. CASE run'[i].st = run[i].st
  BY <1>1, <1>2, <1>3 DEF LastGrant, Run
<1>4. CASE run[i].st = "claimed" /\ run'[i].st = "released"
  BY <1>2, <1>4 DEF LastGrant
<1>5. CASE (Pause(i) \/ Cancel(i)) /\ run[i].st # "none" /\ run'[i].st \in {"paused", "cancelled"}
  <2>1. run'[i].next \in Nat /\ LastGrant(i)' = run'[i].next
    BY <1>1, <1>5 DEF LastGrant, Run
  <2>2. CASE run[i].st = "retry_queued"
    <3>1. LastGrant(i) = run[i].next - 1
      BY <2>2 DEF LastGrant
    <3> QED
      BY <1>2, <1>5, <2>1, <2>2, <3>1
  <2>3. CASE run[i].st # "retry_queued"
    <3>1. LastGrant(i) = run[i].next
      BY <1>5, <2>3 DEF LastGrant
    <3> QED
      BY <1>2, <2>1, <3>1
  <2> QED
    BY <2>2, <2>3
<1> QED
  BY <1>2, <1>3, <1>4, <1>5 DEF Quiet, Eventful

\* Every step of the dispatch is one of the lease, or none to it.
LEMMA LeaseStep ==
  ASSUME LeaseInv, ClaimsKept, [Next]_vars
  PROVE  [Lease!Next]_(Lease!vars)
<1>0. SoleInv /\ TypeOK /\ RunType /\ TypeOK'
  BY TypeParts, TypeStep DEF LeaseInv, SoleInv
<1> DEFINE holders == [i \in Issues |-> Working(i)]
           token == [i \in Issues |-> LastGrant(i)]
<1>1. ASSUME NEW i \in Issues, NEW s \in Slots, Claim(i, s)
      PROVE  Lease!Grant(i, s)
  <2>1. /\ run[i].st \in {"none", "released", "retry_queued"}
        /\ s \in Free
    BY <1>1 DEF Claim
  <2>2. \A j \in Issues : Working(j) # {} => run[j].st \in Held
    BY <1>0, HeldByIssue, TypeParts DEF SoleInv
  <2>3. Working(i) = {}
    BY <2>1, <2>2 DEF Held
  <2>4. ASSUME NEW j \in Issues \ {i}, Override[j] = Override[i], Override[i] # NoPath
        PROVE  Working(j) = {}
    <3>1. run[j].st \in {"none", "released"}
      BY <1>1, <2>4 DEF Claim, Conflict
    <3> QED
      BY <2>2, <3>1 DEF Held
  <2>5. \A j \in Issues : s \notin Working(j)
    BY <2>1 DEF Free, Working
  <2>6. /\ Working(i)' = {s}
        /\ \A j \in Issues \ {i} : Working(j)' = Working(j)
    <3>1. Working(i)' = {s}
      BY <1>0, <1>1, ClaimAlone
    <3>2. /\ wk[s].pc = "idle" /\ wk'[s].issue = i
          /\ \A t \in Slots \ {s} : wk'[t] = wk[t]
      BY <1>0, <1>1, <2>1, TypeParts DEF Claim, Free, WorkerType
    <3> QED
      BY <3>1, <3>2 DEF Working
  <2>7. /\ \A j \in Issues : LastGrant(j)' \in Int
        /\ LastGrant(i)' > LastGrant(i)
        /\ \A j \in Issues \ {i} : LastGrant(j)' = LastGrant(j)
    <3>1. \A j \in Issues : run'[j] \in Run /\ run[j] \in Run
      BY <1>0 DEF TypeOK
    <3>2. \A j \in Issues : LastGrant(j)' \in Int
      <4> SUFFICES ASSUME NEW j \in Issues
                   PROVE  LastGrant(j)' \in Int
        OBVIOUS
      <4>1. run'[j].next \in Nat
        BY <3>1 DEF Run
      <4>2. LastGrant(j)' \in {-1, run'[j].next - 1, run'[j].next}
        BY DEF LastGrant
      <4> QED
        BY <4>1, <4>2
    <3>3. run'[i].st = "claimed" /\ run'[i].next = Attempt(i)
      BY <1>0, <1>1 DEF Claim, RunType, Run
    <3>4. LastGrant(i)' = Attempt(i)
      BY <3>3 DEF LastGrant
    <3>5. Attempt(i) > LastGrant(i)
      <4>1. run[i].next \in Nat
        BY <3>1 DEF Run
      <4>2. CASE run[i].st = "none"
        BY <4>2 DEF Attempt, LastGrant
      <4>3. CASE run[i].st = "retry_queued"
        BY <4>1, <4>3 DEF Attempt, LastGrant
      <4>4. CASE run[i].st = "released"
        BY <4>1, <4>4 DEF Attempt, LastGrant
      <4> QED
        BY <2>1, <4>2, <4>3, <4>4
    <3>6. \A j \in Issues \ {i} : run'[j] = run[j]
      BY <1>0, <1>1 DEF Claim, RunType
    <3>7. \A j \in Issues \ {i} : LastGrant(j)' = LastGrant(j)
      BY <3>6 DEF LastGrant
    <3> QED
      BY <3>2, <3>4, <3>5, <3>7
  <2> QED
    BY <2>3, <2>4, <2>5, <2>6, <2>7 DEF Lease!Grant, Lease!Neighbours
<1>2. ASSUME NEW s \in Slots, Stops(s)
      PROVE  Lease!Return(wk[s].issue, s)
  <2>1. PICK i \in Issues : i = wk[s].issue
    BY <1>0, <1>2, StopsRelease
  <2>2. /\ s \in Working(i)
        /\ Working(i)' = Working(i) \ {s}
        /\ LastGrant(i)' = LastGrant(i)
    BY <1>2, <2>1, StopsReturn
  <2>3. \A j \in Issues \ {i} : Working(j)' = Working(j) /\ LastGrant(j)' = LastGrant(j)
    BY <1>0, <1>2, <2>1, StopsRelease DEF LastGrant
  <2>4. Lease!Return(i, s)
    BY <2>2, <2>3 DEF Lease!Return
  <2> QED
    BY <2>1, <2>4
<1>3. CASE CrashRestart
  <2>1. \A i \in Issues : Working(i)' = {}
    BY <1>3 DEF CrashRestart, Working, Idle
  <2>2. ASSUME NEW i \in Issues
        PROVE  LastGrant(i)' = LastGrant(i)
    <3> DEFINE st == IF run[i].st = "claimed" THEN "released" ELSE run[i].st
    <3>1. run[i] \in Run /\ run'[i] = [run[i] EXCEPT !.st = st, !.pid = None]
      BY <1>0, <1>3 DEF CrashRestart, RunType
    <3>2. st \in {"none", "retry_queued"} \/ run[i].st \in {"none", "retry_queued"} =>
            st = run[i].st
      OBVIOUS
    <3> HIDE DEF st
    <3>3. run'[i].st = st /\ run'[i].next = run[i].next
      BY <3>1 DEF Run
    <3> QED
      BY <3>2, <3>3 DEF LastGrant
  <2> QED
    BY <2>1, <2>2 DEF Lease!Next, Lease!Lapse
<1>4. CASE /\ ~CrashRestart
           /\ \A i \in Issues, s \in Slots : ~Claim(i, s)
           /\ \A s \in Slots : ~Stops(s)
  <2>1. \A i \in Issues : Working(i)' = Working(i)
    BY <1>0, <1>4, WorkingKept
  <2>2. \A i \in Issues :
          \/ LastGrant(i)' = LastGrant(i)
          \/ /\ Pause(i) \/ Cancel(i)
             /\ run[i].st = "retry_queued"
             /\ LastGrant(i)' = LastGrant(i) + 1
    BY <1>0, <1>4, GrantKept
  <2>3. CASE \A i \in Issues : LastGrant(i)' = LastGrant(i)
    BY <2>1, <2>3 DEF Lease!vars
  <2>4. ASSUME NEW i \in Issues, Pause(i) \/ Cancel(i), run[i].st = "retry_queued",
               LastGrant(i)' = LastGrant(i) + 1
        PROVE  Lease!Skip(i)
    <3>1. Working(i) = {}
      BY <1>0, <2>4, HeldByIssue, TypeParts DEF SoleInv, Held
    <3>2. \A j \in Issues \ {i} : run'[j] = run[j]
      BY <1>0, <2>4 DEF Pause, Cancel, Released, RunType
    <3>3. \A j \in Issues \ {i} : LastGrant(j)' = LastGrant(j)
      BY <3>2 DEF LastGrant
    <3> QED
      BY <2>1, <2>4, <3>1, <3>3 DEF Lease!Skip
  <2> QED
    BY <2>2, <2>3, <2>4 DEF Lease!Next
<1>5. \A s \in Slots : Stops(s) => wk[s].issue \in Issues
  BY <1>0, StopsRelease
<1> QED
  BY <1>1, <1>2, <1>3, <1>4, <1>5 DEF Lease!Next

\* The tables of a new installation map to a lease that nobody holds.
LEMMA LeaseInit ==
  ASSUME Init
  PROVE  Lease!Init
<1>1. \A i \in Issues : Working(i) = {}
  BY DEF Init, Working, Idle
<1>2. \A i \in Issues : LastGrant(i) = -1
  BY NoRunsAtFirst DEF LastGrant
<1> QED
  BY <1>1, <1>2 DEF Lease!Init

LEMMA LeaseInductive ==
  ASSUME ClaimsKept
  PROVE  Spec => []LeaseInv
<1>1. Init => LeaseInv
  <2> SUFFICES ASSUME Init
               PROVE  LeaseInv
    OBVIOUS
  <2>1. \A i \in Issues : Working(i) = {}
    BY DEF Init, Working, Idle
  <2> QED
    BY <2>1, SoleInvInit DEF LeaseInv, AttemptsCurrent
<1>2. LeaseInv /\ [Next]_vars => LeaseInv'
  BY SoleInvStep, AttemptsCurrentStep DEF LeaseInv
<1> QED
  BY <1>1, <1>2, PTL DEF Spec

\* The dispatch implements the lease: as long as claims are left to their workers,
\* the claim transaction hands an issue out only while no worker has it nor any
\* other issue of its workspace, each time under a greater number; completions,
\* releases, crashes and parked retries give it back or do nothing to it.
THEOREM ImplementsLeaseTheorem ==
  ASSUME ClaimsKept
  PROVE  Spec => ImplementsLease
<1>1. Init => Lease!Init
  BY LeaseInit
<1>2. LeaseInv /\ [Next]_vars => [Lease!Next]_(Lease!vars)
  BY LeaseStep
<1> QED
  BY <1>1, <1>2, LeaseInductive, PTL DEF Spec, ImplementsLease, Lease!Spec
------------------------------------------------------------------------------
(* No dispatch without a cause. *)

\* What entitles an issue to one more attempt than the last: its run is released
\* and its state is not the one the run was released in, or it has a worker whose
\* snapshot is no longer its state.
Restless(i) ==
  \/ run[i].st = "released" /\ state[i] \in Candidacy /\ run[i].lis # state[i]
  \/ \E s \in Working(i) : wk[s].snap # state[i]

Granted(i) == run[i].next + IF Restless(i) THEN 1 ELSE 0

\* What a tick has yet to dispatch was a candidate, and still is.
LeftReady ==
  \A i \in left : run[i].st = "released" => state[i] \in Candidacy /\ run[i].lis # state[i]

\* NoSpuriousDispatch alone is not inductive: a released run whose state has
\* changed is about to be given its next attempt.
BudgetInv ==
  /\ LeaseInv
  /\ LeftReady
  /\ \A i \in Issues : run[i].st = "none" => run[i].next = 0
  /\ \A i \in Issues : Granted(i) <= MaxRetries + ops

\* A tick runs without yielding, so that nothing undoes what it found.
LEMMA LeftReadyStep ==
  ASSUME BudgetInv, ClaimsKept, [Next]_vars
  PROVE  LeftReady'
<1>0. SoleInv /\ RunType /\ RestType
  BY TypeParts DEF BudgetInv, LeaseInv, SoleInv
<1>1. CASE StartTick
  <2>1. \A i \in left' : i \in Issues /\ (i \in DueRetries \/ Candidate(i))
    BY <1>1 DEF StartTick, ToDispatch, Candidates, DueRetries
  <2>2. Stale = {}
    BY <1>0 DEF Stale, SoleInv, NeverStale
  <2>3. \A i \in Issues : run'[i] = run[i] /\ state'[i] = state[i]
    BY <1>1, <2>2 DEF StartTick
  <2>4. \A i \in left' : run[i].st = "released" => state[i] \in Candidacy /\ run[i].lis # state[i]
    BY <2>1 DEF DueRetries, Candidate
  <2> QED
    BY <2>1, <2>3, <2>4 DEF LeftReady
<1>2. ASSUME NEW i \in Issues, Defer(i)
      PROVE  LeftReady'
  BY <1>2 DEF Defer, LeftReady, BudgetInv
<1>3. ASSUME NEW i \in Issues, NEW s \in Slots, Claim(i, s)
      PROVE  LeftReady'
  <2>1. \A j \in left' : j \in left /\ j \in Issues /\ run'[j] = run[j] /\ state'[j] = state[j]
    BY <1>0, <1>3 DEF Claim, RunType, RestType
  <2> QED
    BY <2>1 DEF LeftReady, BudgetInv
<1>4. CASE UNCHANGED vars
  BY <1>4 DEF vars, LeftReady, BudgetInv
<1>5. CASE left' = {}
  BY <1>5 DEF LeftReady
<1>6. ASSUME NEW i \in Issues, Due(i) \/ Age(i) \/ OrphanExits(i) \/ Operator(i)
      PROVE  left' = {}
  BY <1>6 DEF Due, Age, OrphanExits, Operator, Retrigger, Resume, Pause, Cancel, Review, Put
<1>7. ASSUME NEW s \in Slots, WorkerStep(s) \/ Throw(s) \/ Beat(s) \/ Suggest(s)
      PROVE  left' = {}
  BY <1>7 DEF WorkerStep, Spawn, SpawnFails, PromptFails, Exit, Complete, Log, Throw, Beat, Suggest
<1>8. CASE CrashRestart
  BY <1>5, <1>8 DEF CrashRestart
<1> QED
  BY <1>1, <1>2, <1>3, <1>4, <1>5, <1>6, <1>7, <1>8 DEF Next

LEMMA Counters ==
  ASSUME TypeOK, NEW i \in Issues
  PROVE  run[i].next \in Nat /\ ops \in Nat /\ MaxRetries \in Nat
<1>1. run[i] \in Run
  BY DEF TypeOK
<1>2. ops \in 0..MaxOps
  BY DEF TypeOK
<1>3. ops \in Nat
  BY <1>2, BoundsAssumption
<1>4. run[i].next \in Nat
  BY <1>1 DEF Run
<1> QED
  BY <1>3, <1>4, BoundsAssumption

\* A row that is let be is given nothing; an event pays for what it gives.
LEMMA GrantedKept ==
  ASSUME BudgetInv, ClaimsKept, [Next]_vars, NEW i \in Issues,
         \A s \in Slots : ~Claim(i, s) /\ (Stops(s) => wk[s].issue # i)
  PROVE  Granted(i)' <= MaxRetries + ops'
<1>0. SoleInv /\ TypeOK
  BY DEF BudgetInv, LeaseInv, SoleInv
<1>1. run[i].next \in Nat /\ ops \in Nat /\ MaxRetries \in Nat
  BY <1>0, Counters
<1>2. Granted(i) <= MaxRetries + ops
  BY DEF BudgetInv
<1>3. run'[i].next = run[i].next /\ (Quiet(i) \/ Eventful(i))
  BY <1>0, RowKept
<1>4. CASE Eventful(i)
  BY <1>1, <1>2, <1>3, <1>4 DEF Eventful, Granted
<1>5. CASE Quiet(i)
  <2>1. Restless(i)' => Restless(i)
    <3>1. ASSUME NEW s \in Working(i)', wk'[s].snap # state'[i]
          PROVE  s \in Working(i) /\ wk[s].snap # state[i]
      <4>1. s \in Working(i) /\ wk'[s].snap = wk[s].snap
        BY <1>0, <3>1, WorkerKept
      <4>2. \A t \in Working(i) : t = s
        BY <1>0, <4>1 DEF SoleInv, SoleWriter
      <4> QED
        BY <1>5, <3>1, <4>1, <4>2 DEF Quiet
    <3>2. CASE run'[i].st = "released"
      <4>1. Working(i) = {}
        BY <1>0, <1>5, <3>2, TypeParts, HeldByIssue DEF Quiet, SoleInv, Held
      <4> QED
        BY <1>5, <3>1, <4>1 DEF Restless, Quiet
    <3> QED
      BY <3>1, <3>2 DEF Restless
  <2> QED
    BY <1>1, <1>2, <1>3, <1>5, <2>1 DEF Granted, Quiet
<1> QED
  BY <1>3, <1>4, <1>5

\* A claim uses up what the issue was entitled to.
LEMMA ClaimGranted ==
  ASSUME BudgetInv, NEW i \in Issues, NEW s \in Slots, Claim(i, s)
  PROVE  Granted(i)' <= MaxRetries + ops'
<1>0. SoleInv /\ TypeOK /\ RunType /\ WorkerType
  BY TypeParts DEF BudgetInv, LeaseInv, SoleInv
<1>1. run[i].next \in Nat /\ ops \in Nat /\ MaxRetries \in Nat
  BY <1>0, Counters
<1>2. Granted(i) <= MaxRetries + ops
  BY DEF BudgetInv
<1>3. run'[i].st = "claimed" /\ run'[i].next = Attempt(i)
  BY <1>0 DEF Claim, RunType, Run
<1>4. Working(i)' = {s} /\ wk'[s].snap = state'[i] /\ ops' = ops
  BY <1>0, ClaimAlone DEF Claim, WorkerType
<1>5. ~Restless(i)'
  BY <1>3, <1>4 DEF Restless
<1>6. Attempt(i) <= MaxRetries + ops
  <2>1. CASE run[i].st = "none"
    BY <1>1, <2>1 DEF Attempt
  <2>2. CASE run[i].st = "retry_queued"
    BY <1>1, <1>2, <2>2 DEF Attempt, Granted
  <2>3. CASE run[i].st = "released"
    <3>1. Restless(i)
      BY <2>3 DEF Claim, Upcoming, BudgetInv, LeftReady, Restless
    <3> QED
      BY <1>1, <1>2, <2>3, <3>1 DEF Attempt, Granted
  <2> QED
    BY <2>1, <2>2, <2>3 DEF Claim
<1>7. Attempt(i) \in Nat
  BY <1>0, AttemptType
<1> QED
  BY <1>1, <1>3, <1>4, <1>5, <1>6, <1>7 DEF Granted

\* A worker that stops leaves an issue that waits, one whose new state is the one
\* its run was released in, or one that was restless before.
LEMMA StopsGranted ==
  ASSUME BudgetInv, NEW s \in Slots, Stops(s), NEW i \in Issues, wk[s].issue = i
  PROVE  /\ Granted(i)' <= MaxRetries + ops'
         /\ run'[i].st # "none"
<1>0. LeaseInv /\ SoleInv /\ TypeOK /\ RunType /\ WorkerType /\ StateType
  BY TypeParts DEF BudgetInv, LeaseInv, SoleInv
<1>1. run[i].next \in Nat /\ ops \in Nat /\ MaxRetries \in Nat
  BY <1>0, Counters
<1>2. Granted(i) <= MaxRetries + ops
  BY DEF BudgetInv
<1>3. s \in Working(i) /\ Working(i)' = {}
  <2>1. s \in Working(i) /\ Working(i)' = Working(i) \ {s}
    BY <1>0, StopsReturn
  <2> QED
    BY <1>0, <2>1 DEF SoleInv, SoleWriter
<1>4. run[i].st \in Held /\ run[i] \in Run /\ wk[s].attempt = run[i].next
  BY <1>0, <1>3, HeldByIssue DEF SoleInv, RunType, LeaseInv, AttemptsCurrent
<1>5. ASSUME run'[i].next = run[i].next, ops' = ops, Restless(i)' => Restless(i)
      PROVE  Granted(i)' <= MaxRetries + ops'
  BY <1>1, <1>2, <1>5 DEF Granted
<1>6. CASE PromptFails(s)
  <2>1. /\ run'[i].st = "released" /\ run'[i].lis = wk[s].snap
        /\ run'[i].next = run[i].next
        /\ state' = state /\ ops' = ops
    <3> DEFINE row == [run[i] EXCEPT !.st = "released", !.lis = wk[s].snap]
    <3>1. run'[i] = row
      BY <1>0, <1>6 DEF PromptFails, RunType
    <3>2. row.st = "released" /\ row.lis = wk[s].snap /\ row.next = run[i].next
      BY <1>4 DEF Run
    <3> QED
      BY <1>6, <3>1, <3>2 DEF PromptFails
  <2>2. Restless(i)' => Restless(i)
    BY <1>3, <2>1 DEF Restless
  <2> QED
    BY <1>5, <2>1, <2>2
<1>7. CASE Throw(s)
  <2>1. /\ run'[i].st \in Held \cup {"released"}
        /\ run'[i].next = run[i].next
        /\ ops' = ops + 1
    BY <1>0, <1>4, <1>7 DEF Throw, Event, RunType, Run
  <2> QED
    BY <1>1, <1>2, <2>1 DEF Granted, Held
<1>8. CASE Complete(s)
  <2> DEFINE snap == wk[s].snap
  <2>1. PICK o \in Outcomes :
          /\ Possible(o, wk[s].attempt)
          /\ run' = [run EXCEPT ![i] = Settled(i, o, wk[s].attempt, snap)]
          /\ \/ Written(o, snap) = {} /\ state' = state
             \/ \E st \in Written(o, snap) : state' = [state EXCEPT ![i] = st]
    BY <1>8 DEF Complete, UpdateIssueState
  <2>2. run'[i] = Settled(i, o, wk[s].attempt, snap) /\ ops' = ops
    BY <1>0, <1>8, <2>1 DEF RunType, Complete
  <2>3. CASE o = "retry"
    <3>1. /\ run'[i].st = "retry_queued"
          /\ run'[i].next = run[i].next + 1
          /\ run[i].next < MaxRetries
      <4>1. run'[i].st = "retry_queued" /\ run'[i].next = run[i].next + 1
        <5> DEFINE row == [run[i] EXCEPT !.st = "retry_queued", !.next = wk[s].attempt + 1,
                                         !.due = FALSE]
        <5>1. run'[i] = row
          BY <2>2, <2>3 DEF Settled
        <5>2. row.st = "retry_queued" /\ row.next = wk[s].attempt + 1
          BY <1>4 DEF Run
        <5> QED
          BY <1>4, <5>1, <5>2
      <4> QED
        BY <1>4, <2>1, <2>3, <4>1 DEF Possible
    <3>2. ~Restless(i)'
      BY <1>3, <3>1 DEF Restless
    <3> QED
      BY <1>1, <2>2, <3>1, <3>2 DEF Granted
  <2>4. CASE o = "handoff"
    <3>1. run'[i].st = "in_review" /\ run'[i].next = run[i].next
      BY <1>4, <2>2, <2>4 DEF Settled, Run
    <3>2. ~Restless(i)'
      BY <1>3, <3>1 DEF Restless
    <3> QED
      BY <1>5, <2>2, <3>1, <3>2
  <2>5. CASE o \notin {"retry", "handoff"}
    <3>1. /\ run'[i].st = "released" /\ run'[i].next = run[i].next
          /\ run'[i].lis = IF o = "exhausted" THEN snap ELSE Target(o)
      BY <1>4, <2>2, <2>5 DEF Settled, Run
    <3>2. CASE Written(o, snap) = {}
      <4>1. Target(o) = snap /\ state' = state
        BY <2>1, <2>5, <3>2 DEF Written
      <4>2. Restless(i)' => Restless(i)
        BY <1>3, <3>1, <4>1 DEF Restless
      <4> QED
        BY <1>5, <2>2, <3>1, <4>2
    <3>3. ASSUME NEW st \in Written(o, snap), state' = [state EXCEPT ![i] = st]
          PROVE  Granted(i)' <= MaxRetries + ops'
      <4>1. state'[i] = st
        BY <1>0, <3>3 DEF StateType
      <4>2. st = "cancelled" \/ (st = Target(o) /\ o # "exhausted")
        BY <3>3, <2>5 DEF Written, Target
      <4>3. ~Restless(i)'
        BY <1>3, <3>1, <4>1, <4>2 DEF Restless, Candidacy
      <4> QED
        BY <1>5, <2>2, <3>1, <4>3
    <3> QED
      BY <2>1, <3>1, <3>2, <3>3
  <2>6. run'[i].st # "none"
    BY <1>4, <2>2 DEF Settled, Run
  <2> QED
    BY <2>3, <2>4, <2>5, <2>6
<1> QED
  BY <1>6, <1>7, <1>8 DEF Stops

LEMMA BudgetInvStep ==
  ASSUME BudgetInv, ClaimsKept, [Next]_vars
  PROVE  BudgetInv'
<1>0. LeaseInv /\ SoleInv /\ TypeOK /\ RunType
  BY TypeParts DEF BudgetInv, LeaseInv, SoleInv
<1>1. LeaseInv'
  BY <1>0, SoleInvStep, AttemptsCurrentStep DEF LeaseInv
<1>2. ASSUME NEW i \in Issues
      PROVE  /\ Granted(i)' <= MaxRetries + ops'
             /\ run'[i].st = "none" => run'[i].next = 0
  <2>1. ASSUME NEW s \in Slots, Claim(i, s)
        PROVE  run'[i].st # "none"
    BY <1>0, <2>1, ClaimAlone
  <2>2. ASSUME \A s \in Slots : ~Claim(i, s) /\ (Stops(s) => wk[s].issue # i)
        PROVE  run'[i].st = "none" => run'[i].next = 0
    <3>1. run[i].st = "none" => run[i].next = 0
      BY DEF BudgetInv
    <3> QED
      BY <1>0, <2>2, <3>1, RowKept DEF Quiet, Eventful
  <2> QED
    BY <2>1, <2>2, ClaimGranted, StopsGranted, GrantedKept
<1> QED
  BY <1>1, <1>2, LeftReadyStep DEF BudgetInv

\* Without an event an issue is dispatched once and retried max_retries times, and
\* every event is good for one more attempt at most: no path through a worker that
\* settles an issue leaves it to be picked up again of itself.
THEOREM NoSpuriousDispatchTheorem ==
  ASSUME ClaimsKept
  PROVE  Spec => []NoSpuriousDispatch
<1>1. Init => BudgetInv
  <2> SUFFICES ASSUME Init
               PROVE  BudgetInv
    OBVIOUS
  <2>1. \A i \in Issues : Working(i) = {} /\ run[i].st = "none" /\ run[i].next = 0
    BY NoRunsAtFirst DEF Init, Working, Idle
  <2>2. \A i \in Issues : Granted(i) <= MaxRetries + ops
    <3>1. ops = 0 /\ MaxRetries \in Nat
      BY BoundsAssumption DEF Init
    <3>2. \A i \in Issues : ~Restless(i)
      BY <2>1 DEF Restless
    <3> QED
      BY <2>1, <3>1, <3>2 DEF Granted
  <2>3. LeaseInv /\ LeftReady
    BY <2>1, SoleInvInit DEF LeaseInv, AttemptsCurrent, LeftReady, Init
  <2> QED
    BY <2>1, <2>2, <2>3 DEF BudgetInv
<1>2. BudgetInv /\ [Next]_vars => BudgetInv'
  BY BudgetInvStep
<1>3. BudgetInv => NoSpuriousDispatch
  <2> SUFFICES ASSUME BudgetInv, NEW i \in Issues
               PROVE  run[i].next <= MaxRetries + ops
    BY DEF NoSpuriousDispatch
  <2>1. run[i].next \in Nat /\ ops \in Nat /\ MaxRetries \in Nat
    BY Counters DEF BudgetInv, LeaseInv, SoleInv
  <2> QED
    BY <2>1 DEF BudgetInv, Granted
<1> QED
  BY <1>1, <1>2, <1>3, PTL DEF Spec

\* The leases are worth having: by their own rules alone, whatever the tables say, an
\* issue has one holder at most, and so have all the issues of an external workspace.
THEOREM LeaseExclusiveTheorem == Lease!Spec => []Lease!Exclusive
<1>1. Lease!Init => Lease!Exclusive
  BY DEF Lease!Init, Lease!Exclusive
<1>2. Lease!Exclusive /\ [Lease!Next]_Lease!vars => Lease!Exclusive'
  <2> SUFFICES ASSUME Lease!Exclusive, [Lease!Next]_Lease!vars
               PROVE  Lease!Exclusive'
    OBVIOUS
  <2> DEFINE Near(i) == Lease!Neighbours(i)
             Alone(i) == /\ \A s, t \in Working(i) : s = t
                         /\ \A j \in Near(i) : Working(i) = {} \/ Working(j) = {}
  <2>1. \A j \in Issues : Near(j) \subseteq Issues \ {j} /\ \A k \in Near(j) : j \in Near(k)
    BY DEF Lease!Neighbours
  <2>2. \A i \in Issues : Alone(i)
    BY <2>1 DEF Lease!Exclusive
  <2>3. SUFFICES \A i \in Issues : Alone(i)'
    BY <2>1 DEF Lease!Exclusive, Lease!Neighbours
  <2> HIDE DEF Near
  <2>4. CASE \A i \in Issues : Working(i)' \subseteq Working(i)
    BY <2>1, <2>2, <2>4 DEF Near
  <2>5. ASSUME NEW i \in Issues, NEW s \in Slots, Lease!Return(i, s)
        PROVE  \A j \in Issues : Working(j)' \subseteq Working(j)
    BY <2>5 DEF Lease!Return
  <2>6. ASSUME NEW i \in Issues, NEW s \in Slots, Lease!Grant(i, s)
        PROVE  \A j \in Issues : Alone(j)'
    <3>1. Working(i)' = {s} /\ \A j \in Issues \ {i} : Working(j)' = Working(j)
      BY <2>6 DEF Lease!Grant
    <3>2. \A j \in Near(i) : Working(j) = {}
      BY <2>1, <2>6 DEF Lease!Grant, Near
    <3> QED
      BY <2>1, <2>2, <3>1, <3>2 DEF Near
  <2>7. CASE UNCHANGED Lease!vars
    <3>1. \A i \in Issues : Working(i)' \subseteq Working(i)
      BY <2>7 DEF Lease!vars
    <3> QED
      BY <2>4, <3>1
  <2>8. CASE Lease!Lapse \/ \E i \in Issues : Lease!Skip(i)
    <3>1. \A i \in Issues : Working(i)' \subseteq Working(i)
      BY <2>8 DEF Lease!Lapse, Lease!Skip
    <3> QED
      BY <2>4, <3>1
  <2> QED
    BY <2>4, <2>5, <2>6, <2>7, <2>8 DEF Lease!Next
<1> QED
  BY <1>1, <1>2, PTL DEF Lease!Spec
-----------------------------------------------------------------------------
(* The semaphore, while the workflow's limit is constant.  With a limit that     *)
(* changes its theorems are false: setMax loses slots that are in use.           *)

\* The slots in use and the slots available add up, the batch fits in what is
\* available, and once anything was dispatched max is the workflow's limit:
\* without the last part setMax could change max while slots are in use.
SlotInv(L) ==
  /\ SlotsTypeOK
  /\ max >= 1
  /\ NoParkedRun
  /\ SlotsConserved
  /\ Cardinality(batch) <= count
  /\ running \cup batch # {} => max = AtLeast(1, L)

LEMMA SlotsFinite ==
  ASSUME SlotsTypeOK
  PROVE  /\ IsFiniteSet(running) /\ Cardinality(running) \in Nat
         /\ IsFiniteSet(batch) /\ Cardinality(batch) \in Nat
  BY RunsAssumption, FS_Subset, FS_CardinalityType DEF SlotsTypeOK

LEMMA SlotInit ==
  ASSUME NEW L \in Int, SlotsInit
  PROVE  SlotInv(L)
  BY FS_EmptySet, LimitsAssumption
     DEF SlotsInit, SlotInv, SlotsTypeOK, NoParkedRun, SlotsConserved

\* setMax with an unchanged limit gives back the very same count.
LEMMA SlotTick ==
  ASSUME NEW L \in Int, SlotInv(L), Tick(L)
  PROVE  SlotInv(L)'
<1>1. /\ max \in Int /\ count \in Nat /\ running \in SUBSET Runs /\ batch = {}
      /\ queue = <<>>
      /\ count + Cardinality(running) = max
      /\ running # {} => max = AtLeast(1, L)
  BY DEF SlotInv, SlotsTypeOK, NoParkedRun, SlotsConserved, Tick
<1>2. /\ max' = AtLeast(1, L)
      /\ count' = AtLeast(0, AtLeast(1, L) - (max - count))
      /\ queue' = queue /\ running' = running
  BY DEF Tick, SetMax, Active
<1>3. Cardinality(running) \in Nat
  BY SlotsFinite DEF SlotInv
<1>4. count' + Cardinality(running) = max' /\ count' \in Nat /\ max' \in Int /\ max' >= 1
  <2>1. CASE running = {}
    <3>1. Cardinality(running) = 0
      BY <2>1, FS_EmptySet
    <3> QED
      BY <1>1, <1>2, <3>1 DEF AtLeast
  <2>2. CASE running # {}
    BY <1>1, <1>2, <1>3, <2>2 DEF AtLeast
  <2> QED
    BY <2>1, <2>2
<1>5. /\ batch' \in SUBSET Runs
      /\ running \cap batch' = {}
      /\ Cardinality(batch') <= count'
  <2>1. CASE batch' = {}
    BY <2>1, <1>4, FS_EmptySet
  <2>2. CASE \E b \in SUBSET Runs : Batch(b, count') /\ batch' = b
    BY <2>2 DEF Batch, Dispatchable
  <2> QED
    BY <2>1, <2>2 DEF Tick
<1> QED
  BY <1>1, <1>2, <1>4, <1>5 DEF SlotInv, SlotsTypeOK, NoParkedRun, SlotsConserved

LEMMA SlotAcquire ==
  ASSUME NEW L \in Int, SlotInv(L), NEW i \in Runs, Acquire(i)
  PROVE  /\ SlotInv(L)'
         /\ Cardinality(running') <= max
<1>1. /\ i \in batch /\ i \notin running
      /\ Cardinality(batch) \in Nat /\ Cardinality(running) \in Nat
      /\ Cardinality(batch \ {i}) = Cardinality(batch) - 1
      /\ Cardinality(running \cup {i}) = Cardinality(running) + 1
  <2>1. i \in batch /\ i \notin running
    BY DEF Acquire, SlotInv, SlotsTypeOK
  <2> QED
    BY <2>1, SlotsFinite, FS_AddElement, FS_RemoveElement DEF SlotInv
<1>2. Cardinality(batch \ {i}) \in Nat
  BY SlotsFinite, FS_RemoveElement, FS_CardinalityType DEF SlotInv
<1>3. count > 0
  BY <1>1, <1>2 DEF SlotInv, SlotsTypeOK
<1>4. /\ batch' = batch \ {i} /\ count' = count - 1 /\ running' = running \cup {i}
      /\ queue' = queue /\ max' = max
  BY <1>3 DEF Acquire
<1>5. SlotsTypeOK'
  BY <1>3, <1>4 DEF SlotInv, SlotsTypeOK
<1>6. SlotsConserved' /\ Cardinality(running') <= max
  BY <1>1, <1>3, <1>4 DEF SlotInv, SlotsTypeOK, SlotsConserved
<1>7. Cardinality(batch') <= count'
  BY <1>1, <1>3, <1>4 DEF SlotInv, SlotsTypeOK
<1>8. running' \cup batch' # {} => max' = AtLeast(1, L)
  BY <1>1, <1>4 DEF SlotInv
<1> QED
  BY <1>4, <1>5, <1>6, <1>7, <1>8 DEF SlotInv, NoParkedRun

LEMMA SlotRelease ==
  ASSUME NEW L \in Int, SlotInv(L), NEW i \in Runs, Release(i)
  PROVE  SlotInv(L)' /\ running' \subseteq running
<1>1. /\ count' = count + 1 /\ running' = running \ {i} /\ i \in running
      /\ batch = {} /\ queue' = queue /\ max' = max /\ batch' = batch
  BY DEF Release, SlotInv, NoParkedRun
<1>2. Cardinality(running \ {i}) = Cardinality(running) - 1 /\ Cardinality(running) \in Nat
  BY <1>1, SlotsFinite, FS_RemoveElement DEF SlotInv
<1>3. Cardinality(batch') <= count'
  BY <1>1, SlotsFinite DEF SlotInv, SlotsTypeOK
<1> QED
  BY <1>1, <1>2, <1>3 DEF SlotInv, SlotsTypeOK, NoParkedRun, SlotsConserved

LEMMA SlotStutter ==
  ASSUME NEW L \in Int, SlotInv(L), UNCHANGED slotsVars
  PROVE  SlotInv(L)'
  BY DEF SlotInv, SlotsTypeOK, NoParkedRun, SlotsConserved, slotsVars

LEMMA SlotStep ==
  ASSUME NEW L \in Int, Limits = {L}, SlotInv(L), [SlotsNext]_slotsVars
  PROVE  SlotInv(L)'
  BY SlotTick, SlotAcquire, SlotRelease, SlotStutter DEF SlotsNext

LEMMA SlotInductive ==
  ASSUME NEW L \in Int, Limits = {L}
  PROVE  SlotsSpec => []SlotInv(L)
<1>1. SlotsInit => SlotInv(L)
  BY SlotInit
<1>2. SlotInv(L) /\ [SlotsNext]_slotsVars => SlotInv(L)'
  BY SlotStep
<1> QED
  BY <1>1, <1>2, PTL DEF SlotsSpec

\* While the workflow's limit is constant, the limit, available and active
\* numbers of getConcurrencyStatus are those of the running workers.
THEOREM SlotsConservedTheorem ==
  ASSUME NEW L \in Int, Limits = {L}
  PROVE  SlotsSpec => [](SlotsTypeOK /\ SlotsConserved)
<1>1. SlotInv(L) => SlotsTypeOK /\ SlotsConserved
  BY DEF SlotInv
<1> QED
  BY <1>1, SlotInductive, PTL

\* While the limit is constant, no dispatched run waits for a slot.
THEOREM NoParkedRunTheorem ==
  ASSUME NEW L \in Int, Limits = {L}
  PROVE  SlotsSpec => []NoParkedRun
<1>1. SlotInv(L) => NoParkedRun
  BY DEF SlotInv
<1> QED
  BY <1>1, SlotInductive, PTL

\* While the limit is constant, no acquire takes the workers above it.
THEOREM AcquireWithinLimitTheorem ==
  ASSUME NEW L \in Int, Limits = {L}
  PROVE  SlotsSpec => AcquireWithinLimit
<1> DEFINE Within == running \subseteq running' /\ running' # running
                       => Cardinality(running') <= max
<1>1. SlotInv(L) /\ [SlotsNext]_slotsVars => [Within]_slotsVars
  <2> SUFFICES ASSUME SlotInv(L), [SlotsNext]_slotsVars
               PROVE  [Within]_slotsVars
    OBVIOUS
  <2>1. CASE Tick(L)
    BY <2>1 DEF Tick
  <2>2. ASSUME NEW i \in Runs, Acquire(i)
        PROVE  Within
    BY <2>2, SlotAcquire
  <2>3. ASSUME NEW i \in Runs, Release(i)
        PROVE  Within
    BY <2>3, SlotRelease
  <2> QED
    BY <2>1, <2>2, <2>3 DEF SlotsNext
<1> QED
  BY <1>1, SlotInductive, PTL DEF SlotsSpec, AcquireWithinLimit
==============================================================================
