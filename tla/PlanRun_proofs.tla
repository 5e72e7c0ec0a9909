--------------------------- MODULE PlanRun_proofs ----------------------------
(* Theorems of PlanRun, for any plan runs, callers, sub-issues and events. *)
EXTENDS PlanRunCall, TLAPS

\* The records of TypeOK.
PlanRecord == [st : PlanStates, approval : {"", "pending", "approved", "rejected"},
               job : {"", "dry", "exec"}, overdue : BOOLEAN, request : SUBSET Request]
CallerRecord == [state : IssueStates, plan : Runs \cup {None}, row : RowStates,
                 lis : IssueStates \cup {""}, busy : BOOLEAN]

LEMMA Typed == TypeOK <=> /\ plan \in [Runs -> PlanRecord]
                          /\ sub \in [Runs -> [Subs -> SubStates]]
                          /\ caller \in [Callers -> CallerRecord]
                          /\ resumed \subseteq Runs
                          /\ ops \in 0..MaxOps
BY DEF TypeOK, PlanRecord, CallerRecord

LEMMA RequestTyped ==
  ASSUME NEW p \in PlanRecord, NEW req \in SUBSET Request
  PROVE  /\ [p EXCEPT !.request = req] \in PlanRecord
         /\ [p EXCEPT !.request = req].st = p.st
         /\ [p EXCEPT !.request = req].approval = p.approval
<1> DEFINE R == SUBSET Request
<1>1. req \in R /\ PlanRecord = [st : PlanStates, approval : {"", "pending", "approved", "rejected"},
                                job : {"", "dry", "exec"}, overdue : BOOLEAN, request : R]
  BY DEF PlanRecord
<1> HIDE DEF R
<1> QED BY <1>1

\* No step makes a run disappear: what is recorded of it stays about a run.
ResumedExist == \A r \in resumed : plan[r].st # "absent"

IInv == TypeOK /\ RunningHasExecutor /\ RunningApproved /\ WaiterHasPlan /\ ResumedExist
------------------------------------------------------------------------------
(* What the parts of the tick make of a caller's rows. *)

LEMMA LisTyped ==
  ASSUME NEW row \in CallerRecord, NEW st \in IssueStates
  PROVE  Lis(row, st) \in CallerRecord /\ Lis(row, st).state = row.state
                                       /\ Lis(row, st).plan = row.plan
BY DEF Lis, CallerRecord

LEMMA ResumeTyped ==
  ASSUME NEW row \in CallerRecord, NEW c
  PROVE  /\ Resume(c, row) \in CallerRecord
         /\ Resume(c, row).state = "awaiting_plan" =>
              /\ row.state = "awaiting_plan" /\ Resume(c, row).plan = row.plan
              /\ \A r \in Finalized : CallerOf[r] # c
<1> DEFINE woken == [row EXCEPT !.plan = None, !.state = "todo"]
<1>1. woken \in CallerRecord /\ woken.state = "todo" /\ "todo" \in IssueStates
  BY DEF CallerRecord, IssueStates, Active, Terminal
<1>2. Lis(woken, "todo") \in CallerRecord /\ Lis(woken, "todo").state = "todo"
  BY <1>1, LisTyped
<1>3. "awaiting_plan" \notin Finished
  BY DEF Finished
<1>4. CASE row.state \notin Finished /\ \E r \in Finalized : CallerOf[r] = c
  BY <1>2, <1>4 DEF Resume
<1>5. CASE ~(row.state \notin Finished /\ \E r \in Finalized : CallerOf[r] = c)
  <2>1. Resume(c, row) = row
    BY <1>5 DEF Resume
  <2> QED BY <2>1, <1>3, <1>5
<1> QED BY <1>4, <1>5

LEMMA CascadeTyped ==
  ASSUME NEW row \in CallerRecord, NEW ended
  PROVE  /\ CascadeCaller(row, ended) \in CallerRecord
         /\ CascadeCaller(row, ended).plan = row.plan
         /\ CascadeCaller(row, ended).state \in {row.state, "cancelled"}
BY DEF CascadeCaller, CallerRecord, IssueStates, Active, Terminal, Finished

LEMMA CascadeSubsTyped ==
  ASSUME NEW ss \in [Subs -> SubStates]
  PROVE  CascadeSubs(ss) \in [Subs -> SubStates]
BY DEF CascadeSubs, SubStates, Terminal, Finished

LEMMA DispatchedTyped ==
  ASSUME NEW row \in CallerRecord
  PROVE  /\ Dispatched(row) \in CallerRecord
         /\ Dispatched(row).plan = row.plan /\ Dispatched(row).state = row.state
BY DEF Dispatched, CallerRecord, RowStates
------------------------------------------------------------------------------
(* The tick. *)

\* The plan runs after the four sub-loops.
Ticked(dry) ==
  [r \in Runs |->
     CASE r \in Pending ->
            IF dry[r] = "dry_running"
              THEN [plan[r] EXCEPT !.st = dry[r], !.job = "dry"]
              ELSE [plan[r] EXCEPT !.st = dry[r], !.approval = "pending"]
       [] r \in Approved ->
            [plan[r] EXCEPT !.st = "running", !.job = "exec", !.overdue = FALSE]
       [] r \in Expired -> [plan[r] EXCEPT !.st = "cancelled"]
       [] r \notin Pending \cup Approved \cup Expired -> plan[r]]

\* Only an approved run starts to run, and it does with an executor.
LEMMA TickPlans ==
  ASSUME IInv, NEW dry \in [Pending -> DryRunEnds]
  PROVE  /\ Ticked(dry) \in [Runs -> PlanRecord]
         /\ \A r \in Runs :
              /\ Ticked(dry)[r].st = "running" =>
                   Ticked(dry)[r].job = "exec" /\ Ticked(dry)[r].approval = "approved"
              /\ Ticked(dry)[r].st = "absent" => plan[r].st = "absent"
<1> SUFFICES ASSUME NEW r \in Runs
             PROVE  /\ Ticked(dry)[r] \in PlanRecord
                    /\ Ticked(dry)[r].st = "running" =>
                         Ticked(dry)[r].job = "exec" /\ Ticked(dry)[r].approval = "approved"
                    /\ Ticked(dry)[r].st = "absent" => plan[r].st = "absent"
  BY DEF Ticked
<1>1. plan[r] \in PlanRecord
  BY Typed DEF IInv
<1>2. plan[r].st = "running" => plan[r].job = "exec" /\ plan[r].approval = "approved"
  BY DEF IInv, RunningHasExecutor, RunningApproved
<1>3. CASE r \in Pending
  <2>1. dry[r] \in {"awaiting_approval", "failed", "dry_running"}
    BY <1>3 DEF DryRunEnds
  <2>2. CASE dry[r] = "dry_running"
    <3>1. Ticked(dry)[r] = [plan[r] EXCEPT !.st = dry[r], !.job = "dry"]
      BY <1>3, <2>2 DEF Ticked, Pending, Approved, Expired
    <3> QED BY <3>1, <2>2, <1>1 DEF PlanRecord, PlanStates, Final
  <2>3. CASE dry[r] # "dry_running"
    <3>1. Ticked(dry)[r] = [plan[r] EXCEPT !.st = dry[r], !.approval = "pending"]
      BY <1>3, <2>3 DEF Ticked, Pending, Approved, Expired
    <3> QED BY <3>1, <2>1, <2>3, <1>1 DEF PlanRecord, PlanStates, Final
  <2> QED BY <2>2, <2>3
<1>4. CASE r \in Approved
  <2>1. Ticked(dry)[r] = [plan[r] EXCEPT !.st = "running", !.job = "exec", !.overdue = FALSE]
    BY <1>4 DEF Ticked, Pending, Approved, Expired
  <2>2. plan[r].approval = "approved"
    BY <1>4 DEF Approved
  <2> QED BY <2>1, <2>2, <1>1 DEF PlanRecord, PlanStates, Final
<1>5. CASE r \in Expired
  <2>1. Ticked(dry)[r] = [plan[r] EXCEPT !.st = "cancelled"]
    BY <1>5 DEF Ticked, Pending, Approved, Expired
  <2> QED BY <2>1, <1>1 DEF PlanRecord, PlanStates, Final
<1>6. CASE r \notin Pending \cup Approved \cup Expired
  <2>1. Ticked(dry)[r] = plan[r]
    BY <1>6 DEF Ticked
  <2> QED BY <2>1, <1>1, <1>2
<1> QED BY <1>3, <1>4, <1>5, <1>6

\* The settling of a caller by verdicts of its runs.
LEMMA SettledTyped ==
  ASSUME NEW row \in CallerRecord, NEW st \in Final, NEW V \in SUBSET {"done", "cancelled"},
         V # {} => st \in V,
         NEW settled,
         settled = IF V # {} /\ row.state \notin Terminal
                   THEN Lis([row EXCEPT !.state = st], st) ELSE row
  PROVE  /\ settled \in CallerRecord
         /\ settled.plan = row.plan /\ settled.state \in {row.state, "done", "cancelled"}
<1>1. CASE V # {} /\ row.state \notin Terminal
  <2>1. st \in {"done", "cancelled"} /\ st \in IssueStates
    BY <1>1 DEF IssueStates, Active, Terminal, Finished
  <2>2. [row EXCEPT !.state = st] \in CallerRecord
    BY <2>1 DEF CallerRecord
  <2>3. /\ Lis([row EXCEPT !.state = st], st) \in CallerRecord
        /\ Lis([row EXCEPT !.state = st], st).state = [row EXCEPT !.state = st].state
        /\ Lis([row EXCEPT !.state = st], st).plan = [row EXCEPT !.state = st].plan
    BY <2>1, <2>2, LisTyped
  <2>4. [row EXCEPT !.state = st].state = st /\ [row EXCEPT !.state = st].plan = row.plan
    BY DEF CallerRecord
  <2> QED BY <1>1, <2>1, <2>3, <2>4
<1>2. CASE ~(V # {} /\ row.state \notin Terminal)
  BY <1>2
<1> QED BY <1>1, <1>2

\* The tick in the terms of the lemmas above.
LEMMA TickSteps ==
  ASSUME IInv, Tick
  PROVE  /\ \E dry \in [Pending -> DryRunEnds] : plan' = Ticked(dry)
         /\ sub' = [r \in Runs |-> IF r \in Expired THEN CascadeSubs(sub[r]) ELSE sub[r]]
         /\ resumed' = resumed \cup Finalized /\ UNCHANGED ops
         /\ caller' \in [Callers -> CallerRecord]
         /\ \A c \in Callers : caller'[c].state = "awaiting_plan" =>
              /\ caller[c].state = "awaiting_plan" /\ caller'[c].plan = caller[c].plan
              /\ \A r \in Finalized : CallerOf[r] # c
<1> DEFINE sub1 == [r \in Runs |-> IF r \in Expired THEN CascadeSubs(sub[r]) ELSE sub[r]]
           woken == [c \in Callers |-> CascadeCaller(Resume(c, caller[c]), Expired)]
           Verdicts(pl, c) ==
             {Verdict(pl[r].st, sub1[r]) :
                r \in {q \in Runs : /\ CallerOf[q] = c /\ woken[c].plan # q
                                    /\ plan[q].st \in Final \/ q \in Expired
                                    /\ AllTerminal(sub1[q])}}
           settled(pl, sync) ==
             [c \in Callers |->
                IF Verdicts(pl, c) # {} /\ woken[c].state \notin Terminal
                THEN Lis([woken[c] EXCEPT !.state = sync[c]], sync[c]) ELSE woken[c]]
<1>1. PICK dry \in [Pending -> DryRunEnds], sync \in [Callers -> Final] :
        /\ \A c \in Callers : Verdicts(Ticked(dry), c) # {} => sync[c] \in Verdicts(Ticked(dry), c)
        /\ plan' = Ticked(dry)
        /\ sub' = sub1
        /\ caller' = [c \in Callers |-> Dispatched(settled(Ticked(dry), sync)[c])]
        /\ resumed' = resumed \cup Finalized
        /\ UNCHANGED ops
  BY Zenon DEF Tick, Ticked
<1>2. ASSUME NEW c \in Callers
      PROVE  /\ caller'[c] \in CallerRecord
             /\ caller'[c].state = "awaiting_plan" =>
                  /\ caller[c].state = "awaiting_plan" /\ caller'[c].plan = caller[c].plan
                  /\ \A r \in Finalized : CallerOf[r] # c
  <2> DEFINE s == settled(Ticked(dry), sync)[c]
  <2>1. caller[c] \in CallerRecord
    BY Typed DEF IInv
  <2>2. Resume(c, caller[c]) \in CallerRecord
    BY <2>1, ResumeTyped
  <2>3. /\ woken[c] \in CallerRecord /\ woken[c].plan = Resume(c, caller[c]).plan
        /\ woken[c].state \in {Resume(c, caller[c]).state, "cancelled"}
    BY <2>2, CascadeTyped
  <2>4. Verdicts(Ticked(dry), c) \in SUBSET {"done", "cancelled"}
    BY DEF Verdict
  <2>5. sync[c] \in Final /\ (Verdicts(Ticked(dry), c) # {} => sync[c] \in Verdicts(Ticked(dry), c))
    BY <1>1
  <2>6. s = IF Verdicts(Ticked(dry), c) # {} /\ woken[c].state \notin Terminal
            THEN Lis([woken[c] EXCEPT !.state = sync[c]], sync[c]) ELSE woken[c]
    BY Zenon
  <2> HIDE DEF woken, Verdicts, settled
  <2>7. /\ s \in CallerRecord
        /\ s.plan = woken[c].plan /\ s.state \in {woken[c].state, "done", "cancelled"}
    BY <2>3, <2>4, <2>5, <2>6, SettledTyped
  <2>8. caller'[c] = Dispatched(s)
    BY <1>1
  <2> HIDE DEF s
  <2>9. Dispatched(s) \in CallerRecord /\ Dispatched(s).plan = s.plan /\ Dispatched(s).state = s.state
    BY <2>7, DispatchedTyped
  <2>10. Resume(c, caller[c]).state = "awaiting_plan" =>
           /\ caller[c].state = "awaiting_plan" /\ Resume(c, caller[c]).plan = caller[c].plan
           /\ \A r \in Finalized : CallerOf[r] # c
    BY <2>1, ResumeTyped
  <2> QED BY <2>3, <2>7, <2>8, <2>9, <2>10
<1>3. caller' \in [Callers -> CallerRecord]
  BY <1>1, <1>2
<1> QED BY <1>1, <1>2, <1>3, Zenon

LEMMA TickKeeps ==
  ASSUME IInv, Tick
  PROVE  IInv'
<1>1. PICK dry \in [Pending -> DryRunEnds] : plan' = Ticked(dry)
  BY TickSteps
<1>2. TypeOK'
  <2>1. plan' \in [Runs -> PlanRecord]
    BY <1>1, TickPlans
  <2>2. sub' \in [Runs -> [Subs -> SubStates]]
    BY TickSteps, CascadeSubsTyped, Typed DEF IInv
  <2>3. resumed' \subseteq Runs /\ ops' \in 0..MaxOps
    BY TickSteps, Typed DEF IInv, Finalized
  <2> QED BY <2>1, <2>2, <2>3, TickSteps DEF TypeOK, PlanRecord, CallerRecord
<1>3. RunningHasExecutor' /\ RunningApproved'
  BY <1>1, TickPlans DEF RunningHasExecutor, RunningApproved
<1>4. WaiterHasPlan'
  <2> SUFFICES ASSUME NEW c \in Callers, caller'[c].state = "awaiting_plan"
               PROVE  /\ caller'[c].plan \in Runs \ resumed'
                      /\ CallerOf[caller'[c].plan] = c
                      /\ plan'[caller'[c].plan].st # "absent"
    BY DEF WaiterHasPlan
  <2>1. /\ caller[c].state = "awaiting_plan" /\ caller'[c].plan = caller[c].plan
        /\ \A r \in Finalized : CallerOf[r] # c
    BY TickSteps
  <2>2. /\ caller[c].plan \in Runs \ resumed /\ CallerOf[caller[c].plan] = c
        /\ plan[caller[c].plan].st # "absent"
    BY <2>1 DEF IInv, WaiterHasPlan
  <2> QED BY <2>1, <2>2, <1>1, TickPlans, TickSteps
<1>5. ResumedExist'
  <2> SUFFICES ASSUME NEW r \in resumed' PROVE plan'[r].st # "absent"
    BY DEF ResumedExist
  <2>1. r \in Runs /\ plan[r].st # "absent"
    BY TickSteps, Typed DEF IInv, ResumedExist, Finalized, Final
  <2> QED BY <2>1, <1>1, TickPlans
<1> QED BY <1>2, <1>3, <1>4, <1>5 DEF IInv
------------------------------------------------------------------------------
(* The steps of agents, executors, operators and crashes. *)

\* A step that changes nothing but one plan run keeps the invariant if it starts
\* no run and removes none.
LEMMA PlanStep ==
  ASSUME IInv, NEW r \in Runs, NEW p \in PlanRecord,
         plan' = [plan EXCEPT ![r] = p],
         p.st = "running" => p.job = "exec" /\ p.approval = "approved",
         p.st = "absent" => plan[r].st = "absent",
         UNCHANGED <<sub, caller, resumed>>, ops' \in 0..MaxOps
  PROVE  IInv'
<1>1. TypeOK'
  BY Typed DEF IInv, TypeOK, PlanRecord, CallerRecord
<1>2. plan \in [Runs -> PlanRecord]
  BY Typed DEF IInv
<1>3. RunningHasExecutor' /\ RunningApproved'
  BY <1>2 DEF IInv, RunningHasExecutor, RunningApproved
<1>4. WaiterHasPlan'
  BY <1>2 DEF IInv, WaiterHasPlan
<1>5. ResumedExist'
  BY <1>2, Typed DEF IInv, ResumedExist
<1> QED BY <1>1, <1>3, <1>4, <1>5 DEF IInv

\* A step that changes nothing but the rows of one caller keeps the invariant if
\* it does not make the caller wait for another plan run.
LEMMA CallerStep ==
  ASSUME IInv, NEW c \in Callers, NEW row \in CallerRecord,
         caller' = [caller EXCEPT ![c] = row],
         row.state = "awaiting_plan" => row.plan = caller[c].plan
                                        /\ caller[c].state = "awaiting_plan",
         UNCHANGED <<plan, sub, resumed>>, ops' \in 0..MaxOps
  PROVE  IInv'
<1>1. TypeOK'
  BY Typed DEF IInv, TypeOK, PlanRecord, CallerRecord
<1>2. caller \in [Callers -> CallerRecord]
  BY Typed DEF IInv
<1>3. WaiterHasPlan'
  BY <1>2 DEF IInv, WaiterHasPlan
<1> QED BY <1>1, <1>3 DEF IInv, RunningHasExecutor, RunningApproved, ResumedExist

LEMMA SubStep ==
  ASSUME IInv, sub' \in [Runs -> [Subs -> SubStates]],
         UNCHANGED <<plan, caller, resumed>>, ops' \in 0..MaxOps
  PROVE  IInv'
BY DEF IInv, TypeOK, RunningHasExecutor, RunningApproved, WaiterHasPlan, ResumedExist

LEMMA EventTyped ==
  ASSUME IInv, NEW o, Event(o)
  PROVE  ops' \in 0..MaxOps
<1>1. ops \in 0..MaxOps
  BY Typed DEF IInv
<1>2. ops < MaxOps /\ ops' = ops + 1
  BY DEF Event
<1> QED BY <1>1, <1>2, OpsAssumption

\* The rows an agent leaves.
LEMMA EndOfAgentTyped ==
  ASSUME NEW row \in CallerRecord, NEW end \in EndOfAgent(row)
  PROVE  /\ end \in CallerRecord
         /\ end.state = "awaiting_plan" => end.plan = row.plan /\ row.state = "awaiting_plan"
<1>1. "awaiting_plan" \in IssueStates /\ "in_review" \in IssueStates
      /\ "done" \in IssueStates /\ "cancelled" \in IssueStates /\ "blocked" \in IssueStates
  BY DEF IssueStates, Active, Terminal, Finished
<1>2. "released" \in RowStates /\ "awaiting_plan" \in RowStates
      /\ "retry_queued" \in RowStates /\ "in_review" \in RowStates
  BY DEF RowStates
<1>3. ASSUME NEW st \in {"done", "cancelled", "blocked"},
             end = [row EXCEPT !.busy = FALSE, !.state = st, !.row = "released", !.lis = st]
      PROVE  end \in CallerRecord /\ end.state # "awaiting_plan"
  BY <1>1, <1>2, <1>3 DEF CallerRecord
<1>4. CASE /\ row.state = "awaiting_plan"
           /\ end = [row EXCEPT !.busy = FALSE, !.row = "awaiting_plan", !.lis = "awaiting_plan"]
  BY <1>1, <1>2, <1>4 DEF CallerRecord
<1>5. CASE end = [row EXCEPT !.busy = FALSE, !.row = "retry_queued"]
  BY <1>1, <1>2, <1>5 DEF CallerRecord
<1>6. CASE end = [row EXCEPT !.busy = FALSE, !.state = "in_review", !.row = "in_review",
                             !.lis = "in_review"]
  BY <1>1, <1>2, <1>6 DEF CallerRecord
<1> QED BY <1>3, <1>4, <1>5, <1>6 DEF EndOfAgent

LEMMA SpawnKeeps ==
  ASSUME IInv, NEW r \in Runs, Spawn(r)
  PROVE  IInv'
<1>1. PICK c \in Callers :
        /\ CallerOf[r] = c
        /\ caller' = [caller EXCEPT ![c].plan = r, ![c].state = "awaiting_plan",
                                    ![c].row = "released", ![c].lis = "awaiting_plan"]
  BY DEF Spawn
<1>2. plan[r].st = "absent" /\ plan' = [plan EXCEPT ![r].st = "pending"]
      /\ UNCHANGED <<sub, resumed, ops>>
  BY DEF Spawn
<1>3. plan \in [Runs -> PlanRecord] /\ caller \in [Callers -> CallerRecord]
  BY Typed DEF IInv
<1> DEFINE row == [caller[c] EXCEPT !.plan = r, !.state = "awaiting_plan",
                                    !.row = "released", !.lis = "awaiting_plan"]
           p == [plan[r] EXCEPT !.st = "pending"]
<1>4. row \in CallerRecord /\ row.plan = r
  BY <1>3 DEF CallerRecord, IssueStates, Active, Terminal, RowStates
<1>5. p \in PlanRecord /\ p.st = "pending"
  BY <1>3 DEF PlanRecord, PlanStates
<1>6. caller' = [caller EXCEPT ![c] = row]
  BY <1>1
<1>7. plan' = [plan EXCEPT ![r] = p]
  BY <1>2
<1> HIDE DEF row, p
<1>8. plan' \in [Runs -> PlanRecord] /\ caller' \in [Callers -> CallerRecord]
  BY <1>3, <1>4, <1>5, <1>6, <1>7
<1>9. TypeOK'
  BY <1>2, <1>8, Typed DEF IInv, TypeOK, PlanRecord, CallerRecord
<1>10. RunningHasExecutor' /\ RunningApproved'
  BY <1>3, <1>5, <1>7 DEF IInv, RunningHasExecutor, RunningApproved
<1>11. r \notin resumed
  BY <1>2 DEF IInv, ResumedExist
<1>12. WaiterHasPlan'
  BY <1>1, <1>2, <1>3, <1>4, <1>5, <1>6, <1>7, <1>11 DEF IInv, WaiterHasPlan
<1>13. ResumedExist'
  BY <1>2, <1>3, <1>5, <1>7, Typed DEF IInv, ResumedExist
<1> QED BY <1>9, <1>10, <1>12, <1>13 DEF IInv
LEMMA DeleteKeeps ==
  ASSUME IInv, NEW r \in Runs, Delete(r)
  PROVE  IInv'
<1> DEFINE p == [plan[r] EXCEPT !.st = "cancelled"]
<1>1. /\ plan[r].st # "absent" /\ plan' = [plan EXCEPT ![r] = p]
      /\ sub' = [sub EXCEPT ![r] = CascadeSubs(@)]
      /\ caller' = [c \in Callers |-> CascadeCaller(caller[c], {r})]
      /\ UNCHANGED resumed
  BY DEF Delete
<1>2. ops' \in 0..MaxOps
  BY EventTyped DEF Delete
<1>3. plan \in [Runs -> PlanRecord] /\ caller \in [Callers -> CallerRecord]
      /\ sub \in [Runs -> [Subs -> SubStates]]
  BY Typed DEF IInv
<1>4. p \in PlanRecord /\ p.st = "cancelled"
  BY <1>3 DEF PlanRecord, PlanStates, Final
<1> HIDE DEF p
<1>5. \A c \in Callers : /\ caller'[c] \in CallerRecord
                         /\ caller'[c].plan = caller[c].plan
                         /\ caller'[c].state \in {caller[c].state, "cancelled"}
  BY <1>1, <1>3, CascadeTyped
<1>6. TypeOK'
  <2>1. caller' \in [Callers -> CallerRecord]
    BY <1>1, <1>5
  <2>2. sub' \in [Runs -> [Subs -> SubStates]]
    BY <1>1, <1>3, CascadeSubsTyped
  <2>3. plan' \in [Runs -> PlanRecord]
    BY <1>1, <1>3, <1>4
  <2> QED BY <1>1, <1>2, <2>1, <2>2, <2>3, Typed DEF IInv, TypeOK, PlanRecord, CallerRecord
<1>7. RunningHasExecutor' /\ RunningApproved'
  BY <1>1, <1>3, <1>4 DEF IInv, RunningHasExecutor, RunningApproved
<1>8. WaiterHasPlan'
  <2> SUFFICES ASSUME NEW c \in Callers, caller'[c].state = "awaiting_plan"
               PROVE  /\ caller'[c].plan \in Runs \ resumed'
                      /\ CallerOf[caller'[c].plan] = c
                      /\ plan'[caller'[c].plan].st # "absent"
    BY DEF WaiterHasPlan
  <2>1. caller[c].state = "awaiting_plan" /\ caller'[c].plan = caller[c].plan
    BY <1>5
  <2>2. /\ caller[c].plan \in Runs \ resumed /\ CallerOf[caller[c].plan] = c
        /\ plan[caller[c].plan].st # "absent"
    BY <2>1 DEF IInv, WaiterHasPlan
  <2> QED BY <1>1, <1>3, <1>4, <2>1, <2>2
<1>9. ResumedExist'
  BY <1>1, <1>3, <1>4, Typed DEF IInv, ResumedExist
<1> QED BY <1>6, <1>7, <1>8, <1>9 DEF IInv

LEMMA CrashKeeps ==
  ASSUME IInv, CrashRestart
  PROVE  IInv'
<1>1. plan \in [Runs -> PlanRecord] /\ caller \in [Callers -> CallerRecord]
  BY Typed DEF IInv
<1>2. ASSUME NEW r \in Runs
      PROVE  /\ plan'[r] \in PlanRecord /\ plan'[r].st = plan[r].st
             /\ plan'[r].approval = plan[r].approval
             /\ plan'[r].st = "running" => plan'[r].job = "exec"
  <2> DEFINE job == IF plan[r].st = "running" THEN "exec" ELSE ""
             overdue == IF plan[r].st = "running" THEN FALSE ELSE plan[r].overdue
  <2>1. plan'[r] = [plan[r] EXCEPT !.request = {}, !.job = job, !.overdue = overdue]
    BY DEF CrashRestart
  <2>2. /\ job \in {"", "dry", "exec"} /\ overdue \in BOOLEAN
        /\ plan[r].st = "running" => job = "exec"
    BY <1>1 DEF PlanRecord
  <2> HIDE DEF job, overdue
  <2> DEFINE p == [plan[r] EXCEPT !.request = {}]
  <2>3. p \in PlanRecord /\ p.st = plan[r].st /\ p.approval = plan[r].approval
    BY <1>1, RequestTyped
  <2>4. plan'[r] = [p EXCEPT !.job = job, !.overdue = overdue]
    BY <2>1
  <2> HIDE DEF p
  <2> QED BY <2>2, <2>3, <2>4 DEF PlanRecord
<1>3. ASSUME NEW c \in Callers
      PROVE  /\ caller'[c] \in CallerRecord /\ caller'[c].state = caller[c].state
             /\ caller'[c].plan = caller[c].plan
  BY <1>1 DEF CrashRestart, CallerRecord, RowStates
<1>4. /\ plan' \in [Runs -> PlanRecord] /\ caller' \in [Callers -> CallerRecord]
      /\ UNCHANGED <<sub, resumed>> /\ ops' \in 0..MaxOps
  BY <1>2, <1>3, EventTyped DEF CrashRestart
<1>5. TypeOK'
  BY <1>4, Typed DEF IInv, TypeOK, PlanRecord, CallerRecord
<1>6. RunningHasExecutor' /\ RunningApproved'
  BY <1>2 DEF IInv, RunningHasExecutor, RunningApproved
<1>7. WaiterHasPlan'
  BY <1>2, <1>3, <1>4 DEF IInv, WaiterHasPlan
<1>8. ResumedExist'
  BY <1>2, <1>4, Typed DEF IInv, ResumedExist
<1> QED BY <1>5, <1>6, <1>7, <1>8 DEF IInv
------------------------------------------------------------------------------
LEMMA Initially == Init => IInv
<1> SUFFICES ASSUME Init PROVE IInv
  OBVIOUS
<1>1. plan = [r \in Runs |-> Absent] /\ Absent \in PlanRecord /\ Absent.st = "absent"
  BY DEF Init, Absent, PlanRecord, PlanStates
<1>2. caller \in [Callers -> CallerRecord] /\ \A c \in Callers : caller[c].state = "todo"
  BY DEF Init, CallerRecord, IssueStates, Active, Terminal, RowStates
<1>3. sub \in [Runs -> [Subs -> SubStates]] /\ resumed = {} /\ ops \in 0..MaxOps
  <2>1. 0 \in 0..MaxOps
    BY OpsAssumption
  <2>2. "none" \in SubStates
    BY DEF SubStates
  <2> QED BY <2>1, <2>2 DEF Init
<1>4. TypeOK
  BY <1>1, <1>2, <1>3, Typed
<1>5. RunningHasExecutor /\ RunningApproved /\ WaiterHasPlan /\ ResumedExist
  BY <1>1, <1>2, <1>3 DEF RunningHasExecutor, RunningApproved, WaiterHasPlan, ResumedExist
<1> QED BY <1>4, <1>5 DEF IInv

LEMMA Stuttering == IInv /\ UNCHANGED vars => IInv'
BY DEF vars, IInv, TypeOK, RunningHasExecutor, RunningApproved, WaiterHasPlan, ResumedExist

LEMMA Inductive == IInv /\ [Next]_vars => IInv'
<1> SUFFICES ASSUME IInv, Next PROVE IInv'
  BY Stuttering
<1>0. /\ plan \in [Runs -> PlanRecord] /\ caller \in [Callers -> CallerRecord]
      /\ sub \in [Runs -> [Subs -> SubStates]] /\ ops \in 0..MaxOps
  BY Typed DEF IInv
<1>1. CASE Tick
  BY <1>1, TickKeeps
<1>2. ASSUME NEW r \in Runs, Spawn(r) PROVE IInv'
  BY <1>2, SpawnKeeps
<1>3. ASSUME NEW r \in Runs, Create(r) PROVE IInv'
  <2> DEFINE p == [plan[r] EXCEPT !.st = "pending"]
  <2>1. p \in PlanRecord /\ p.st = "pending"
    BY <1>0 DEF PlanRecord, PlanStates
  <2>2. plan' = [plan EXCEPT ![r] = p] /\ UNCHANGED <<sub, caller, resumed>>
    BY <1>3 DEF Create
  <2>3. ops' \in 0..MaxOps
    BY <1>3, <1>0, EventTyped DEF Create
  <2> QED BY <2>1, <2>2, <2>3, PlanStep
<1>4. ASSUME NEW r \in Runs, DryRunTimesOut(r) PROVE IInv'
  <2> DEFINE p == [plan[r] EXCEPT !.st = "failed", !.approval = "pending", !.job = ""]
  <2>1. p \in PlanRecord /\ p.st = "failed"
    BY <1>0 DEF PlanRecord, PlanStates, Final
  <2>2. plan' = [plan EXCEPT ![r] = p] /\ UNCHANGED <<sub, caller, resumed, ops>>
    BY <1>4 DEF DryRunTimesOut
  <2> QED BY <2>1, <2>2, <1>0, PlanStep
<1>5. ASSUME NEW r \in Runs, CreateSub(r) PROVE IInv'
  BY <1>0, <1>5, SubStep DEF CreateSub, SubStates
<1>6. ASSUME NEW r \in Runs, WallTime(r) PROVE IInv'
  <2> DEFINE p == [plan[r] EXCEPT !.overdue = TRUE]
  <2>1. p \in PlanRecord /\ p.st = plan[r].st /\ p.job = plan[r].job /\ p.approval = plan[r].approval
    BY <1>0 DEF PlanRecord
  <2>2. plan' = [plan EXCEPT ![r] = p] /\ UNCHANGED <<sub, caller, resumed, ops>>
    BY <1>6 DEF WallTime
  <2>3. p.st = "running" => p.job = "exec" /\ p.approval = "approved"
    BY <2>1 DEF IInv, RunningHasExecutor, RunningApproved
  <2> QED BY <2>1, <2>2, <2>3, <1>0, PlanStep
<1>7. ASSUME NEW r \in Runs, Succeeds(r) \/ Fails(r) PROVE IInv'
  <2>1. PICK st \in {"done", "failed"} : Finish(r, st)
    BY <1>7 DEF Succeeds, Fails
  <2> DEFINE p == [plan[r] EXCEPT !.st = st, !.job = ""]
  <2>2. p \in PlanRecord /\ p.st \in {"done", "failed"}
    BY <1>0 DEF PlanRecord, PlanStates, Final
  <2>3. plan' = [plan EXCEPT ![r] = p] /\ UNCHANGED <<sub, caller, resumed, ops>>
    BY <2>1 DEF Finish
  <2> QED BY <2>2, <2>3, <1>0, PlanStep
<1>8. ASSUME NEW r \in Runs, NEW o \in Operators, NEW what \in {"approve", "reject"},
             Ask(r, o, what)
      PROVE  IInv'
  <2> DEFINE p == [plan[r] EXCEPT !.request = @ \cup {<<o, what>>}]
  <2>0. plan[r] \in PlanRecord /\ plan[r].request \cup {<<o, what>>} \in SUBSET Request
    <3>1. plan[r] \in PlanRecord /\ plan[r].request \in SUBSET Request
      BY <1>0 DEF PlanRecord
    <3>2. <<o, what>> \in Request
      BY DEF Request
    <3> QED BY <3>1, <3>2
  <2>1. p \in PlanRecord /\ p.st = "awaiting_approval"
    BY <2>0, RequestTyped, <1>8 DEF Ask
  <2>2. plan' = [plan EXCEPT ![r] = p] /\ UNCHANGED <<sub, caller, resumed>>
    BY <1>8 DEF Ask
  <2>3. ops' \in 0..MaxOps
    BY <1>8, EventTyped DEF Ask
  <2> QED BY <2>1, <2>2, <2>3, PlanStep
<1>9. ASSUME NEW r \in Runs, NEW o \in Operators, Approve(r, o) PROVE IInv'
  <2> DEFINE p == [plan[r] EXCEPT !.request = @ \ {<<o, "approve">>}, !.approval = "approved"]
  <2>1. p \in PlanRecord /\ p.st = plan[r].st /\ p.job = plan[r].job /\ p.approval = "approved"
    BY <1>0 DEF PlanRecord
  <2>2. plan' = [plan EXCEPT ![r] = p] /\ UNCHANGED <<sub, caller, resumed, ops>>
    BY <1>9 DEF Approve
  <2>3. p.st = "running" => p.job = "exec" /\ p.approval = "approved"
    BY <2>1 DEF IInv, RunningHasExecutor
  <2> QED BY <2>1, <2>2, <2>3, <1>0, PlanStep
<1>10. ASSUME NEW r \in Runs, NEW o \in Operators, Reject(r, o) PROVE IInv'
  <2> DEFINE p == [plan[r] EXCEPT !.request = @ \ {<<o, "reject">>},
                                  !.approval = "rejected", !.st = "cancelled"]
  <2>1. p \in PlanRecord /\ p.st = "cancelled"
    BY <1>0 DEF PlanRecord, PlanStates, Final
  <2>2. plan' = [plan EXCEPT ![r] = p] /\ UNCHANGED <<sub, caller, resumed, ops>>
    BY <1>10 DEF Reject
  <2> QED BY <2>1, <2>2, <1>0, PlanStep
<1>11. ASSUME NEW r \in Runs, Delete(r) PROVE IInv'
  BY <1>11, DeleteKeeps
<1>12. ASSUME NEW r \in Runs, NEW k \in Subs, SubEnds(r, k) PROVE IInv'
  BY <1>0, <1>12, SubStep DEF SubEnds, SubStates, Terminal
<1>13. ASSUME NEW r \in Runs, NEW k \in Subs, SubChanges(r, k) PROVE IInv'
  BY <1>0, <1>13, SubStep, EventTyped DEF SubChanges, SubStates, Terminal
<1>14. ASSUME NEW c \in Callers, AgentEnds(c) PROVE IInv'
  <2>1. PICK row \in EndOfAgent(caller[c]) : caller' = [caller EXCEPT ![c] = row]
    BY <1>14 DEF AgentEnds
  <2>2. /\ row \in CallerRecord
        /\ row.state = "awaiting_plan" => row.plan = caller[c].plan
                                          /\ caller[c].state = "awaiting_plan"
    BY <1>0, EndOfAgentTyped
  <2>3. UNCHANGED <<plan, sub, resumed, ops>>
    BY <1>14 DEF AgentEnds
  <2> QED BY <2>1, <2>2, <2>3, <1>0, CallerStep
<1>15. ASSUME NEW c \in Callers, Retrigger(c) PROVE IInv'
  <2> DEFINE row == [caller[c] EXCEPT !.state = "todo", !.row = "released", !.lis = ""]
  <2>1. row \in CallerRecord /\ row.state = "todo"
    BY <1>0 DEF CallerRecord, IssueStates, Active, Terminal, RowStates
  <2>2. caller' = [caller EXCEPT ![c] = row] /\ UNCHANGED <<plan, sub, resumed>>
    BY <1>15 DEF Retrigger
  <2>3. ops' \in 0..MaxOps
    BY <1>15, EventTyped DEF Retrigger
  <2> QED BY <2>1, <2>2, <2>3, CallerStep
<1>16. CASE CrashRestart
  BY <1>16, CrashKeeps
<1>17. ASSUME NEW c \in Callers, Suggest(c) PROVE IInv'
  <2>1. PICK st \in Active \cup {"in_review"} : caller' = [caller EXCEPT ![c].state = st]
    BY <1>17 DEF Suggest
  <2> DEFINE row == [caller[c] EXCEPT !.state = st]
  <2>2. row \in CallerRecord /\ row.state # "awaiting_plan"
    BY <1>0 DEF CallerRecord, IssueStates, Active
  <2>3. caller' = [caller EXCEPT ![c] = row]
    BY <2>1
  <2>4. UNCHANGED <<plan, sub, resumed>> /\ ops' \in 0..MaxOps
    BY <1>17, EventTyped DEF Suggest
  <2> HIDE DEF row
  <2> QED BY <2>2, <2>3, <2>4, CallerStep
<1> QED BY <1>1, <1>2, <1>3, <1>4, <1>5, <1>6, <1>7, <1>8, <1>9, <1>10, <1>11, <1>12, <1>13, <1>14,
           <1>15, <1>16, <1>17 DEF Next

THEOREM InductiveInvariant == Spec => []IInv
BY Initially, Inductive, PTL DEF Spec

\* Every variable has its type in every reachable state.
THEOREM PlanTypeCorrect == Spec => []TypeOK
BY InductiveInvariant, PTL DEF IInv

\* However plan runs, crashes and requests interleave, a running plan has an
\* executor and an approval that still stands (plan-tick.ts:29-39, 84-99,
\* plan-runs.ts:141-178).
THEOREM RunningLawfulTheorem == Spec => []RunningLawful
BY InductiveInvariant, PTL DEF IInv, RunningLawful

\* A waiting caller is linked to a plan run of its own that has not yet woken it
\* (plan-tick.ts:42-81, worker.ts:551-560).
THEOREM WaiterHasPlanTheorem == Spec => []WaiterHasPlan
BY InductiveInvariant, PTL DEF IInv
------------------------------------------------------------------------------
(* What has ended stays so. *)

\* No sub-loop of a tick touches the state of a caller that has ended.
LEMMA TickLeavesEnded ==
  ASSUME IInv, Tick, NEW c \in Callers, caller[c].state \in Finished
  PROVE  caller'[c].state = caller[c].state
<1> DEFINE woken == CascadeCaller(Resume(c, caller[c]), Expired)
<1>1. Resume(c, caller[c]) = caller[c]
  BY DEF Resume
<1>2. woken = caller[c]
  BY <1>1 DEF CascadeCaller
<1>3. caller[c].state \in Terminal
  BY DEF Terminal
<1>4. caller'[c] = Dispatched(caller[c])
  BY <1>2, <1>3, Zenon DEF Tick
<1>5. caller[c] \in CallerRecord
  BY Typed DEF IInv
<1> QED BY <1>4, <1>5, DispatchedTyped

\* What may change the state of an issue that has ended.
Own(c) == \/ Suggest(c) \/ AgentEnds(c) \/ Retrigger(c)
          \/ \E r \in Runs : CallerOf[r] = c /\ Spawn(r)

LEMMA EndedStep ==
  ASSUME IInv, [Next]_vars, NEW c \in Callers,
         caller[c].state \in Finished, ~Own(c)
  PROVE  caller'[c].state = caller[c].state
<1>0. caller \in [Callers -> CallerRecord]
  BY Typed DEF IInv
<1>1. CASE Tick
  BY <1>1, TickLeavesEnded
<1>2. CASE caller' = caller
  BY <1>2
<1>3. ASSUME NEW r \in Runs, Spawn(r)
      PROVE  caller'[c].state = caller[c].state
  <2>1. PICK d \in Callers :
          /\ CallerOf[r] = d
          /\ caller' = [caller EXCEPT ![d].plan = r, ![d].state = "awaiting_plan",
                                      ![d].row = "released", ![d].lis = "awaiting_plan"]
    BY <1>3 DEF Spawn
  <2>2. c # d
    BY <1>3, <2>1 DEF Own
  <2> QED BY <1>0, <2>1, <2>2
<1>4. ASSUME NEW r \in Runs, Delete(r)
      PROVE  caller'[c].state = caller[c].state
  BY <1>4 DEF Delete, CascadeCaller
<1>5. ASSUME NEW d \in Callers, Suggest(d) \/ AgentEnds(d) \/ Retrigger(d)
      PROVE  caller'[c].state = caller[c].state
  <2>1. c # d
    BY <1>5 DEF Own
  <2>2. caller'[c] = caller[c]
    BY <1>0, <1>5, <2>1 DEF Suggest, AgentEnds, Retrigger
  <2> QED BY <2>2
<1>6. CASE CrashRestart
  BY <1>0, <1>6 DEF CrashRestart, CallerRecord
<1>7. ASSUME NEW r \in Runs,
             \/ Create(r) \/ DryRunTimesOut(r) \/ CreateSub(r) \/ WallTime(r)
             \/ Succeeds(r) \/ Fails(r)
             \/ \E o \in Operators :
                  \/ \E what \in {"approve", "reject"} : Ask(r, o, what)
                  \/ Approve(r, o) \/ Reject(r, o)
             \/ \E k \in Subs : SubEnds(r, k) \/ SubChanges(r, k)
      PROVE  caller' = caller
  BY <1>7 DEF Create, DryRunTimesOut, CreateSub, WallTime, Succeeds, Fails, Finish, Approve,
              Reject, Ask, SubEnds, SubChanges
<1>8. CASE UNCHANGED vars
  BY <1>8 DEF vars
<1> QED BY <1>1, <1>2, <1>3, <1>4, <1>5, <1>6, <1>7, <1>8 DEF Next

\* The end of a plan run, by its script, by time, by an operator or by a tick that
\* resumes callers, leaves the state of an issue that has ended alone: only its own
\* agent, when it hands over, suggests a state or ends, or a retrigger changes it
\* (plan-tick.ts:52-64, plan-progress.ts:57-60, mcp/tools.ts:342).
THEOREM EndedStaysEndedTheorem == Spec => EndedStaysEnded
<1>1. IInv /\ [Next]_vars =>
        [\A c \in Callers :
           caller[c].state \in Finished /\ caller'[c].state # caller[c].state
           => \/ Suggest(c) \/ AgentEnds(c) \/ Retrigger(c)
              \/ \E r \in Runs : CallerOf[r] = c /\ Spawn(r)]_vars
  BY EndedStep DEF Own
<1> QED BY <1>1, InductiveInvariant, PTL DEF Spec, EndedStaysEnded
------------------------------------------------------------------------------
(* The hand-off as a call that returns. *)

\* What is recorded as having woken its caller has ended.
ResumedEnded == \A r \in resumed : plan[r].st \in Final

\* Nothing is at work on a run that has not been created.
AbsentIdle == \A r \in Runs : plan[r].st = "absent" => plan[r].job = "" /\ plan[r].request = {}

CallInv == IInv /\ ResumedEnded /\ AbsentIdle

\* What a step may make of a run: ends are final, only a creation creates.
Onward(r) ==
  /\ plan[r].st \in Final => plan'[r].st \in Final
  /\ plan[r].st # "absent" => plan'[r].st # "absent"
  /\ plan[r].st = "absent" /\ ~Spawn(r) /\ ~Create(r) =>
       plan'[r].st = "absent" /\ plan'[r].job = "" /\ plan'[r].request = {}

LEMMA OnwardSame ==
  ASSUME AbsentIdle, NEW r \in Runs,
         plan'[r].st = plan[r].st,
         plan[r].st = "absent" => plan'[r].job = plan[r].job /\ plan'[r].request = plan[r].request
  PROVE  Onward(r)
BY DEF AbsentIdle, Onward

\* A step that changes a run that exists, and does not reopen it.
LEMMA OnwardOne ==
  ASSUME CallInv, NEW r \in Runs, NEW q \in Runs, NEW p \in PlanRecord,
         plan' = [plan EXCEPT ![q] = p],
         plan[q].st # "absent", p.st \in Final \cup {plan[q].st}
  PROVE  Onward(r)
<1>1. plan \in [Runs -> PlanRecord]
  BY Typed DEF CallInv, IInv
<1>2. CASE q = r
  <2>1. plan'[r] = p
    BY <1>1, <1>2
  <2>2. "absent" \notin Final
    BY DEF Final
  <2> QED BY <1>2, <2>1, <2>2 DEF Onward
<1>3. CASE q # r
  <2>1. plan'[r] = plan[r]
    BY <1>1, <1>3
  <2> QED BY <2>1, OnwardSame DEF CallInv
<1> QED BY <1>2, <1>3

\* The tick leaves runs that have ended alone, and creates none.
LEMMA OnwardTick ==
  ASSUME CallInv, Tick, NEW r \in Runs
  PROVE  Onward(r)
<1>1. PICK dry \in [Pending -> DryRunEnds] : plan' = Ticked(dry)
  BY TickSteps DEF CallInv
<1>2. CASE plan[r].st \in Final \cup {"absent"}
  <2>1. r \notin Pending \cup Approved \cup Expired
    BY <1>2 DEF Final, Pending, Approved, Expired
  <2>2. plan'[r] = plan[r]
    BY <1>1, <2>1 DEF Ticked
  <2> QED BY <2>2, OnwardSame DEF CallInv
<1>3. CASE plan[r].st \notin Final \cup {"absent"}
  <2>1. plan'[r].st = "absent" => plan[r].st = "absent"
    BY <1>1, TickPlans DEF CallInv
  <2> QED BY <1>3, <2>1 DEF Onward
<1> QED BY <1>2, <1>3

LEMMA OnwardStep ==
  ASSUME CallInv, [Next]_vars, NEW r \in Runs
  PROVE  Onward(r)
<1>0. plan \in [Runs -> PlanRecord]
  BY Typed DEF CallInv, IInv
<1>1. CASE Tick
  BY <1>1, OnwardTick
<1>2. ASSUME NEW q \in Runs, Spawn(q) \/ Create(q)
      PROVE  Onward(r)
  <2>1. plan[q].st = "absent" /\ plan' = [plan EXCEPT ![q].st = "pending"]
    BY <1>2 DEF Spawn, Create
  <2>2. CASE q = r
    <3>1. "absent" \notin Final
      BY DEF Final
    <3> QED BY <1>2, <2>1, <2>2, <3>1 DEF Onward
  <2>3. CASE q # r
    <3>1. plan'[r] = plan[r]
      BY <1>0, <2>1, <2>3
    <3> QED BY <3>1, OnwardSame DEF CallInv
  <2> QED BY <2>2, <2>3
<1>3. ASSUME NEW q \in Runs, DryRunTimesOut(q)
      PROVE  Onward(r)
  <2> DEFINE p == [plan[q] EXCEPT !.st = "failed", !.approval = "pending", !.job = ""]
  <2>1. p \in PlanRecord /\ p.st \in Final
    BY <1>0 DEF PlanRecord, PlanStates, Final
  <2>2. plan' = [plan EXCEPT ![q] = p] /\ plan[q].job = "dry"
    BY <1>3 DEF DryRunTimesOut
  <2>3. plan[q].st # "absent"
    BY <2>2 DEF CallInv, AbsentIdle
  <2> HIDE DEF p
  <2> QED BY <2>1, <2>2, <2>3, OnwardOne
<1>4. ASSUME NEW q \in Runs, WallTime(q)
      PROVE  Onward(r)
  <2> DEFINE p == [plan[q] EXCEPT !.overdue = TRUE]
  <2>1. p \in PlanRecord /\ p.st = plan[q].st
    BY <1>0 DEF PlanRecord
  <2>2. plan' = [plan EXCEPT ![q] = p] /\ (plan[q].st = "running" \/ plan[q].job = "exec")
    BY <1>4 DEF WallTime
  <2>3. plan[q].st # "absent"
    BY <2>2 DEF CallInv, AbsentIdle
  <2> HIDE DEF p
  <2> QED BY <2>1, <2>2, <2>3, OnwardOne
<1>5. ASSUME NEW q \in Runs, Succeeds(q) \/ Fails(q)
      PROVE  Onward(r)
  <2>1. PICK st \in {"done", "failed"} : Finish(q, st)
    BY <1>5 DEF Succeeds, Fails
  <2> DEFINE p == [plan[q] EXCEPT !.st = st, !.job = ""]
  <2>2. p \in PlanRecord /\ p.st \in Final
    BY <1>0 DEF PlanRecord, PlanStates, Final
  <2>3. plan' = [plan EXCEPT ![q] = p] /\ plan[q].job = "exec"
    BY <2>1 DEF Finish
  <2>4. plan[q].st # "absent"
    BY <2>3 DEF CallInv, AbsentIdle
  <2> HIDE DEF p
  <2> QED BY <2>2, <2>3, <2>4, OnwardOne
<1>6. ASSUME NEW q \in Runs, NEW o \in Operators, NEW what \in {"approve", "reject"},
             Ask(q, o, what)
      PROVE  Onward(r)
  <2> DEFINE p == [plan[q] EXCEPT !.request = @ \cup {<<o, what>>}]
  <2>0. plan[q] \in PlanRecord /\ plan[q].request \cup {<<o, what>>} \in SUBSET Request
    <3>1. plan[q] \in PlanRecord /\ plan[q].request \in SUBSET Request
      BY <1>0 DEF PlanRecord
    <3>2. <<o, what>> \in Request
      BY DEF Request
    <3> QED BY <3>1, <3>2
  <2>1. p \in PlanRecord /\ p.st = plan[q].st
    BY <2>0, RequestTyped
  <2>2. plan' = [plan EXCEPT ![q] = p] /\ plan[q].st # "absent"
    BY <1>6 DEF Ask
  <2> HIDE DEF p
  <2> QED BY <2>1, <2>2, OnwardOne
<1>7. ASSUME NEW q \in Runs, NEW o \in Operators, Approve(q, o)
      PROVE  Onward(r)
  <2> DEFINE p == [plan[q] EXCEPT !.request = @ \ {<<o, "approve">>}, !.approval = "approved"]
  <2>1. p \in PlanRecord /\ p.st = plan[q].st
    BY <1>0 DEF PlanRecord
  <2>2. plan' = [plan EXCEPT ![q] = p] /\ plan[q].request # {}
    BY <1>7 DEF Approve
  <2>3. plan[q].st # "absent"
    BY <2>2 DEF CallInv, AbsentIdle
  <2> HIDE DEF p
  <2> QED BY <2>1, <2>2, <2>3, OnwardOne
<1>8. ASSUME NEW q \in Runs, NEW o \in Operators, Reject(q, o)
      PROVE  Onward(r)
  <2> DEFINE p == [plan[q] EXCEPT !.request = @ \ {<<o, "reject">>},
                                  !.approval = "rejected", !.st = "cancelled"]
  <2>1. p \in PlanRecord /\ p.st \in Final
    BY <1>0 DEF PlanRecord, PlanStates, Final
  <2>2. plan' = [plan EXCEPT ![q] = p] /\ plan[q].request # {}
    BY <1>8 DEF Reject
  <2>3. plan[q].st # "absent"
    BY <2>2 DEF CallInv, AbsentIdle
  <2> HIDE DEF p
  <2> QED BY <2>1, <2>2, <2>3, OnwardOne
<1>9. ASSUME NEW q \in Runs, Delete(q)
      PROVE  Onward(r)
  <2> DEFINE p == [plan[q] EXCEPT !.st = "cancelled"]
  <2>1. p \in PlanRecord /\ p.st \in Final
    BY <1>0 DEF PlanRecord, PlanStates, Final
  <2>2. plan' = [plan EXCEPT ![q] = p] /\ plan[q].st # "absent"
    BY <1>9 DEF Delete
  <2> HIDE DEF p
  <2> QED BY <2>1, <2>2, OnwardOne
<1>10. CASE CrashRestart
  <2> DEFINE job == IF plan[r].st = "running" THEN "exec" ELSE ""
             overdue == IF plan[r].st = "running" THEN FALSE ELSE plan[r].overdue
  <2>1. plan'[r] = [plan[r] EXCEPT !.request = {}, !.job = job, !.overdue = overdue]
    BY <1>10 DEF CrashRestart
  <2>2. plan[r].st = "absent" => job = ""
    OBVIOUS
  <2> HIDE DEF job, overdue
  <2>3. plan[r] \in PlanRecord
    BY <1>0
  <2>4. plan'[r].st = plan[r].st /\ plan'[r].job = job /\ plan'[r].request = {}
    BY <2>1, <2>3 DEF PlanRecord
  <2> QED BY <2>2, <2>4, OnwardSame DEF CallInv, AbsentIdle
<1>11. CASE plan' = plan
  BY <1>11, OnwardSame DEF CallInv
<1>12. \/ plan' = plan \/ Tick \/ CrashRestart
       \/ \E q \in Runs : \/ Spawn(q) \/ Create(q) \/ DryRunTimesOut(q) \/ WallTime(q)
                          \/ Succeeds(q) \/ Fails(q) \/ Delete(q)
                          \/ \E o \in Operators :
                               \/ \E what \in {"approve", "reject"} : Ask(q, o, what)
                               \/ Approve(q, o) \/ Reject(q, o)
  BY DEF Next, vars, CreateSub, SubEnds, SubChanges, Suggest, AgentEnds, Retrigger
<1> QED BY <1>1, <1>2, <1>3, <1>4, <1>5, <1>6, <1>7, <1>8, <1>9, <1>10, <1>11, <1>12

\* Only a tick records that a caller has been woken, of runs that have ended.
LEMMA ResumedStep ==
  ASSUME CallInv, [Next]_vars
  PROVE  resumed' = resumed \/ (Tick /\ resumed' = resumed \cup Finalized)
<1>1. CASE Tick
  BY <1>1, TickSteps DEF CallInv
<1>2. ASSUME NEW r \in Runs,
             \/ Spawn(r) \/ Create(r) \/ DryRunTimesOut(r) \/ CreateSub(r) \/ WallTime(r)
             \/ Succeeds(r) \/ Fails(r) \/ Delete(r)
             \/ \E k \in Subs : SubEnds(r, k) \/ SubChanges(r, k)
      PROVE  resumed' = resumed
  BY <1>2 DEF Spawn, Create, DryRunTimesOut, CreateSub, WallTime, Succeeds, Fails, Finish,
              Delete, SubEnds, SubChanges
<1>3. ASSUME NEW r \in Runs, NEW o \in Operators,
             \/ \E what \in {"approve", "reject"} : Ask(r, o, what)
             \/ Approve(r, o) \/ Reject(r, o)
      PROVE  resumed' = resumed
  BY <1>3 DEF Ask, Approve, Reject
<1>4. ASSUME NEW c \in Callers, Suggest(c) \/ AgentEnds(c) \/ Retrigger(c)
      PROVE  resumed' = resumed
  BY <1>4 DEF Suggest, AgentEnds, Retrigger
<1>5. CASE CrashRestart \/ UNCHANGED vars
  BY <1>5 DEF CrashRestart, vars
<1> QED BY <1>1, <1>2, <1>3, <1>4, <1>5 DEF Next

LEMMA CallInitially == Init => CallInv
<1> SUFFICES ASSUME Init PROVE CallInv
  OBVIOUS
<1>1. IInv
  BY Initially
<1>2. ResumedEnded
  BY DEF Init, ResumedEnded
<1>3. Absent.job = "" /\ Absent.request = {}
  BY DEF Absent
<1>4. AbsentIdle
  BY <1>3 DEF Init, AbsentIdle
<1> QED BY <1>1, <1>2, <1>4 DEF CallInv

LEMMA CallInductive == CallInv /\ [Next]_vars => CallInv'
<1> SUFFICES ASSUME CallInv, [Next]_vars PROVE CallInv'
  OBVIOUS
<1>1. IInv'
  BY Inductive DEF CallInv
<1>2. \A r \in Runs : Onward(r)
  BY OnwardStep
<1>3. ResumedEnded'
  <2> SUFFICES ASSUME NEW r \in resumed' PROVE plan'[r].st \in Final
    BY DEF ResumedEnded
  <2>1. r \in Runs
    BY <1>1, Typed DEF IInv, TypeOK
  <2>2. plan[r].st \in Final
    BY ResumedStep DEF CallInv, ResumedEnded, Finalized
  <2> QED BY <1>2, <2>1, <2>2 DEF Onward
<1>4. AbsentIdle'
  <2> SUFFICES ASSUME NEW r \in Runs, plan'[r].st = "absent"
               PROVE  plan'[r].job = "" /\ plan'[r].request = {}
    BY DEF AbsentIdle
  <2>1. plan[r].st = "absent"
    BY <1>2 DEF Onward
  <2>2. ~Spawn(r) /\ ~Create(r)
    <3>1. plan[r] \in PlanRecord /\ plan \in [Runs -> PlanRecord]
      BY Typed DEF CallInv, IInv
    <3> QED BY <3>1 DEF Spawn, Create, PlanRecord
  <2> QED BY <1>2, <2>1, <2>2 DEF Onward
<1> QED BY <1>1, <1>3, <1>4 DEF CallInv

\* A caller that waits after a step has been waiting for the same run, which has not
\* just told it, or has started a run of its own.
LEMMA WaiterStep ==
  ASSUME CallInv, [Next]_vars, NEW c \in Callers, caller'[c].state = "awaiting_plan",
         \A r \in Runs : ~Spawn(r)
  PROVE  /\ caller[c].state = "awaiting_plan" /\ caller'[c].plan = caller[c].plan
         /\ \A r \in resumed' \ resumed : CallerOf[r] # c
<1>0. caller \in [Callers -> CallerRecord]
  BY Typed DEF CallInv, IInv
<1> DEFINE Waited == caller[c].state = "awaiting_plan" /\ caller'[c].plan = caller[c].plan
<1>1. CASE Tick
  BY <1>1, TickSteps DEF CallInv
<1>2. ASSUME caller' = caller
      PROVE  Waited
  BY <1>2
<1>3. ASSUME NEW r \in Runs, Delete(r)
      PROVE  Waited
  BY <1>0, <1>3, CascadeTyped DEF Delete
<1>4. ASSUME NEW d \in Callers, AgentEnds(d)
      PROVE  Waited
  <2>1. PICK row \in EndOfAgent(caller[d]) : caller' = [caller EXCEPT ![d] = row]
    BY <1>4 DEF AgentEnds
  <2>2. row.state = "awaiting_plan" => row.plan = caller[d].plan
                                       /\ caller[d].state = "awaiting_plan"
    BY <1>0, EndOfAgentTyped
  <2> QED BY <1>0, <2>1, <2>2
<1>5. ASSUME NEW d \in Callers, Retrigger(d)
      PROVE  Waited
  <2> DEFINE row == [caller[d] EXCEPT !.state = "todo", !.row = "released", !.lis = ""]
  <2>1. caller' = [caller EXCEPT ![d] = row]
    BY <1>5 DEF Retrigger
  <2>2. row.state = "todo"
    BY <1>0 DEF CallerRecord
  <2> HIDE DEF row
  <2> QED BY <1>0, <2>1, <2>2
<1>6. CASE CrashRestart
  BY <1>0, <1>6 DEF CrashRestart, CallerRecord
<1>7. ASSUME NEW d \in Callers, Suggest(d)
      PROVE  Waited
  <2>1. PICK st \in Active \cup {"in_review"} : caller' = [caller EXCEPT ![d].state = st]
    BY <1>7 DEF Suggest
  <2>2. st # "awaiting_plan"
    BY DEF Active
  <2>3. CASE c = d
    BY <1>0, <2>1, <2>2, <2>3 DEF CallerRecord
  <2>4. CASE c # d
    BY <1>0, <2>1, <2>4
  <2> QED BY <2>3, <2>4
<1>8. \/ caller' = caller \/ Tick \/ CrashRestart
      \/ \E r \in Runs : Delete(r)
      \/ \E d \in Callers : AgentEnds(d) \/ Retrigger(d) \/ Suggest(d)
  BY DEF Next, vars, Create, DryRunTimesOut, CreateSub, WallTime, Succeeds, Fails, Finish, Ask,
         Approve, Reject, SubEnds, SubChanges
<1>9. CASE ~Tick
  <2>1. resumed' = resumed
    BY <1>9, ResumedStep
  <2> QED BY <1>2, <1>3, <1>4, <1>5, <1>6, <1>7, <1>8, <1>9, <2>1
<1> QED BY <1>1, <1>9

\* A hand-off is a call by a caller that does not wait.
LEMMA SpawnCalls ==
  ASSUME CallInv, NEW r \in Runs, Spawn(r)
  PROVE  Call!Next
<1>1. PICK c \in Callers :
        /\ CallerOf[r] = c
        /\ caller[c].plan = None
        /\ caller' = [caller EXCEPT ![c].plan = r, ![c].state = "awaiting_plan",
                                    ![c].row = "released", ![c].lis = "awaiting_plan"]
  BY DEF Spawn
<1>2. plan[r].st = "absent" /\ plan' = [plan EXCEPT ![r].st = "pending"] /\ resumed' = resumed
  BY DEF Spawn
<1>3. plan \in [Runs -> PlanRecord] /\ caller \in [Callers -> CallerRecord]
  BY Typed DEF CallInv, IInv
<1>4. Waits(c) = {}
  <2>1. caller[c].state # "awaiting_plan"
    BY <1>1, CallersAssumption DEF CallInv, IInv, WaiterHasPlan
  <2> QED BY <2>1 DEF Waits
<1>5. /\ Waits(c)' = {r}
      /\ \A d \in Callers \ {c} : Waits(d)' = Waits(d)
  <2> DEFINE row == [caller[c] EXCEPT !.plan = r, !.state = "awaiting_plan",
                                      !.row = "released", !.lis = "awaiting_plan"]
  <2>1. caller'[c].state = "awaiting_plan" /\ caller'[c].plan = r
    <3>1. caller'[c] = row
      BY <1>1, <1>3
    <3>2. row.state = "awaiting_plan" /\ row.plan = r
      BY <1>3 DEF CallerRecord
    <3> QED BY <3>1, <3>2
  <2>2. \A d \in Callers \ {c} : caller'[d] = caller[d]
    BY <1>1, <1>3
  <2> QED BY <2>1, <2>2 DEF Waits
<1>6. Phase(r) = "absent" /\ Phase(r)' = "open"
  BY <1>2, <1>3 DEF Phase, PlanRecord, Final
<1>7. \A q \in Runs \ {r} : Phase(q)' = Phase(q)
  BY <1>2, <1>3 DEF Phase
<1>8. Call!Call(c, r)
  BY <1>1, <1>4, <1>5, <1>6, <1>7 DEF Call!Call
<1> QED BY <1>8 DEF Call!Next

LEMMA CreateOpens ==
  ASSUME CallInv, NEW r \in Runs, Create(r)
  PROVE  Call!Next
<1>1. plan[r].st = "absent" /\ plan' = [plan EXCEPT ![r].st = "pending"]
      /\ UNCHANGED <<caller, resumed>>
  BY DEF Create
<1>2. plan \in [Runs -> PlanRecord]
  BY Typed DEF CallInv, IInv
<1>3. Phase(r) = "absent" /\ Phase(r)' = "open"
  BY <1>1, <1>2 DEF Phase, PlanRecord, Final
<1>4. \A q \in Runs \ {r} : Phase(q)' = Phase(q)
  BY <1>1, <1>2 DEF Phase
<1>5. \A c \in Callers : Waits(c)' = Waits(c)
  BY <1>1 DEF Waits
<1>6. Call!Open(r)
  BY <1>3, <1>4, <1>5 DEF Call!Open
<1> QED BY <1>6 DEF Call!Next

\* Every other step lets runs end, ended runs tell their callers, and callers leave.
LEMMA OthersTurn ==
  ASSUME CallInv, CallInv', [Next]_vars, \A r \in Runs : ~Spawn(r) /\ ~Create(r)
  PROVE  Call!Next
<1> DEFINE ends == {r \in Runs : Phase(r) = "open" /\ Phase(r)' = "ended"}
           tells == resumed' \ resumed
           leaves == {c \in Callers : Waits(c)' = {}}
<1>0. "absent" \notin Final
  BY DEF Final
<1>1. \A r \in tells : r \in Runs /\ Phase(r) = "ended" /\ CallerOf[r] # None
  BY <1>0, ResumedStep DEF Phase, Finalized
<1>2. ASSUME NEW r \in Runs
      PROVE  Phase(r)' = IF r \in ends THEN "ended" ELSE IF r \in tells THEN "told" ELSE Phase(r)
  <2>1. Onward(r)
    BY OnwardStep
  <2>2. resumed \subseteq resumed'
    BY ResumedStep
  <2>3. r \in resumed => plan[r].st \in Final
    BY DEF CallInv, ResumedEnded
  <2>4. r \in tells => Phase(r) = "ended"
    BY <1>1
  <2>5. CASE plan[r].st = "absent"
    BY <1>0, <2>1, <2>3, <2>4, <2>5 DEF Phase, Onward
  <2>6. CASE plan[r].st \in Final
    BY <1>0, <2>1, <2>2, <2>6 DEF Phase, Onward
  <2>7. CASE plan[r].st \notin Final \cup {"absent"}
    BY <1>0, <2>1, <2>3, <2>4, <2>7 DEF Phase, Onward
  <2> QED BY <2>5, <2>6, <2>7
<1>3. ASSUME NEW c \in Callers
      PROVE  Waits(c)' = IF c \in leaves \cup {CallerOf[r] : r \in tells} THEN {} ELSE Waits(c)
  <2>1. CASE Waits(c)' = {}
    BY <2>1
  <2>2. CASE Waits(c)' # {}
    <3>1. caller'[c].state = "awaiting_plan" /\ Waits(c)' = {caller'[c].plan}
      BY <2>2 DEF Waits
    <3>2. /\ caller[c].state = "awaiting_plan" /\ caller'[c].plan = caller[c].plan
          /\ \A r \in tells : CallerOf[r] # c
      BY <3>1, WaiterStep
    <3>3. Waits(c)' = Waits(c)
      BY <3>1, <3>2 DEF Waits
    <3> QED BY <2>2, <3>2, <3>3
  <2> QED BY <2>1, <2>2
<1>4. ends \in SUBSET Runs /\ tells \in SUBSET Runs /\ leaves \in SUBSET Callers
  BY <1>1
<1>5. \A r \in ends : Phase(r) = "open"
  OBVIOUS
<1> HIDE DEF ends, tells, leaves
<1>6. Call!Turn(ends, tells, leaves)
  BY <1>1, <1>2, <1>3, <1>4, <1>5 DEF Call!Turn
<1> QED BY <1>4, <1>6 DEF Call!Next

LEMMA CallInit ==
  ASSUME Init
  PROVE  Call!Init
<1>1. \A r \in Runs : Phase(r) = "absent"
  <2>1. \A r \in Runs : plan[r].st = "absent"
    BY DEF Init, Absent
  <2>2. "absent" \notin Final
    BY DEF Final
  <2> QED BY <2>1, <2>2 DEF Phase
<1>2. \A c \in Callers : Waits(c) = {}
  BY DEF Init, Waits
<1> QED BY <1>1, <1>2 DEF Call!Init

\* The tables of plan runs and the tick implement the call: however agents, executors,
\* operators and crashes interleave, a run is called by a caller of its own that waits
\* for nothing else, ends once, tells its caller once, in the tick that records
\* caller_resumed, and leaves nobody waiting (plan-tick.ts:42-81, plan-executor.ts).
THEOREM ImplementsCallTheorem == Spec => ImplementsCall
<1>1. Init => Call!Init /\ CallInv
  BY CallInit, CallInitially
<1>2. CallInv /\ CallInv' /\ [Next]_vars => [Call!Next]_(Call!vars)
  <2> SUFFICES ASSUME CallInv, CallInv', [Next]_vars
               PROVE  Call!Next
    OBVIOUS
  <2>1. ASSUME NEW r \in Runs, Spawn(r) \/ Create(r)
        PROVE  Call!Next
    BY <2>1, SpawnCalls, CreateOpens
  <2>2. CASE \A r \in Runs : ~Spawn(r) /\ ~Create(r)
    BY <2>2, OthersTurn
  <2> QED BY <2>1, <2>2
<1>3. CallInv /\ [Next]_vars => CallInv'
  BY CallInductive
<1> QED BY <1>1, <1>2, <1>3, PTL DEF Spec, ImplementsCall, Call!Spec

\* The call is worth having: by its own rules alone, a caller waits for one run at
\* most, which is its own and has not told it yet.
THEOREM CallOwedTheorem == Call!Spec => []Call!Owed
<1>1. Call!Init => Call!Owed
  BY DEF Call!Init, Call!Owed
<1>2. Call!Owed /\ [Call!Next]_(Call!vars) => Call!Owed'
  <2> SUFFICES ASSUME Call!Owed, [Call!Next]_(Call!vars)
               PROVE  Call!Owed'
    OBVIOUS
  <2> DEFINE Fine(c) ==
               /\ \A r, q \in Waits(c) : r = q
               /\ \A r \in Waits(c) :
                    r \in Runs /\ CallerOf[r] = c /\ Phase(r) \in {"open", "ended"}
  <2>1. \A c \in Callers : Fine(c)
    BY DEF Call!Owed
  <2>2. SUFFICES ASSUME NEW c \in Callers PROVE Fine(c)'
    BY DEF Call!Owed
  <2>3. CASE UNCHANGED Call!vars
    <3>1. Waits(c)' = Waits(c) /\ \A r \in Runs : Phase(r)' = Phase(r)
      BY <2>3 DEF Call!vars
    <3> QED BY <2>1, <3>1
  <2>4. ASSUME NEW d \in Callers, NEW r \in Runs, Call!Call(d, r)
        PROVE  Fine(c)'
    <3>1. /\ CallerOf[r] = d /\ Phase(r) = "absent"
          /\ Phase(r)' = "open" /\ \A q \in Runs \ {r} : Phase(q)' = Phase(q)
          /\ Waits(d)' = {r} /\ (c # d => Waits(c)' = Waits(c))
      BY <2>4 DEF Call!Call
    <3> QED BY <2>1, <3>1
  <2>5. ASSUME NEW r \in Runs, Call!Open(r)
        PROVE  Fine(c)'
    <3>1. /\ Phase(r)' = "open" /\ \A q \in Runs \ {r} : Phase(q)' = Phase(q)
          /\ Waits(c)' = Waits(c)
      BY <2>5 DEF Call!Open
    <3> QED BY <2>1, <3>1
  <2>6. ASSUME NEW ends \in SUBSET Runs, NEW tells \in SUBSET Runs, NEW leaves \in SUBSET Callers,
               Call!Turn(ends, tells, leaves)
        PROVE  Fine(c)'
    <3>1. \A r \in Runs : Phase(r)' = IF r \in ends THEN "ended"
                                      ELSE IF r \in tells THEN "told" ELSE Phase(r)
      BY <2>6 DEF Call!Turn
    <3>2. Waits(c)' = IF c \in leaves \cup {CallerOf[r] : r \in tells} THEN {} ELSE Waits(c)
      BY <2>6 DEF Call!Turn
    <3> QED BY <2>1, <3>1, <3>2
  <2> QED BY <2>3, <2>4, <2>5, <2>6 DEF Call!Next
<1> QED BY <1>1, <1>2, PTL DEF Call!Spec
==============================================================================
