--------------------------- MODULE IssueStore_proofs ---------------------------
(* Theorems about the issue store, for any issues, gates, labels and requests: *)
(* the copies of the blockers' states, and the decisions on plans.             *)
EXTENDS IssueStore, TLAPS

(* The invariant has a part about the tables that the properties speak of, and *)
(* one that types the rest.                                                    *)
StoreType ==
  /\ issue \in [Issues -> States \cup {"none", "deleted"}]
  /\ rows \in [Gates -> States \cup {"none"}]
  /\ decided \in [Issues -> Nat]
  /\ edited \subseteq Issues

RestType ==
  /\ role \in [Issues -> BOOLEAN]
  /\ run \in [Issues -> {"none", "released", "retry_queued", "claimed"}]
  /\ worker \in [Issues -> [pc : {"idle", "prep", "agent"}, read : States, role : BOOLEAN]]
  /\ requests \subseteq Request

(* A row is about an issue that has been created: a new issue has no copies.   *)
RowsKnown == \A p \in Gates : rows[p] # "none" => issue[p[2]] # "none"

(* An issue in review has not been decided on.                                 *)
Undecided == \A i \in Issues : issue[i] \in {"none", "plan_review"} => decided[i] = 0

StoreInv == StoreType /\ RowsKnown /\ CopiesRight /\ Undecided /\ DecidedOnce

IInv == StoreInv /\ RestType

store == <<issue, rows, decided, edited>>
rest == <<role, run, worker, requests>>

USE DEF States

LEMMA GateEnds == ASSUME NEW p \in Gates PROVE p[1] \in Issues /\ p[2] \in Issues /\ p[1] # p[2]
<1>1. p \in Issues \X Issues BY GatesAssumption
<1>2. p = <<p[1], p[2]>> /\ p[1] \in Issues /\ p[2] \in Issues BY <1>1
<1>3. p[1] # p[2] BY <1>2, GatesAssumption
<1> QED BY <1>2, <1>3

LEMMA StoreKept == ASSUME StoreInv, UNCHANGED store PROVE StoreInv'
BY DEF StoreInv, StoreType, RowsKnown, CopiesRight, Undecided, DecidedOnce, store, Exists

LEMMA RestKept == ASSUME RestType, UNCHANGED rest PROVE RestType'
BY DEF RestType, rest

(* The two ways to write a state.                                              *)
LEMMA UpdateIssueStateSafe ==
  ASSUME StoreInv, NEW i \in Issues, NEW s \in States, UpdateIssueState(i, s)
  PROVE  StoreInv'
<1> USE DEF StoreInv, UpdateIssueState, Reviewed, Exists
<1>1. StoreType' BY DEF StoreType
<1>2. RowsKnown' BY GateEnds DEF StoreType, RowsKnown
<1>3. CopiesRight' BY GateEnds DEF StoreType, CopiesRight
<1>4. Undecided' /\ DecidedOnce' BY DEF StoreType, Undecided, DecidedOnce
<1> QED BY <1>1, <1>2, <1>3, <1>4

LEMMA DecidingSafe ==
  ASSUME StoreInv, NEW i \in Issues, NEW s \in States \ {"plan_review"},
         issue[i] = "plan_review", UpdateIssueStateDeciding(i, s)
  PROVE  StoreInv'
<1> USE DEF StoreInv, UpdateIssueStateDeciding, Exists
<1>1. StoreType' BY DEF StoreType
<1>2. RowsKnown' BY GateEnds DEF StoreType, RowsKnown
<1>3. CopiesRight' BY GateEnds DEF StoreType, CopiesRight
<1>4. Undecided' /\ DecidedOnce' BY DEF StoreType, Undecided, DecidedOnce
<1> QED BY <1>1, <1>2, <1>3, <1>4

LEMMA UpdateIssueSafe ==
  ASSUME StoreInv, NEW i \in Issues, NEW s \in States, NEW r \in BOOLEAN, UpdateIssue(i, s, r)
  PROVE  StoreInv'
<1> USE DEF StoreInv, UpdateIssue, Reviewed, Exists
<1>1. StoreType' BY DEF StoreType
<1>2. RowsKnown' BY GateEnds DEF StoreType, RowsKnown
<1>3. CopiesRight' BY GateEnds DEF StoreType, CopiesRight
<1>4. Undecided' /\ DecidedOnce' BY DEF StoreType, Undecided, DecidedOnce
<1> QED BY <1>1, <1>2, <1>3, <1>4

(* An issue is created without copies of its own, and copies what is there.    *)
LEMMA CreatedSafe ==
  ASSUME StoreInv, NEW i \in Issues, CreateNode(i) \/ CreateIssue(i)
  PROVE  StoreInv'
<1> USE DEF StoreInv, CreateNode, CreateIssue, Exists
<1>1. PICK s \in States : issue' = [issue EXCEPT ![i] = s] OBVIOUS
<1>2. issue[i] = "none" /\ UNCHANGED <<decided, edited>> OBVIOUS
<1>3. \A p \in Gates : p[1] # i => rows'[p] = rows[p]
  BY DEF StoreType
<1>4. \A p \in Gates : p[1] = i =>
        rows'[p] = rows[p] \/ (/\ issue[p[2]] # "none"
                               /\ rows'[p] = IF issue[p[2]] # "deleted" THEN issue[p[2]] ELSE "todo")
  <2> SUFFICES ASSUME NEW p \in Gates, p[1] = i, CreateNode(i)
               PROVE  /\ issue[p[2]] # "none"
                      /\ rows'[p] = IF issue[p[2]] # "deleted" THEN issue[p[2]] ELSE "todo"
    OBVIOUS
  <2>1. p = <<i, p[2]>> /\ p[2] \in Issues BY GatesAssumption
  <2>2. issue[p[2]] # "none" BY <2>1
  <2> QED BY <2>2
<1>5. StoreType'
  <2>1. rows' \in [Gates -> States \cup {"none"}] BY GateEnds DEF StoreType
  <2> QED BY <1>1, <1>2, <2>1 DEF StoreType
<1>6. RowsKnown'
  <2> SUFFICES ASSUME NEW p \in Gates, rows'[p] # "none" PROVE issue'[p[2]] # "none"
    BY DEF RowsKnown
  <2>1. issue[p[2]] # "none" BY <1>2, <1>3, <1>4 DEF RowsKnown
  <2> QED BY <1>1, <1>2, <2>1, GateEnds DEF StoreType
<1>7. CopiesRight'
  <2> SUFFICES ASSUME NEW p \in Gates, rows'[p] # "none", issue'[p[2]] \notin {"none", "deleted"},
                      p[2] \notin edited
               PROVE  rows'[p] = issue'[p[2]]
    BY <1>2 DEF CopiesRight
  <2>1. p[1] \in Issues /\ p[2] \in Issues /\ p[1] # p[2] BY GateEnds
  <2>2. CASE p[1] # i
    <3>1. rows[p] # "none" BY <1>3, <2>2
    <3>2. p[2] # i BY <1>2, <3>1 DEF RowsKnown
    <3> QED BY <1>1, <1>3, <2>1, <2>2, <3>1, <3>2 DEF StoreType, CopiesRight
  <2>3. CASE p[1] = i
    <3>1. issue'[p[2]] = issue[p[2]] BY <1>1, <2>1, <2>3 DEF StoreType
    <3> QED BY <1>4, <2>1, <2>3, <3>1 DEF CopiesRight
  <2> QED BY <2>2, <2>3
<1>8. Undecided' /\ DecidedOnce' BY <1>1, <1>2 DEF StoreType, Undecided, DecidedOnce
<1> QED BY <1>5, <1>6, <1>7, <1>8

LEMMA RemovedSafe ==
  ASSUME StoreInv,
         (\E i \in Issues : Delete(i)) \/ (\E p \in Gates : RemoveBlocker(p))
  PROVE  StoreInv'
<1>1. ASSUME NEW i \in Issues, Delete(i) PROVE StoreInv'
  <2> USE <1>1 DEF StoreInv, Delete, Exists
  <2>1. StoreType' BY DEF StoreType
  <2>2. RowsKnown' BY GateEnds DEF StoreType, RowsKnown
  <2>3. CopiesRight' BY GateEnds DEF StoreType, CopiesRight
  <2>4. Undecided' /\ DecidedOnce' BY DEF StoreType, Undecided, DecidedOnce
  <2> QED BY <2>1, <2>2, <2>3, <2>4
<1>2. ASSUME NEW p \in Gates, RemoveBlocker(p) PROVE StoreInv'
  BY <1>2 DEF StoreInv, RemoveBlocker, Exists, StoreType, RowsKnown, CopiesRight, Undecided,
              DecidedOnce
<1> QED BY <1>1, <1>2

(* Who writes them.                                                            *)
LEMMA ReleaseTyped ==
  ASSUME RestType, NEW i \in Issues, NEW st \in {"released", "retry_queued"}, ReleaseIssue(i, st)
  PROVE  run' \in [Issues -> {"none", "released", "retry_queued", "claimed"}]
BY DEF RestType, ReleaseIssue

LEMMA DecisionSafe ==
  ASSUME StoreInv, RestType, NEW i \in Issues, NEW read, ApprovePlan(i, read) \/ RevisePlan(i)
  PROVE  /\ StoreInv'
         /\ run' \in [Issues -> {"none", "released", "retry_queued", "claimed"}]
<1>1. CASE ApprovePlan(i, read)
  BY <1>1, DecidingSafe, ReleaseTyped DEF ApprovePlan, ReleaseForReschedule
<1>2. CASE RevisePlan(i)
  BY <1>2, DecidingSafe, ReleaseTyped DEF RevisePlan, ReleaseForReschedule
<1> QED BY <1>1, <1>2

LEMMA WorkerSafe ==
  ASSUME IInv, NEW i \in Issues, Claim(i) \/ Prepared(i) \/ Ended(i)
  PROVE  IInv'
<1> USE DEF IInv
<1>1. CASE Claim(i)
  <2>1. StoreInv' BY <1>1, StoreKept DEF Claim, store
  <2>2. issue[i] \in States BY <1>1 DEF Claim
  <2>3. RestType' BY <1>1, <2>2 DEF Claim, RestType
  <2> QED BY <2>1, <2>3
<1>2. CASE Prepared(i)
  <2>1. worker[i].read \in States BY DEF RestType
  <2>2. worker' \in [Issues -> [pc : {"idle", "prep", "agent"}, read : States, role : BOOLEAN]]
    BY <1>2 DEF Prepared, RestType, Idle
  <2>3. CASE ~worker[i].role /\ i \in Labelled
    <3>1. UpdateIssue(i, worker[i].read, TRUE) BY <1>2, <2>3 DEF Prepared
    <3>2. StoreInv' BY <2>1, <3>1, UpdateIssueSafe
    <3>3. role' \in [Issues -> BOOLEAN] BY <3>1 DEF UpdateIssue, RestType, Exists
    <3> QED BY <1>2, <2>2, <3>2, <3>3 DEF Prepared, RestType
  <2>4. CASE ~(~worker[i].role /\ i \in Labelled)
    <3>1. UNCHANGED <<issue, role, rows, decided, edited>> BY <1>2, <2>4 DEF Prepared
    <3>2. StoreInv' BY <3>1, StoreKept DEF store
    <3> QED BY <1>2, <2>2, <3>1, <3>2 DEF Prepared, RestType
  <2> QED BY <2>3, <2>4
<1>3. CASE Ended(i)
  <2>1. StoreInv'
    BY <1>3, UpdateIssueStateSafe, StoreKept DEF Ended, store
  <2>2. run' \in [Issues -> {"none", "released", "retry_queued", "claimed"}]
    BY <1>3, ReleaseTyped DEF Ended
  <2>3. RestType' BY <1>3, <2>2 DEF Ended, RestType, Idle
  <2> QED BY <2>1, <2>3
<1> QED BY <1>1, <1>2, <1>3

LEMMA RequestTyped ==
  ASSUME IInv, NEW r \in requests
  PROVE  r.issue \in Issues /\ r.read \in States
BY DEF IInv, RestType, Request

LEMMA PutSafe ==
  ASSUME IInv, NEW r \in requests, Put(r)
  PROVE  IInv'
<1>1. PICK s \in States, named \in BOOLEAN : UpdateIssue(r.issue, IF named THEN s ELSE r.read, FALSE)
  BY DEF Put
<1>2. (IF named THEN s ELSE r.read) \in States BY RequestTyped
<1>3. StoreInv' BY <1>1, <1>2, RequestTyped, UpdateIssueSafe DEF IInv
<1>4. role' \in [Issues -> BOOLEAN] BY <1>1, RequestTyped DEF IInv, UpdateIssue, RestType, Exists
<1> QED BY <1>3, <1>4 DEF IInv, Put, Answered, RestType

LEMMA CommentSafe ==
  ASSUME IInv, NEW r \in requests, Comment(r)
  PROVE  IInv'
<1> DEFINE Runs == [Issues -> {"none", "released", "retry_queued", "claimed"}]
<1> USE DEF IInv
<1>1. r.issue \in Issues BY RequestTyped
<1>2. CASE CommentApprove(r)
  <2>1. StoreInv' /\ run' \in Runs
    <3>1. CASE ApprovePlan(r.issue, r.read) BY <1>1, <3>1, DecisionSafe
    <3>2. CASE UNCHANGED <<issue, rows, run, decided, edited>>
      BY <3>2, StoreKept DEF store, RestType
    <3>3. CASE ReleaseForReschedule(r.issue) /\ UNCHANGED <<issue, rows, decided, edited>>
      BY <1>1, <3>3, StoreKept, ReleaseTyped DEF store, ReleaseForReschedule
    <3> QED BY <1>2, <3>1, <3>2, <3>3 DEF CommentApprove
  <2> QED BY <2>1 DEF Comment, Answered, RestType
<1>3. CASE CommentRevise(r)
  <2>1. StoreInv' /\ run' \in Runs BY <1>1, <1>3, DecisionSafe DEF CommentRevise
  <2> QED BY <2>1 DEF Comment, Answered, RestType
<1>4. CASE CommentSkip(r)
  <2>1. StoreInv' BY <1>1, <1>4, UpdateIssueStateSafe DEF CommentSkip
  <2>2. run' \in Runs BY <1>1, <1>4, ReleaseTyped DEF CommentSkip, ReleaseForReschedule
  <2> QED BY <2>1, <2>2 DEF Comment, Answered, RestType
<1> QED BY <1>2, <1>3, <1>4 DEF Comment

LEMMA RetriggerSafe ==
  ASSUME IInv, NEW r \in requests, Retrigger(r)
  PROVE  IInv'
<1> USE DEF IInv
<1>1. PICK s \in {"todo", "in_progress"} :
        IF r.read # s THEN UpdateIssueState(r.issue, s) ELSE UNCHANGED <<issue, rows, decided, edited>>
  BY DEF Retrigger
<1>2. StoreInv' BY <1>1, RequestTyped, UpdateIssueStateSafe, StoreKept DEF store
<1>3. run' \in [Issues -> {"none", "released", "retry_queued", "claimed"}]
  BY RequestTyped, ReleaseTyped DEF Retrigger, ReleaseForReschedule
<1> QED BY <1>2, <1>3 DEF Retrigger, Answered, RestType

LEMMA OperatorSafe ==
  ASSUME IInv, NEW i \in Issues, Decide(i) \/ Review(i) \/ Begin(i)
  PROVE  IInv'
<1> USE DEF IInv
<1>1. CASE Decide(i)
  <2>1. StoreInv' /\ run' \in [Issues -> {"none", "released", "retry_queued", "claimed"}]
    BY <1>1, DecisionSafe DEF Decide
  <2> QED BY <1>1, <2>1 DEF Decide, RestType
<1>2. CASE Review(i)
  <2>1. StoreInv' BY <1>2, UpdateIssueStateSafe DEF Review
  <2> QED BY <1>2, <2>1 DEF Review, RestType
<1>3. CASE Begin(i)
  <2>1. StoreInv' BY <1>3, StoreKept DEF Begin, store
  <2>2. issue[i] \in States BY <1>3 DEF Begin, Exists, StoreInv, StoreType
  <2>3. requests' \subseteq Request BY <1>3, <2>2 DEF Begin, RestType, Request
  <2> QED BY <1>3, <2>1, <2>3 DEF Begin, RestType
<1> QED BY <1>1, <1>2, <1>3

LEMMA Initially == ASSUME Init PROVE IInv
<1>1. StoreInv
  BY DEF Init, StoreInv, StoreType, RowsKnown, CopiesRight, Undecided, DecidedOnce
<1>2. RestType BY DEF Init, RestType, Idle
<1> QED BY <1>1, <1>2 DEF IInv

LEMMA Inductive == ASSUME IInv, [Next]_vars PROVE IInv'
<1>1. ASSUME NEW i \in Issues, CreateNode(i) \/ CreateIssue(i) PROVE IInv'
  BY <1>1, CreatedSafe, RestKept DEF IInv, CreateNode, CreateIssue, rest
<1>2. ASSUME (\E i \in Issues : Delete(i)) \/ (\E p \in Gates : RemoveBlocker(p)) PROVE IInv'
  <2>1. StoreInv' BY <1>2, RemovedSafe DEF IInv
  <2>2. RestType' BY <1>2 DEF IInv, Delete, RemoveBlocker, RestType
  <2> QED BY <2>1, <2>2 DEF IInv
<1>3. ASSUME NEW r \in requests, Put(r) \/ Comment(r) \/ Retrigger(r) PROVE IInv'
  BY <1>3, PutSafe, CommentSafe, RetriggerSafe
<1>4. ASSUME UNCHANGED vars PROVE IInv'
  BY <1>4, StoreKept, RestKept DEF IInv, vars, store, rest
<1> QED BY <1>1, <1>2, <1>3, <1>4, WorkerSafe, OperatorSafe DEF Next

LEMMA Invariant == Spec => []IInv
<1>1. Init => IInv BY Initially
<1>2. IInv /\ [Next]_vars => IInv' BY Inductive
<1> QED BY <1>1, <1>2, PTL DEF Spec

(* Every variable of the store keeps its type, for any issues and requests.    *)
THEOREM StoreTypeCorrect == Spec => []TypeOK
<1>1. IInv => TypeOK BY DEF IInv, StoreInv, StoreType, RestType, TypeOK
<1> QED BY <1>1, Invariant, PTL

(* For any issues and gates, whoever writes states in whatever order: the copy *)
(* of a blocker's state is its state, until updateIssue moves it.              *)
THEOREM CopiesRightTheorem == Spec => []CopiesRight
<1>1. IInv => CopiesRight BY DEF IInv, StoreInv
<1> QED BY <1>1, Invariant, PTL

(* For any number of panels and comments at the same time, one decision on a   *)
(* plan takes effect.                                                          *)
THEOREM DecidedOnceTheorem == Spec => []DecidedOnce
<1>1. IInv => DecidedOnce BY DEF IInv, StoreInv
<1> QED BY <1>1, Invariant, PTL
================================================================================
