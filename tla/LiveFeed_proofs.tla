---------------------------- MODULE LiveFeed_proofs ----------------------------
(* Theorems about the page of an issue, for any number of attempts, writes,    *)
(* lost connections, reads at once and answers in flight: its log has no gap.                 *)
EXTENDS LiveFeed, TLAPS

(* The attempt of a worker that prepares is one that may be started.            *)
TrackerType ==
  /\ store \in Store
  /\ starting => store.attempt < MaxAttempt
  /\ agents \subseteq Attempts
  /\ file \in [Attempts -> Nat]

PageType == view \in Store /\ bound \in Bounds

LogType ==
  /\ log \in [up : BOOLEAN, attempt : 0..MaxAttempt, offset : Nat]
  /\ log.up => log.attempt \in Attempts
  /\ reader \in [Readers -> [st : {"idle", "read", "writing"}, len : Nat]]
  /\ shown \in Nat
  /\ timers \subseteq Attempts

(* What is being written has reached the page, and is where the offset goes.   *)
WritingShown == \A r \in Readers : reader[r].st = "writing" /\ ~strayed => reader[r].len <= shown

LogInv == LogType /\ NoLogGap /\ WritingShown
IInv == TrackerType /\ PageType /\ LogInv

USE BoundsAssumption DEF Attempts

(* Steps of the tracker and of the page leave the log stream alone.            *)
LEMMA LogKept == ASSUME LogInv, UNCHANGED logs PROVE LogInv'
BY DEF LogInv, LogType, NoLogGap, WritingShown, logs

LEMMA PatchTyped ==
  ASSUME PageType, NEW field \in {"attempt", "st"}, NEW value, Patched(field, value),
         field = "attempt" => value \in 0..MaxAttempt,
         field = "st" => value \in {"none", "claimed", "queued", "over"}
  PROVE  view' \in Store
<1>1. CASE field = "attempt" BY <1>1 DEF PageType, Patched, Store
<1>2. CASE field = "st" BY <1>2 DEF PageType, Patched, Store
<1> QED BY <1>1, <1>2

LEMMA FaultTyped ==
  ASSUME bound \in Bounds, Fault \/ UNCHANGED bound
  PROVE  bound' \in Bounds
<1>1. CASE Fault
  <2> DEFINE R == SUBSET Readers
  <2>1. /\ bound \in [attempts : 0..MaxAttempt, writes : Nat, faults : Nat, replies : Nat \ {0},
                      readers : R]
        /\ Bounds = [attempts : 0..MaxAttempt, writes : Nat, faults : Nat, replies : Nat \ {0},
                     readers : R]
    BY DEF Bounds
  <2> HIDE DEF R
  <2>2. bound.faults - 1 \in Nat
    BY <1>1, <2>1 DEF Fault
  <2> QED BY <1>1, <2>1, <2>2 DEF Fault
<1>2. CASE UNCHANGED bound
  BY <1>2
<1> QED BY <1>1, <1>2

(* A state that a worker leaves.                                               *)
LEMMA LeavesTyped ==
  ASSUME IInv, NEW st \in {"over", "queued"}, Leaves(st)
  PROVE  store' \in Store /\ store'.attempt = store.attempt /\ view' \in Store
<1>1. store' \in Store /\ store'.attempt = store.attempt
  BY DEF IInv, TrackerType, Leaves, Store
<1>2. view' \in Store
  BY PatchTyped DEF IInv, Leaves
<1> QED BY <1>1, <1>2

LEMMA TrackerSafe ==
  ASSUME IInv, Claim \/ Start \/ (\E a \in Attempts : Write(a)) \/ Release \/ End
  PROVE  IInv'
<1> USE DEF IInv, TrackerType
<1>1. CASE Claim
  <2>1. bound.attempts \in 0..MaxAttempt BY DEF PageType, Bounds
  <2>2. store' \in Store /\ TrackerType' BY <1>1, <2>1 DEF Claim, Store
  <2>3. PageType' BY <1>1, PatchTyped DEF Claim, PageType
  <2> QED BY <1>1, <2>2, <2>3, LogKept DEF Claim
<1>2. CASE Start
  <2>1. store.attempt \in Nat /\ store.attempt + 1 \in Attempts BY <1>2 DEF Start, Store
  <2>2. store' \in Store /\ store'.attempt = store.attempt + 1 BY <1>2, <2>1 DEF Start, Store
  <2>3. TrackerType' BY <1>2, <2>1, <2>2 DEF Start
  <2>4. view' \in Store BY <1>2, <2>1, PatchTyped DEF Start
  <2> QED BY <1>2, <2>3, <2>4, LogKept DEF Start, PageType
<1>3. ASSUME NEW a \in Attempts, Write(a) PROVE IInv'
  <2>1. file[a] + 1 \in Nat OBVIOUS
  <2>2. TrackerType' BY <1>3, <2>1 DEF Write
  <2> QED BY <1>3, <2>2, LogKept DEF Write, PageType, page
<1>4. CASE Release
  <2>1. PICK st \in {"over", "queued"} : Leaves(st) BY <1>4 DEF Release
  <2>2. store' \in Store /\ store'.attempt = store.attempt /\ view' \in Store BY <2>1, LeavesTyped
  <2> QED BY <1>4, <2>2, LogKept DEF Release, PageType
<1>5. CASE End
  <2>1. PICK st \in {"over", "queued"} : Leaves(st) BY <1>5 DEF End
  <2>2. store' \in Store /\ store'.attempt = store.attempt /\ view' \in Store BY <2>1, LeavesTyped
  <2>3. bound' \in Bounds BY <1>5, FaultTyped DEF End, PageType
  <2>4. (starting' => starting) /\ agents' \subseteq agents BY <1>5 DEF End
  <2>5. TrackerType' BY <1>5, <2>2, <2>4 DEF End
  <2>6. LogInv' BY <1>5, LogKept DEF End
  <2> QED BY <2>2, <2>3, <2>5, <2>6 DEF PageType
<1> QED BY <1>1, <1>2, <1>3, <1>4, <1>5

LEMMA PageSafe ==
  ASSUME IInv,
         Poll \/ Disconnect \/ Connect \/ (\E r \in Store : Reply(r) \/ ReplyFails(r))
  PROVE  IInv'
<1> USE DEF IInv
<1>1. TrackerType'
  <2>1. UNCHANGED tracker
    BY DEF Poll, Disconnect, Connect, Reply, ReplyFails, Arrives
  <2> QED BY <2>1 DEF tracker, TrackerType
<1>2. LogInv' BY LogKept DEF Poll, Disconnect, Connect, Reply, ReplyFails, Arrives
<1>3. PageType'
  <2>1. view' \in Store
    BY DEF Poll, Disconnect, Connect, Reply, ReplyFails, NoRun, Store, PageType
  <2>2. bound' \in Bounds
    BY FaultTyped DEF Poll, Disconnect, Connect, Reply, ReplyFails, PageType
  <2> QED BY <2>1, <2>2 DEF PageType
<1> QED BY <1>1, <1>2, <1>3

(* A stream that is opened begins at the start, and a closed one has no reads. *)
LEMMA OpenSafe ==
  ASSUME NEW a \in Attempts, Open(a), shown' \in Nat, timers' \subseteq Attempts
  PROVE  LogInv'
<1>1. LogType' BY DEF Open, NoReads, LogType
<1>2. NoLogGap' BY DEF Open, NoLogGap
<1>3. WritingShown' BY DEF Open, NoReads, WritingShown
<1> QED BY <1>1, <1>2, <1>3 DEF LogInv

LEMMA CloseSafe ==
  ASSUME Closed, shown' \in Nat, timers' \subseteq Attempts
  PROVE  LogInv'
<1>1. LogType' BY DEF Closed, NoLog, NoReads, LogType
<1>2. NoLogGap' BY DEF Closed, NoLog, NoLogGap
<1>3. WritingShown' BY DEF Closed, NoReads, WritingShown
<1> QED BY <1>1, <1>2, <1>3 DEF LogInv

LEMMA StreamSafe ==
  ASSUME IInv, Wire \/ LogError \/ Reconnect \/ Finish
  PROVE  LogInv' /\ bound' \in Bounds
<1> USE DEF IInv, LogInv
<1>1. ASSUME Wire PROVE LogInv'
  <2>1. view.attempt \in Attempts BY <1>1 DEF Wire, PageType, Store
  <2> QED BY <1>1, <2>1, OpenSafe DEF Wire, LogType
<1>2. ASSUME LogError PROVE LogInv' BY <1>2, CloseSafe DEF LogError, LogType
<1>3. ASSUME Reconnect PROVE LogInv'
  <2>1. PICK a \in timers : timers' = timers \ {a} /\ Open(a) BY <1>3 DEF Reconnect
  <2> QED BY <1>3, <2>1, OpenSafe DEF Reconnect, LogType
<1>4. ASSUME Finish PROVE LogInv' BY <1>4, CloseSafe DEF Finish, LogType
<1>5. bound' \in Bounds BY FaultTyped DEF Wire, LogError, Reconnect, Finish, PageType
<1> QED BY <1>1, <1>2, <1>3, <1>4, <1>5

LEMMA ReadSafe ==
  ASSUME IInv, NEW r \in Readers, ReadStep(r)
  PROVE  LogInv'
<1> USE DEF IInv, LogInv
<1>1. CASE Read(r)
  <2>1. file[log.attempt] \in Nat BY <1>1 DEF Read, TrackerType, LogType
  <2>2. LogType' BY <1>1, <2>1 DEF Read, LogType
  <2> QED BY <1>1, <2>2 DEF Read, LogType, NoLogGap, WritingShown
<1>2. CASE Send(r)
  <2>1. reader[r].len \in Nat /\ shown \in Nat /\ log.offset \in Nat BY DEF LogType
  <2>2. CASE reader[r].len <= log.offset
    BY <1>2, <2>2 DEF Send, Over, NoReads, LogType, NoLogGap, WritingShown
  <2>3. CASE ~(reader[r].len <= log.offset)
    <3>1. /\ reader' = [reader EXCEPT ![r].st = "writing"]
          /\ shown' = IF strayed \/ reader[r].len <= shown THEN shown ELSE reader[r].len
          /\ UNCHANGED <<log, timers, strayed>>
      BY <1>2, <2>3 DEF Send
    <3>2. LogType' BY <2>1, <3>1 DEF LogType
    <3>3. shown <= shown' /\ (~strayed => reader[r].len <= shown') BY <2>1, <3>1
    <3>4. NoLogGap' BY <2>1, <3>1, <3>2, <3>3 DEF NoLogGap, LogType
    <3>5. WritingShown'
      <4> SUFFICES ASSUME NEW q \in Readers, reader'[q].st = "writing", ~strayed
                   PROVE  reader'[q].len <= shown'
        BY <3>1 DEF WritingShown
      <4>1. reader[q].len \in Nat /\ reader'[q].len = reader[q].len BY <3>1 DEF LogType
      <4>2. CASE q = r BY <3>3, <4>1, <4>2
      <4>3. CASE q # r BY <2>1, <3>1, <3>2, <3>3, <4>1, <4>3 DEF WritingShown, LogType
      <4> QED BY <4>2, <4>3
    <3> QED BY <3>2, <3>4, <3>5
  <2> QED BY <2>2, <2>3
<1>3. CASE Written(r)
  <2>1. LogType' BY <1>3 DEF Written, Over, NoReads, LogType
  <2>2. WritingShown' BY <1>3 DEF Written, Over, NoReads, LogType, WritingShown
  <2>3. NoLogGap' BY <1>3 DEF Written, LogType, WritingShown, NoLogGap
  <2> QED BY <2>1, <2>2, <2>3
<1> QED BY <1>1, <1>2, <1>3 DEF ReadStep

LEMMA Initially == ASSUME Init PROVE IInv
<1>1. TrackerType BY DEF Init, NoRun, TrackerType, Store
<1>2. PageType BY DEF Init, NoRun, PageType, Store
<1>3. LogInv BY DEF Init, LogInv, LogType, NoLogGap, WritingShown, NoLog, NoReads
<1> QED BY <1>1, <1>2, <1>3 DEF IInv

LEMMA Inductive == ASSUME IInv, [Next]_vars PROVE IInv'
<1>1. ASSUME Wire \/ LogError \/ Reconnect \/ Finish PROVE IInv'
  <2>1. UNCHANGED <<tracker, page>>
    BY <1>1 DEF Wire, LogError, Reconnect, Finish
  <2> QED BY <1>1, <2>1, StreamSafe DEF IInv, TrackerType, PageType, tracker, page
<1>2. ASSUME NEW r \in Readers, ReadStep(r) PROVE IInv'
  <2>1. UNCHANGED <<tracker, page, bound>>
    BY <1>2 DEF ReadStep, Read, Send, Written
  <2> QED BY <1>2, <2>1, ReadSafe DEF IInv, TrackerType, PageType, tracker, page
<1>3. ASSUME UNCHANGED vars PROVE IInv'
  BY <1>3, LogKept DEF IInv, TrackerType, PageType, vars, tracker, page
<1> QED BY <1>1, <1>2, <1>3, TrackerSafe, PageSafe DEF Next

(* For any number of attempts, lost connections and reads of the log at once:  *)
(* what the server sends next begins where the page's log ends, or before.     *)
THEOREM NoLogGapTheorem == Spec => []NoLogGap
<1>1. Init => IInv BY Initially
<1>2. IInv /\ [Next]_vars => IInv' BY Inductive
<1>3. IInv => NoLogGap BY DEF IInv, LogInv
<1> QED BY <1>1, <1>2, <1>3, PTL DEF Spec
================================================================================
