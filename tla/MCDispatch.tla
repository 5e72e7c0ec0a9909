------------------------------ MODULE MCDispatch ------------------------------
(* Instances of Dispatch. *)
EXTENDS DispatchLease, TLC

CONSTANTS i1, i2, i3, p

SlotSymmetry == Permutations(Slots)

\* Two issues share an external workspace, the first in rank first.
SharedPath == [i \in Issues |-> IF i \in {i1, i2} THEN p ELSE NoPath]
NoOverride == [i \in Issues |-> NoPath]
RankOf == (i1 :> 1) @@ (i2 :> 2) @@ (i3 :> 3)
IssueRank == [i \in Issues |-> RankOf[i]]

\* The third issue waits for the first.
ThirdBlocked == [i \in Issues |-> IF i = i3 THEN {i1} ELSE {}]
Unblocked == [i \in Issues |-> {}]
==============================================================================
