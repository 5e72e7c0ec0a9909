---------------------------- MODULE DispatchLease -----------------------------
(***************************************************************************)
(* Dispatch implements IssueLease.  An issue's holders are the workers     *)
(* that have not run their completion; the number of the last grant is     *)
(* next_attempt, or one less where a retry has raised it beforehand.       *)
(***************************************************************************)
EXTENDS Dispatch

LastGrant(i) ==
  CASE run[i].st = "none" -> -1
    [] run[i].st = "retry_queued" -> run[i].next - 1
    [] run[i].st \notin {"none", "retry_queued"} -> run[i].next

Lease == INSTANCE IssueLease WITH
  Place <- Override,
  Nowhere <- NoPath,
  holders <- [i \in Issues |-> Working(i)],
  token <- [i \in Issues |-> LastGrant(i)]

\* Operators that leave a claim to its worker, agents and crashes included, the
\* tick hands out exclusive and ever newer leases (index.ts:194-236, ADR 003).
ImplementsLease == Lease!Spec
==============================================================================
