----------------------------- MODULE MCIssueStore -----------------------------
(* A gate and the issue that waits for it. *)
EXTENDS IssueStore

CONSTANTS g, d

GateFirst == {<<d, g>>}
==============================================================================
