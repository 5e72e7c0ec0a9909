---------------------------- MODULE MCAttemptLoop -----------------------------
(* Instances of AttemptLoop: the agent may name one cause of its own, beside  *)
(* those that the worker derives.                                             *)
EXTENDS AttemptLoop

CONSTANT c1
==============================================================================
