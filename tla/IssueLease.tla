------------------------------ MODULE IssueLease ------------------------------
(***************************************************************************)
(* What the dispatch of issues promises, without its tables: a worker gets *)
(* an issue only while nobody else has it, nor any issue of the same       *)
(* place, and every grant carries a number greater than all before it.     *)
(***************************************************************************)
EXTENDS Integers

CONSTANTS
  Issues, Slots,
  Place,    \* the external workspace of an issue, or Nowhere
  Nowhere

VARIABLES
  holders,  \* the workers that have the issue
  token     \* the number of the last grant

vars == <<holders, token>>

Neighbours(i) == {j \in Issues \ {i} : Place[j] = Place[i] /\ Place[i] # Nowhere}

Init ==
  /\ holders = [i \in Issues |-> {}]
  /\ token = [i \in Issues |-> -1]

Grant(i, s) ==
  /\ holders[i] = {}
  /\ \A j \in Neighbours(i) : holders[j] = {}
  /\ \A j \in Issues : s \notin holders[j]
  /\ token' \in [Issues -> Int]
  /\ token'[i] > token[i]
  /\ \A j \in Issues \ {i} : token'[j] = token[j]
  /\ holders' = [holders EXCEPT ![i] = {s}]

Return(i, s) ==
  /\ s \in holders[i]
  /\ holders' = [holders EXCEPT ![i] = @ \ {s}]
  /\ UNCHANGED token

\* A number that no worker gets.
Skip(i) ==
  /\ holders[i] = {}
  /\ token' = [token EXCEPT ![i] = @ + 1]
  /\ UNCHANGED holders

\* The workers are gone, all at once.
Lapse ==
  /\ holders' = [i \in Issues |-> {}]
  /\ UNCHANGED token

Next ==
  \/ \E i \in Issues, s \in Slots : Grant(i, s) \/ Return(i, s)
  \/ \E i \in Issues : Skip(i)
  \/ Lapse

Spec == Init /\ [][Next]_vars
------------------------------------------------------------------------------
\* One holder of an issue at most, and one of the issues of a place.
Exclusive ==
  /\ \A i \in Issues : \A s, t \in holders[i] : s = t
  /\ \A i \in Issues : \A j \in Neighbours(i) : holders[i] = {} \/ holders[j] = {}
==============================================================================
