------------------------------- MODULE PlanCall -------------------------------
(***************************************************************************)
(* What handing an issue over to a plan run promises, without its tables:  *)
(* a run is called once and tells its caller once, when it has ended and   *)
(* for good; the caller waits for a run of its own, and from the moment it *)
(* is told it waits no more.  It may give up waiting before.               *)
(***************************************************************************)
CONSTANTS
  Runs, Callers,
  CallerOf,  \* the caller of a run, or None
  None

VARIABLES
  phase,     \* how far a run has come
  waits      \* the runs a caller waits for

vars == <<phase, waits>>

Phases == {"absent", "open", "ended", "told"}

Init ==
  /\ phase = [r \in Runs |-> "absent"]
  /\ waits = [c \in Callers |-> {}]

\* A caller that waits for nothing starts a run and waits for it.
Call(c, r) ==
  /\ CallerOf[r] = c
  /\ phase[r] = "absent"
  /\ waits[c] = {}
  /\ phase' = [phase EXCEPT ![r] = "open"]
  /\ waits' = [waits EXCEPT ![c] = {r}]

\* A run starts and nobody waits for it.
Open(r) ==
  /\ phase[r] = "absent"
  /\ phase' = [phase EXCEPT ![r] = "open"]
  /\ UNCHANGED waits

\* Some runs end, others that have ended tell their callers, and some callers
\* give up waiting.  A caller that is told waits no more, whichever of its runs
\* it is told of.
Turn(ends, tells, leaves) ==
  /\ \A r \in ends : phase[r] = "open"
  /\ \A r \in tells : phase[r] = "ended" /\ CallerOf[r] # None
  /\ phase' = [r \in Runs |-> IF r \in ends THEN "ended"
                              ELSE IF r \in tells THEN "told" ELSE phase[r]]
  /\ waits' = [c \in Callers |->
                 IF c \in leaves \cup {CallerOf[r] : r \in tells} THEN {} ELSE waits[c]]

Next ==
  \/ \E c \in Callers, r \in Runs : Call(c, r)
  \/ \E r \in Runs : Open(r)
  \/ \E ends, tells \in SUBSET Runs, leaves \in SUBSET Callers : Turn(ends, tells, leaves)

Spec == Init /\ [][Next]_vars
------------------------------------------------------------------------------
\* A caller waits for one run at most, which is its own and has not told it yet.
Owed ==
  \A c \in Callers :
    /\ \A r, q \in waits[c] : r = q
    /\ \A r \in waits[c] : r \in Runs /\ CallerOf[r] = c /\ phase[r] \in {"open", "ended"}
==============================================================================
