---------------------------- MODULE DispatchSlots ----------------------------
(***************************************************************************)
(* The semaphore that bounds concurrent agents, and the tick that uses it  *)
(* (orchestrator/index.ts).  Every tick calls setMax with the limit of the *)
(* workflow file as it is now, takes what is available as the number of    *)
(* runs it may dispatch, and acquires one slot per dispatched run.  The    *)
(* body of a tick runs without yielding: while `batch` holds runs it has   *)
(* still to dispatch, no worker can finish.                                *)
(***************************************************************************)
EXTENDS Integers, Sequences, FiniteSets

CONSTANTS
  Runs,     \* the runs that may be dispatched; a worker is named by its run
  EnvLimit, \* config.MAX_CONCURRENT_AGENTS, the limit at construction
  Limits    \* the values polling.max_concurrent_agents takes over time

ASSUME RunsAssumption == IsFiniteSet(Runs)
ASSUME LimitsAssumption == EnvLimit \in Nat \ {0} /\ Limits \subseteq Int

VARIABLES
  max,      \* Semaphore.max
  count,    \* Semaphore.count, the slots available()
  queue,    \* Semaphore.queue, acquirers that found no slot
  batch,    \* runs the current tick has still to dispatch
  running   \* runs whose runWorker has a slot and has not finished

slotsVars == <<max, count, queue, batch, running>>

Queued == {queue[k] : k \in DOMAIN queue}
Dispatchable == Runs \ (running \cup Queued \cup batch)
------------------------------------------------------------------------------
AtLeast(lo, n) == IF n < lo THEN lo ELSE n

\* active(): what setMax and getConcurrencyStatus take for the running workers.
Active == max - count

SlotsInit ==
  /\ max = EnvLimit
  /\ count = EnvLimit
  /\ queue = <<>>
  /\ batch = {}
  /\ running = {}

SetMax(l) ==
  /\ max' = AtLeast(1, l)
  /\ count' = AtLeast(0, AtLeast(1, l) - Active)

\* The batch without its slice(0, slots).
BatchUnsliced(b, slots) == b \in SUBSET Dispatchable

\* toDispatch: retries and candidates, no more of them than slots.
Batch(b, slots) == b \in SUBSET Dispatchable /\ Cardinality(b) <= slots

Tick(l) ==
  /\ batch = {}
  /\ SetMax(l)
  /\ \/ count' <= 0 /\ batch' = {}
     \/ count' > 0 /\ \E b \in SUBSET Runs : Batch(b, count') /\ batch' = b
  /\ UNCHANGED <<queue, running>>

\* acquire() for one run of the batch: a slot at once, or the queue.
Acquire(i) ==
  /\ i \in batch
  /\ batch' = batch \ {i}
  /\ IF count > 0
       THEN /\ count' = count - 1
            /\ running' = running \cup {i}
            /\ UNCHANGED queue
       ELSE /\ queue' = Append(queue, i)
            /\ UNCHANGED <<count, running>>
  /\ UNCHANGED max

\* The finally of a dispatch that releases a slot twice over.
ReleaseTwice(i) ==
  /\ batch = {}
  /\ i \in running
  /\ running' = running \ {i}
  /\ count' = count + 2
  /\ UNCHANGED <<max, queue, batch>>

\* release() when runWorker settles: the slot goes to the head of the queue.
Release(i) ==
  /\ batch = {}
  /\ i \in running
  /\ IF queue # <<>>
       THEN /\ queue' = Tail(queue)
            /\ running' = (running \ {i}) \cup {Head(queue)}
            /\ UNCHANGED count
       ELSE /\ count' = count + 1
            /\ running' = running \ {i}
            /\ UNCHANGED queue
  /\ UNCHANGED <<max, batch>>

SlotsNext ==
  \/ \E l \in Limits : Tick(l)
  \/ \E i \in Runs : Acquire(i) \/ Release(i)

SlotsSpec == SlotsInit /\ [][SlotsNext]_slotsVars
------------------------------------------------------------------------------
SlotsTypeOK ==
  /\ max \in Int
  /\ count \in Nat
  /\ queue \in Seq(Runs)
  /\ batch \in SUBSET Runs
  /\ running \in SUBSET Runs
  /\ running \cap batch = {}

\* Every slot is either available or held by exactly one worker, so the
\* status the API reports (limit, available, active) is the truth.  It needs
\* the limit to be constant (index.ts:33-39, getConcurrencyStatus).
SlotsConserved == count + Cardinality(running) = max

\* A claimed run never waits in the semaphore's queue: there it would have no
\* worker, no process and no heartbeat until another worker finished, and the
\* next tick would take it for stale (index.ts:149-172 bounds the batch).
NoParkedRun == queue = <<>>

\* "never make more available than the new limit allows" (index.ts:37): no
\* acquire takes the workers above the limit that the tick has just set.
AcquireWithinLimit ==
  [][running \subseteq running' /\ running' # running
       => Cardinality(running') <= max]_slotsVars
==============================================================================
