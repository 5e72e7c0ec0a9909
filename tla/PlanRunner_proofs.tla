-------------------------- MODULE PlanRunner_proofs ---------------------------
(***************************************************************************)
(* Theorems of PlanRunner, for any scripts whose keys are stable and any   *)
(* number of calls, faults, retries and crashes: first that every call of  *)
(* such a script comes to the same key in every life of the process, then  *)
(* what follows for the journal.                                           *)
(***************************************************************************)
EXTENDS PlanRunner, FiniteSetTheorems, TLAPS

\* The calls of c's phase that are made before it, and the key that this gives it.
Earlier(s, c) == {b \in Before(s, c) : s.phase[b] = s.phase[c]}

Slot(s, c) ==
  IF s.key[c] # NoKey THEN s.key[c] ELSE <<s.phase[c], Cardinality(Earlier(s, c)) + 1>>

LEMMA ScriptTyped ==
  ASSUME NEW s \in Scripts
  PROVE  /\ s.after \in [Calls -> SUBSET Calls] /\ s.key \in [Calls -> Calls \cup {NoKey}]
         /\ s.phase \in [Calls -> Phases] /\ s.caught \subseteq Calls /\ s.limit \in Nat
  BY ScriptsAssumption DEF Script

LEMMA BeforeTransitive ==
  ASSUME NEW s, NEW c \in Calls, NEW b \in Before(s, c)
  PROVE  Before(s, b) \subseteq Before(s, c)
<1> SUFFICES ASSUME NEW a \in Before(s, b), NEW S \in SUBSET Calls,
                    s.after[c] \subseteq S, \A x \in S : s.after[x] \subseteq S
             PROVE  a \in Calls /\ a \in S
  BY DEF Before
<1>1. b \in S
  BY DEF Before
<1>2. s.after[b] \subseteq S
  BY <1>1
<1> QED
  BY <1>2 DEF Before

LEMMA EarlierFinite ==
  ASSUME NEW s, NEW c \in Calls, c \notin Before(s, c)
  PROVE  /\ IsFiniteSet(Earlier(s, c))
         /\ Cardinality(Earlier(s, c)) + 1 \in 1..Cardinality(Calls)
<1>1. IsFiniteSet(Calls)
  BY CallsAssumption
<1>2. IsFiniteSet(Calls \ {c}) /\ Cardinality(Calls \ {c}) = Cardinality(Calls) - 1
  BY <1>1, FS_RemoveElement
<1>3. Earlier(s, c) \in SUBSET (Calls \ {c})
  BY DEF Earlier, Before
<1>4. IsFiniteSet(Earlier(s, c)) /\ Cardinality(Earlier(s, c)) <= Cardinality(Calls) - 1
  BY <1>2, <1>3, FS_Subset
<1>5. Cardinality(Earlier(s, c)) \in Nat /\ Cardinality(Calls) \in Nat
  BY <1>1, <1>4, FS_CardinalityType
<1> QED
  BY <1>4, <1>5

LEMMA SlotTyped ==
  ASSUME NEW s \in Scripts, StableKeys(s), NEW c \in Calls
  PROVE  Slot(s, c) \in Keys /\ Slot(s, c) # None
<1>1. c \notin Before(s, c)
  BY DEF StableKeys
<1>2. s.key[c] \in Calls \cup {NoKey} /\ s.phase[c] \in Phases
  BY ScriptTyped
<1>3. Cardinality(Earlier(s, c)) + 1 \in 1..Cardinality(Calls)
  BY <1>1, EarlierFinite
<1>4. Cardinality(Earlier(s, c)) + 1 \in Nat
  <2>1. Cardinality(Calls) \in Nat
    BY CallsAssumption, FS_CardinalityType
  <2> QED
    BY <1>3, <2>1
<1> QED
  BY <1>2, <1>3, <1>4, KeysAssumption DEF Slot, Keys

\* An earlier call of the phase has fewer calls before it.
LEMMA SlotGrows ==
  ASSUME NEW s, NEW b \in Calls, NEW c \in Calls, b \in Before(s, c), s.phase[b] = s.phase[c],
         b \notin Before(s, b), c \notin Before(s, c)
  PROVE  Cardinality(Earlier(s, b)) < Cardinality(Earlier(s, c))
<1>1. IsFiniteSet(Earlier(s, b)) /\ IsFiniteSet(Earlier(s, c))
  BY EarlierFinite
<1>2. Earlier(s, b) \cup {b} \in SUBSET Earlier(s, c) /\ b \notin Earlier(s, b)
  BY BeforeTransitive DEF Earlier
<1>3. Cardinality(Earlier(s, b) \cup {b}) = Cardinality(Earlier(s, b)) + 1
  BY <1>1, <1>2, FS_AddElement
<1>4. Cardinality(Earlier(s, b) \cup {b}) <= Cardinality(Earlier(s, c))
  BY <1>1, <1>2, FS_Subset
<1>5. Cardinality(Earlier(s, b)) \in Nat /\ Cardinality(Earlier(s, c)) \in Nat
  BY <1>1, FS_CardinalityType
<1> QED
  BY <1>3, <1>4, <1>5

\* No two calls of a script with stable keys share one.
LEMMA SlotInjective ==
  ASSUME NEW s \in Scripts, StableKeys(s), NEW b \in Calls, NEW c \in Calls,
         Slot(s, b) = Slot(s, c)
  PROVE  b = c
<1> SUFFICES ASSUME b # c
             PROVE  FALSE
  OBVIOUS
<1>1. /\ s.key[b] \in Calls \cup {NoKey} /\ s.key[c] \in Calls \cup {NoKey}
      /\ s.phase[b] \in Phases /\ s.phase[c] \in Phases
  BY ScriptTyped
<1>2. b \notin Before(s, b) /\ c \notin Before(s, c)
  BY DEF StableKeys
<1>3. Cardinality(Earlier(s, b)) \in Nat /\ Cardinality(Earlier(s, c)) \in Nat
  BY <1>2, EarlierFinite, FS_CardinalityType
<1>4. \A x \in Calls, ph \in Phases, n \in Nat : x # <<ph, n + 1>>
  BY CallsAssumption
<1>5. CASE s.key[b] # NoKey /\ s.key[c] # NoKey
  BY <1>5 DEF Slot, StableKeys
<1>6. CASE (s.key[b] # NoKey) # (s.key[c] # NoKey)
  BY <1>1, <1>3, <1>4, <1>6 DEF Slot
<1>7. CASE s.key[b] = NoKey /\ s.key[c] = NoKey
  <2>1. s.phase[b] = s.phase[c] /\ Cardinality(Earlier(s, b)) + 1 = Cardinality(Earlier(s, c)) + 1
    BY <1>7 DEF Slot
  <2>2. b \in Before(s, c) \/ c \in Before(s, b)
    BY <1>7, <2>1 DEF StableKeys
  <2>3. \/ Cardinality(Earlier(s, b)) < Cardinality(Earlier(s, c))
        \/ Cardinality(Earlier(s, c)) < Cardinality(Earlier(s, b))
    BY <1>2, <2>1, <2>2, SlotGrows
  <2> QED
    BY <1>3, <2>1, <2>3
<1> QED
  BY <1>5, <1>6, <1>7
------------------------------------------------------------------------------
(* The inductive invariant. *)

CallRow == [st : {"idle", "polling", "returned", "failed"}, key : Keys \cup {None},
            n : 0..MaxSubs, tries : Nat, result : Calls \cup {None}]
SubRow == [1..MaxSubs -> SubStates]
NodeStates == {"none", "running", "done", "cancelled", "failed"}

\* Only what has been reached is made, and what was waited for stays settled.
InOrder == \A c \in Calls : call[c].st # "idle" => \A b \in script.after[c] : Settled(b)

\* A call that was made has its slot's key; one that was refused has none.
KeyRight ==
  \A c \in Calls :
    /\ call[c].key \in {None, Slot(script, c)}
    /\ call[c].st \in {"polling", "returned"} => call[c].key = Slot(script, c)
    /\ call[c].st = "idle" => call[c].key = None

\* phaseCallIndex counts the calls of the phase that were made.
Numbered(ph) == {c \in Calls : script.phase[c] = ph /\ call[c].key # None}
Indexed == \A ph \in Phases : index[ph] = Cardinality(Numbered(ph))

Belongs(e, c) == e.result = IF e.st = "done" THEN c ELSE None

\* What the journal has under the key of a call is the call's; it changes only
\* while the call polls, and an end as done is the last.
JournalOwn ==
  \A c \in Calls :
    /\ Belongs(journal[Slot(script, c)], c)
    /\ Belongs(done[Slot(script, c)], c)
JournalFresh ==
  \A c \in Calls :
    /\ call[c].st = "idle" => journal[Slot(script, c)] = done[Slot(script, c)]
    /\ call[c].st = "polling" => journal[Slot(script, c)].st # "done"

\* OwnResult says nothing of what is in the journal, and the journal is right only
\* because the keys are.
IInv ==
  /\ TypeOK /\ StableKeys(script)
  /\ InOrder /\ KeyRight /\ Indexed /\ JournalOwn /\ JournalFresh /\ OwnResult
------------------------------------------------------------------------------
(* Types. *)

LEMMA Typed ==
  TypeOK <=> /\ script \in Scripts
             /\ plan \in {"running", "done", "failed", "cancelled"}
             /\ job \in {"pending", "ended", "gone"} /\ late \in BOOLEAN
             /\ subs \in [Calls -> SubRow]
             /\ journal \in [Keys -> Entry] /\ done \in [Keys -> Entry]
             /\ nodes \in [Keys -> NodeStates]
             /\ count \in Int /\ index \in [Phases -> Nat] /\ call \in [Calls -> CallRow]
             /\ faults \in 0..MaxFaults /\ crashes \in 0..MaxCrashes
  BY DEF TypeOK, SubRow, NodeStates, CallRow

LEMMA RowTyped ==
  ASSUME TypeOK, NEW c \in Calls
  PROVE  /\ call[c].st \in {"idle", "polling", "returned", "failed"}
         /\ call[c].key \in Keys \cup {None} /\ call[c].n \in 0..MaxSubs
         /\ call[c].tries \in Nat /\ call[c].result \in Calls \cup {None}
         /\ call[c] \in CallRow
<1>1. call[c] \in CallRow
  BY Typed
<1> QED
  BY <1>1 DEF CallRow

LEMMA MadeTyped ==
  ASSUME NEW c \in Calls
  PROVE  Made(c) \in Nat
<1>1. IsFiniteSet(1..MaxSubs)
  BY BoundsAssumption, FS_Interval
<1>2. {n \in 1..MaxSubs : subs[c][n] # "none"} \in SUBSET (1..MaxSubs)
  OBVIOUS
<1> QED
  BY <1>1, <1>2, FS_Subset, FS_CardinalityType DEF Made

\* The row that a new sub-issue gives its call.
NewRow(c, k, tries) ==
  [st |-> IF late THEN "failed" ELSE "polling", key |-> k, n |-> Made(c) + 1,
   tries |-> tries, result |-> None]

LEMMA Created ==
  ASSUME TypeOK, NEW c \in Calls, NEW k \in Keys, NEW tries \in Nat, Create(c, k, tries)
  PROVE  /\ subs' \in [Calls -> SubRow] /\ nodes' \in [Keys -> NodeStates]
         /\ NewRow(c, k, tries) \in CallRow
         /\ call' = [call EXCEPT ![c] = NewRow(c, k, tries)]
         /\ \A b \in Calls \ {c} : subs'[b] = subs[b]
<1>1. Made(c) \in Nat /\ MaxSubs \in Nat
  BY MadeTyped, BoundsAssumption
<1>2. /\ Made(c) + 1 <= MaxSubs
      /\ subs' = [subs EXCEPT ![c][Made(c) + 1] =
                    IF c \in script.gate THEN "plan_review" ELSE "open"]
      /\ nodes' = [nodes EXCEPT ![k] = "running"]
      /\ call' = [call EXCEPT ![c] = NewRow(c, k, tries)]
  BY DEF Create, NodeIs, NewRow
<1>3. Made(c) + 1 \in 1..MaxSubs
  BY <1>1, <1>2
<1>4. subs \in [Calls -> SubRow] /\ nodes \in [Keys -> NodeStates]
  BY Typed
<1>5. /\ subs' \in [Calls -> SubRow]
      /\ \A b \in Calls \ {c} : subs'[b] = subs[b]
  BY <1>2, <1>3, <1>4 DEF SubRow, SubStates
<1>6. nodes' \in [Keys -> NodeStates]
  BY <1>2, <1>4 DEF NodeStates
<1>7. NewRow(c, k, tries) \in CallRow
  <2>1. (IF late THEN "failed" ELSE "polling") \in {"idle", "polling", "returned", "failed"}
    OBVIOUS
  <2> QED
    BY <1>3, <2>1 DEF NewRow, CallRow
<1> QED
  BY <1>2, <1>5, <1>6, <1>7

LEMMA Thrown ==
  ASSUME TypeOK, NEW c \in Calls, Throws(c)
  PROVE  /\ call' = [call EXCEPT ![c] = [call[c] EXCEPT !.st = "failed"]]
         /\ [call[c] EXCEPT !.st = "failed"] \in CallRow
         /\ plan' \in {"running", "done", "failed", "cancelled"}
         /\ job' \in {"pending", "ended", "gone"}
<1>1. call[c] \in CallRow /\ call \in [Calls -> CallRow]
  BY Typed
<1>2. call' = [call EXCEPT ![c].st = "failed"]
  BY DEF Throws
<1>3. [call[c] EXCEPT !.st = "failed"] \in CallRow
  BY <1>1 DEF CallRow
<1>4. /\ plan' \in {"running", "done", "failed", "cancelled"}
      /\ job' \in {"pending", "ended", "gone"}
  BY Typed DEF Throws
<1> QED
  BY <1>1, <1>2, <1>3, <1>4
------------------------------------------------------------------------------
(* The keys of the calls. *)

LEMMA BeforeSettled ==
  ASSUME TypeOK, InOrder, NEW c \in Calls, \A b \in script.after[c] : Settled(b)
  PROVE  \A b \in Before(script, c) : Settled(b)
<1> DEFINE S == {x \in Calls : Settled(x)}
<1>1. script.after \in [Calls -> SUBSET Calls]
  BY Typed, ScriptTyped
<1>2. script.after[c] \subseteq S
  BY <1>1
<1>3. \A x \in S : script.after[x] \subseteq S
  <2> SUFFICES ASSUME NEW x \in S
               PROVE  script.after[x] \subseteq S
    OBVIOUS
  <2>1. call[x].st # "idle"
    BY DEF Settled
  <2> QED
    BY <1>1, <2>1 DEF InOrder
<1>4. S \in SUBSET Calls
  OBVIOUS
<1> HIDE DEF S
<1>5. Before(script, c) \subseteq S
  BY <1>2, <1>3, <1>4 DEF Before
<1> QED
  BY <1>5 DEF S

\* The calls of its phase that a call without a key finds numbered are those that
\* are before it in every life.
LEMMA KeyOfMade ==
  ASSUME IInv, NEW c \in Calls, Reached(c)
  PROVE  KeyOf(c) = Slot(script, c)
<1>0. TypeOK /\ StableKeys(script) /\ InOrder /\ KeyRight /\ Indexed
  BY DEF IInv
<1>1. CASE script.key[c] # NoKey
  BY <1>1 DEF KeyOf, Slot
<1>2. CASE script.key[c] = NoKey
  <2>1. script.phase[c] \in Phases
    BY <1>0, Typed, ScriptTyped
  <2>2. call[c].st = "idle" /\ \A b \in Before(script, c) : Settled(b)
    BY <1>0, BeforeSettled DEF Reached
  <2>3. ASSUME NEW b \in Earlier(script, c)
        PROVE  b \in Numbered(script.phase[c])
    <3>1. b \in Calls /\ b \in Before(script, c) /\ script.phase[b] = script.phase[c]
      BY DEF Earlier, Before
    <3>2. b # c
      BY <1>0, <3>1 DEF StableKeys
    <3>3. c \notin Before(script, b)
      <4>1. c \in Before(script, b) => Before(script, b) \subseteq Before(script, c)
        BY <3>1, BeforeTransitive
      <4>2. c \notin Before(script, c)
        BY <1>0 DEF StableKeys
      <4> QED
        BY <4>1, <4>2
    <3>4. b \notin script.caught
      BY <1>0, <1>2, <3>1, <3>2, <3>3 DEF StableKeys
    <3>5. call[b].st = "returned"
      BY <2>2, <3>1, <3>4 DEF Settled
    <3>6. call[b].key = Slot(script, b) /\ Slot(script, b) # None
      <4>1. Slot(script, b) # None
        BY <1>0, <3>1, SlotTyped, Typed
      <4> QED
        BY <1>0, <3>1, <3>5, <4>1 DEF KeyRight
    <3> QED
      BY <3>1, <3>6 DEF Numbered
  <2>4. ASSUME NEW b \in Numbered(script.phase[c])
        PROVE  b \in Earlier(script, c)
    <3>1. b \in Calls /\ script.phase[b] = script.phase[c] /\ call[b].key # None
      BY DEF Numbered
    <3>2. call[b].st # "idle"
      BY <1>0, <3>1 DEF KeyRight
    <3>3. b # c
      BY <2>2, <3>2
    <3>4. \A a \in Before(script, b) : Settled(a)
      BY <1>0, <3>1, <3>2, BeforeSettled DEF InOrder
    <3>5. c \notin Before(script, b)
      BY <2>2, <3>4 DEF Settled
    <3>6. b \in Before(script, c)
      BY <1>0, <1>2, <3>1, <3>3, <3>5 DEF StableKeys
    <3> QED
      BY <3>1, <3>6 DEF Earlier
  <2>5. Numbered(script.phase[c]) = Earlier(script, c)
    BY <2>3, <2>4
  <2>6. index[script.phase[c]] = Cardinality(Earlier(script, c))
    BY <1>0, <2>1, <2>5 DEF Indexed
  <2> QED
    BY <1>2, <2>6 DEF KeyOf, Slot
<1> QED
  BY <1>1, <1>2
------------------------------------------------------------------------------
(* What a step does to one call. *)

\* A call that waited is reached: nothing that was settled is unsettled by it.
LEMMA OrderKept ==
  ASSUME TypeOK, InOrder, NEW c \in Calls, NEW row \in CallRow,
         call' = [call EXCEPT ![c] = row], script' = script,
         call[c].st = "polling" \/ Reached(c)
  PROVE  InOrder'
<1> SUFFICES ASSUME NEW x \in Calls, call'[x].st # "idle", NEW b \in script.after[x]
             PROVE  Settled(b)'
  BY DEF InOrder
<1>0. script.after \in [Calls -> SUBSET Calls] /\ call \in [Calls -> CallRow]
  BY Typed, ScriptTyped
<1>1. Settled(b)
  BY <1>0 DEF InOrder, Reached
<1>2. b # c
  BY <1>1 DEF Settled, Reached
<1> QED
  BY <1>0, <1>1, <1>2 DEF Settled

\* A poll, or a call that is refused: the key stays as it is.
LEMMA RowMoves ==
  ASSUME IInv, NEW c \in Calls, NEW row \in CallRow,
         call' = [call EXCEPT ![c] = row], UNCHANGED <<script, done, index>>,
         row.key = call[c].key, row.st # "idle",
         call[c].st = "polling" \/ (Reached(c) /\ row.st = "failed"),
         row.st = "returned" => row.result = c
  PROVE  StableKeys(script') /\ InOrder' /\ KeyRight' /\ Indexed' /\ OwnResult'
<1>0. /\ TypeOK /\ StableKeys(script) /\ InOrder /\ KeyRight /\ Indexed /\ OwnResult
      /\ call \in [Calls -> CallRow]
  BY Typed DEF IInv
<1>1. \A x \in Calls : call'[x].key = call[x].key
  BY <1>0
<1>2. InOrder'
  BY <1>0, OrderKept
<1>3. KeyRight'
  <2> SUFFICES ASSUME NEW x \in Calls
               PROVE  /\ call'[x].key \in {None, Slot(script, x)}
                      /\ call'[x].st \in {"polling", "returned"} =>
                           call'[x].key = Slot(script, x)
                      /\ call'[x].st = "idle" => call'[x].key = None
    BY DEF KeyRight
  <2>1. CASE x = c
    BY <1>0, <2>1 DEF KeyRight
  <2>2. CASE x # c
    BY <1>0, <2>2 DEF KeyRight
  <2> QED
    BY <2>1, <2>2
<1>4. Indexed'
  <2> SUFFICES ASSUME NEW ph \in Phases
               PROVE  index[ph] = Cardinality(Numbered(ph)')
    BY DEF Indexed
  <2>1. Numbered(ph)' = Numbered(ph)
    BY <1>1 DEF Numbered
  <2> QED
    BY <1>0, <2>1 DEF Indexed
<1>5. OwnResult'
  <2> SUFFICES ASSUME NEW x \in Calls, call'[x].st = "returned"
               PROVE  \/ call'[x].result = x
                      \/ call'[x].result = None /\ done[call'[x].key].st = "cancelled"
    BY DEF OwnResult
  <2>1. CASE x = c
    BY <1>0, <2>1
  <2>2. CASE x # c
    BY <1>0, <2>2 DEF OwnResult
  <2> QED
    BY <2>1, <2>2
<1> QED
  BY <1>0, <1>2, <1>3, <1>4, <1>5

\* A poll that journals its end: under a key that no other call has.
LEMMA PollJournals ==
  ASSUME IInv, NEW c \in Calls, NEW row \in CallRow, NEW e \in Entry,
         call' = [call EXCEPT ![c] = row], UNCHANGED <<script, done>>,
         journal' = [journal EXCEPT ![call[c].key] = e],
         call[c].st = "polling", row.st # "idle",
         Belongs(e, c), row.st = "polling" => e.st # "done"
  PROVE  journal' \in [Keys -> Entry] /\ JournalOwn' /\ JournalFresh'
<1>0. /\ TypeOK /\ StableKeys(script) /\ KeyRight /\ JournalOwn /\ JournalFresh
      /\ call \in [Calls -> CallRow] /\ journal \in [Keys -> Entry] /\ script \in Scripts
  BY Typed DEF IInv
<1>1. call[c].key = Slot(script, c)
  BY <1>0 DEF KeyRight
<1>2. \A x \in Calls : Slot(script, x) \in Keys
  BY <1>0, SlotTyped
<1>3. journal'[Slot(script, c)] = e
  BY <1>0, <1>1, <1>2
<1>4. \A x \in Calls \ {c} : journal'[Slot(script, x)] = journal[Slot(script, x)]
  <2> SUFFICES ASSUME NEW x \in Calls \ {c}
               PROVE  journal'[Slot(script, x)] = journal[Slot(script, x)]
    OBVIOUS
  <2>1. Slot(script, x) # Slot(script, c)
    BY <1>0, SlotInjective
  <2> QED
    BY <1>0, <1>1, <1>2, <2>1
<1>5. journal' \in [Keys -> Entry]
  BY <1>0
<1>6. JournalOwn'
  <2> SUFFICES ASSUME NEW x \in Calls
               PROVE  /\ Belongs(journal'[Slot(script, x)], x)
                      /\ Belongs(done[Slot(script, x)], x)
    BY DEF JournalOwn, Belongs
  <2>1. CASE x = c
    BY <1>0, <1>3, <2>1 DEF JournalOwn
  <2>2. CASE x # c
    BY <1>0, <1>4, <2>2 DEF JournalOwn
  <2> QED
    BY <2>1, <2>2
<1>7. JournalFresh'
  <2> SUFFICES ASSUME NEW x \in Calls
               PROVE  /\ call'[x].st = "idle" =>
                           journal'[Slot(script, x)] = done[Slot(script, x)]
                      /\ call'[x].st = "polling" => journal'[Slot(script, x)].st # "done"
    BY DEF JournalFresh
  <2>1. CASE x = c
    BY <1>0, <1>3, <2>1
  <2>2. CASE x # c
    BY <1>0, <1>4, <2>2 DEF JournalFresh
  <2> QED
    BY <2>1, <2>2
<1> QED
  BY <1>5, <1>6, <1>7

\* A call that fails without a word to the journal.
LEMMA FailsSilently ==
  ASSUME IInv, NEW c \in Calls, NEW row \in CallRow,
         call' = [call EXCEPT ![c] = row], UNCHANGED <<script, done, journal>>,
         row.st = "failed"
  PROVE  JournalOwn' /\ JournalFresh'
<1>0. /\ JournalOwn /\ JournalFresh /\ call \in [Calls -> CallRow]
  BY Typed DEF IInv
<1>1. JournalOwn'
  BY <1>0 DEF JournalOwn, Belongs
<1>2. JournalFresh'
  <2> SUFFICES ASSUME NEW x \in Calls
               PROVE  /\ call'[x].st = "idle" =>
                           journal[Slot(script, x)] = done[Slot(script, x)]
                      /\ call'[x].st = "polling" => journal[Slot(script, x)].st # "done"
    BY DEF JournalFresh
  <2>1. call'[x].st \in {"idle", "polling"} => call'[x] = call[x]
    BY <1>0
  <2> QED
    BY <1>0, <2>1 DEF JournalFresh
<1> QED
  BY <1>1, <1>2
------------------------------------------------------------------------------
(* The steps. *)

LEMMA RefuseKeeps ==
  ASSUME IInv, NEW c \in Calls, Refuse(c)
  PROVE  IInv'
<1> DEFINE row == [call[c] EXCEPT !.st = "failed"]
<1>0. /\ TypeOK /\ Reached(c) /\ Throws(c)
      /\ UNCHANGED <<script, late, subs, journal, nodes, done, count, index, faults, crashes>>
  BY DEF IInv, Refuse
<1>1. /\ call' = [call EXCEPT ![c] = row] /\ row \in CallRow
      /\ plan' \in {"running", "done", "failed", "cancelled"}
      /\ job' \in {"pending", "ended", "gone"}
  BY <1>0, Thrown
<1>2. row.st = "failed" /\ row.key = call[c].key
  BY <1>0, RowTyped DEF CallRow
<1> HIDE DEF row
<1>3. StableKeys(script') /\ InOrder' /\ KeyRight' /\ Indexed' /\ OwnResult'
  BY <1>0, <1>1, <1>2, RowMoves
<1>4. JournalOwn' /\ JournalFresh'
  BY <1>0, <1>1, <1>2, FailsSilently
<1>5. TypeOK'
  BY <1>0, <1>1 DEF TypeOK, CallRow
<1> QED
  BY <1>3, <1>4, <1>5 DEF IInv

LEMMA PollKeeps ==
  ASSUME IInv, NEW c \in Calls, Poll(c)
  PROVE  IInv'
<1>0. /\ TypeOK /\ KeyRight /\ StableKeys(script) /\ call[c].st = "polling"
      /\ call \in [Calls -> CallRow] /\ nodes \in [Keys -> NodeStates]
  BY Typed DEF IInv, Poll, PollDone, PollRetry, PollCancelled, PollLost, PollLate, Polls
<1>1. call[c].key \in Keys
  <2>1. call[c].key = Slot(script, c)
    BY <1>0 DEF KeyRight
  <2> QED
    BY <1>0, <2>1, SlotTyped, Typed
<1>2. CASE PollDone(c)
  <2> DEFINE row == [call[c] EXCEPT !.st = "returned", !.result = c]
             e == [st |-> "done", result |-> c]
  <2>1. /\ call' = [call EXCEPT ![c] = row] /\ row \in CallRow
        /\ row.st = "returned" /\ row.result = c /\ row.key = call[c].key
    <3>1. call[c] \in CallRow
      BY <1>0
    <3>2. call' = [call EXCEPT ![c].st = "returned", ![c].result = c]
      BY <1>2 DEF PollDone
    <3> QED
      BY <1>0, <3>1, <3>2 DEF CallRow
  <2>2. /\ journal' = [journal EXCEPT ![call[c].key] = e]
        /\ nodes' = [nodes EXCEPT ![call[c].key] = "done"]
        /\ UNCHANGED <<script, plan, job, late, subs, done, count, index, faults, crashes>>
    BY <1>2 DEF PollDone, Journalled, NodeIs
  <2>3. e \in Entry /\ Belongs(e, c)
    BY DEF Entry, Belongs
  <2> HIDE DEF row, e
  <2>4. StableKeys(script') /\ InOrder' /\ KeyRight' /\ Indexed' /\ OwnResult'
    BY <1>0, <2>1, <2>2, RowMoves
  <2>5. journal' \in [Keys -> Entry] /\ JournalOwn' /\ JournalFresh'
    BY <1>0, <2>1, <2>2, <2>3, PollJournals
  <2>6. TypeOK'
    <3>1. nodes' \in [Keys -> NodeStates]
      BY <1>0, <2>2 DEF NodeStates
    <3>2. call' \in [Calls -> CallRow]
      BY <1>0, <2>1
    <3> QED
      BY <1>0, <2>2, <2>5, <3>1, <3>2 DEF TypeOK, CallRow, NodeStates
  <2> QED
    BY <2>4, <2>5, <2>6 DEF IInv
<1>3. CASE PollRetry(c)
  <2> DEFINE row == NewRow(c, call[c].key, call[c].tries + 1)
             e == [st |-> "cancelled", result |-> None]
  <2>1. /\ journal' = [journal EXCEPT ![call[c].key] = e]
        /\ count' = count - 1
        /\ Create(c, call[c].key, call[c].tries + 1)
        /\ UNCHANGED <<script, plan, job, late, done, index, faults, crashes>>
    BY <1>3 DEF PollRetry, Journalled
  <2>2. call[c].tries + 1 \in Nat
    BY <1>0, RowTyped
  <2>3. /\ subs' \in [Calls -> SubRow] /\ nodes' \in [Keys -> NodeStates]
        /\ row \in CallRow /\ call' = [call EXCEPT ![c] = row]
    BY <1>0, <1>1, <2>1, <2>2, Created
  <2>4. row.st \in {"polling", "failed"} /\ row.key = call[c].key
    BY DEF NewRow
  <2>5. e \in Entry /\ Belongs(e, c) /\ e.st # "done"
    BY DEF Entry, Belongs
  <2> HIDE DEF row, e
  <2>6. StableKeys(script') /\ InOrder' /\ KeyRight' /\ Indexed' /\ OwnResult'
    BY <1>0, <2>1, <2>3, <2>4, RowMoves
  <2>7. journal' \in [Keys -> Entry] /\ JournalOwn' /\ JournalFresh'
    BY <1>0, <2>1, <2>3, <2>4, <2>5, PollJournals
  <2>8. TypeOK'
    <3>1. count' \in Int
      BY <1>0, <2>1 DEF TypeOK
    <3>2. call' \in [Calls -> CallRow]
      BY <1>0, <2>3
    <3> QED
      BY <1>0, <2>1, <2>3, <2>7, <3>1, <3>2 DEF TypeOK, CallRow, NodeStates, SubRow
  <2> QED
    BY <2>6, <2>7, <2>8 DEF IInv
<1>4. CASE PollCancelled(c)
  <2> DEFINE row == [call[c] EXCEPT !.st = "failed"]
             e == [st |-> "cancelled", result |-> None]
  <2>1. /\ journal' = [journal EXCEPT ![call[c].key] = e]
        /\ nodes' = [nodes EXCEPT ![call[c].key] =
                       IF plan = "cancelled" THEN "cancelled" ELSE "failed"]
        /\ Throws(c)
        /\ UNCHANGED <<script, late, subs, done, count, index, faults, crashes>>
    BY <1>4 DEF PollCancelled, Journalled, NodeIs
  <2>2. /\ call' = [call EXCEPT ![c] = row] /\ row \in CallRow
        /\ plan' \in {"running", "done", "failed", "cancelled"}
        /\ job' \in {"pending", "ended", "gone"}
    BY <1>0, <2>1, Thrown
  <2>3. row.st = "failed" /\ row.key = call[c].key
    BY <1>0, RowTyped DEF CallRow
  <2>4. e \in Entry /\ Belongs(e, c)
    BY DEF Entry, Belongs
  <2> HIDE DEF row, e
  <2>5. StableKeys(script') /\ InOrder' /\ KeyRight' /\ Indexed' /\ OwnResult'
    BY <1>0, <2>1, <2>2, <2>3, RowMoves
  <2>6. journal' \in [Keys -> Entry] /\ JournalOwn' /\ JournalFresh'
    BY <1>0, <2>1, <2>2, <2>3, <2>4, PollJournals
  <2>7. TypeOK'
    <3>1. nodes' \in [Keys -> NodeStates]
      BY <1>0, <2>1 DEF NodeStates
    <3>2. call' \in [Calls -> CallRow]
      BY <1>0, <2>2
    <3> QED
      BY <1>0, <2>1, <2>2, <2>6, <3>1, <3>2 DEF TypeOK, CallRow, NodeStates
  <2> QED
    BY <2>5, <2>6, <2>7 DEF IInv
<1>5. CASE PollLost(c) \/ PollLate(c)
  <2> DEFINE row == [call[c] EXCEPT !.st = "failed"]
  <2>1. /\ Throws(c)
        /\ UNCHANGED <<script, late, subs, journal, done, count, index, crashes>>
        /\ nodes' = [nodes EXCEPT ![call[c].key] = "failed"] \/ UNCHANGED nodes
        /\ Fault \/ UNCHANGED faults
    BY <1>5 DEF PollLost, PollLate, NodeIs
  <2>2. /\ call' = [call EXCEPT ![c] = row] /\ row \in CallRow
        /\ plan' \in {"running", "done", "failed", "cancelled"}
        /\ job' \in {"pending", "ended", "gone"}
    BY <1>0, <2>1, Thrown
  <2>3. row.st = "failed" /\ row.key = call[c].key
    BY <1>0, RowTyped DEF CallRow
  <2> HIDE DEF row
  <2>4. StableKeys(script') /\ InOrder' /\ KeyRight' /\ Indexed' /\ OwnResult'
    BY <1>0, <2>1, <2>2, <2>3, RowMoves
  <2>5. JournalOwn' /\ JournalFresh'
    BY <1>0, <2>1, <2>2, <2>3, FailsSilently
  <2>6. TypeOK'
    <3>1. nodes' \in [Keys -> NodeStates]
      BY <1>0, <2>1 DEF NodeStates
    <3>2. call' \in [Calls -> CallRow]
      BY <1>0, <2>2
    <3>3. faults' \in 0..MaxFaults
      <4>1. faults \in 0..MaxFaults /\ MaxFaults \in Nat
        BY <1>0, BoundsAssumption DEF TypeOK
      <4> QED
        BY <2>1, <4>1 DEF Fault
    <3> QED
      BY <1>0, <2>1, <2>2, <3>1, <3>2, <3>3 DEF TypeOK, CallRow, NodeStates
  <2> QED
    BY <2>4, <2>5, <2>6 DEF IInv
<1> QED
  BY <1>2, <1>3, <1>4, <1>5 DEF Poll

\* A call that is made: it takes its slot's key, and from the journal what is its own.
LEMMA IssueKeeps ==
  ASSUME IInv, NEW c \in Calls, Issue(c)
  PROVE  IInv'
<1> DEFINE k == Slot(script, c)
<1>0. /\ TypeOK /\ StableKeys(script) /\ InOrder /\ KeyRight /\ Indexed
      /\ JournalOwn /\ JournalFresh /\ OwnResult
      /\ call \in [Calls -> CallRow] /\ script \in Scripts /\ index \in [Phases -> Nat]
  BY Typed DEF IInv
<1>1. /\ Reached(c) /\ call[c].st = "idle"
      /\ count' = count + 1
      /\ index' = [index EXCEPT ![script.phase[c]] = @ + 1]
      /\ UNCHANGED <<script, plan, job, late, journal, done, faults, crashes>>
  BY DEF Issue, Reached
<1>2. KeyOf(c) = k /\ k \in Keys /\ k # None
  BY <1>0, <1>1, KeyOfMade, SlotTyped
<1>3. script.phase[c] \in Phases
  BY <1>0, ScriptTyped
<1> HIDE DEF k
<1>4. /\ call[c].key = None /\ journal[k] = done[k] /\ Belongs(done[k], c)
  BY <1>0, <1>1 DEF KeyRight, JournalFresh, JournalOwn, k
\* Whether it was journalled or is made anew, what becomes of its row.
<1>5. \E row \in CallRow :
        /\ call' = [call EXCEPT ![c] = row]
        /\ row.key = k
        /\ \/ /\ row.st = "returned"
              /\ row.result = c \/ (row.result = None /\ done[k].st = "cancelled")
           \/ row.st = "polling" /\ done[k].st # "done"
  <2>1. CASE done[k].st # "none"
    <3> DEFINE row == [st |-> "returned", key |-> k, n |-> 0, tries |-> 0,
                       result |-> done[k].result]
    <3>1. call' = [call EXCEPT ![c] = row]
      BY <1>2, <2>1 DEF Issue
    <3>2. done[k] \in Entry
      BY <1>0, <1>2, Typed
    <3>3. row \in CallRow
      BY <1>2, <3>2, BoundsAssumption DEF CallRow, Entry
    <3>4. row.result = c \/ (row.result = None /\ done[k].st = "cancelled")
      BY <1>4, <2>1, <3>2 DEF Belongs, Entry
    <3> QED
      BY <3>1, <3>3, <3>4
  <2>2. CASE done[k].st = "none"
    <3>1. Create(c, k, 0)
      BY <1>2, <2>2 DEF Issue
    <3>2. NewRow(c, k, 0) \in CallRow /\ call' = [call EXCEPT ![c] = NewRow(c, k, 0)]
      BY <1>0, <1>2, <3>1, Created
    <3>3. NewRow(c, k, 0).key = k /\ NewRow(c, k, 0).st = "polling"
      BY <1>2 DEF NewRow, Issue
    <3> QED
      BY <2>2, <3>2, <3>3
  <2> QED
    BY <2>1, <2>2
<1>6. subs' \in [Calls -> SubRow] /\ nodes' \in [Keys -> NodeStates]
  <2>1. CASE done[k].st # "none"
    BY <1>0, <1>2, <2>1, Typed DEF Issue
  <2>2. CASE done[k].st = "none"
    BY <1>0, <1>2, <2>2, Created DEF Issue
  <2> QED
    BY <2>1, <2>2
<1>7. PICK row \in CallRow :
        /\ call' = [call EXCEPT ![c] = row]
        /\ row.key = k
        /\ \/ /\ row.st = "returned"
              /\ row.result = c \/ (row.result = None /\ done[k].st = "cancelled")
           \/ row.st = "polling" /\ done[k].st # "done"
  BY <1>5
<1>8. InOrder'
  BY <1>0, <1>1, <1>7, OrderKept
<1>9. KeyRight'
  <2> SUFFICES ASSUME NEW x \in Calls
               PROVE  /\ call'[x].key \in {None, Slot(script, x)}
                      /\ call'[x].st \in {"polling", "returned"} =>
                           call'[x].key = Slot(script, x)
                      /\ call'[x].st = "idle" => call'[x].key = None
    BY <1>1 DEF KeyRight
  <2>1. CASE x = c
    BY <1>0, <1>7, <2>1 DEF k
  <2>2. CASE x # c
    BY <1>0, <1>7, <2>2 DEF KeyRight
  <2> QED
    BY <2>1, <2>2
<1>10. Indexed'
  <2> SUFFICES ASSUME NEW ph \in Phases
               PROVE  index'[ph] = Cardinality(Numbered(ph)')
    BY DEF Indexed
  <2>1. IsFiniteSet(Numbered(ph))
    BY CallsAssumption, FS_Subset DEF Numbered
  <2>2. CASE ph = script.phase[c]
    <3>1. Numbered(ph)' = Numbered(ph) \cup {c} /\ c \notin Numbered(ph)
      BY <1>0, <1>1, <1>2, <1>4, <1>7, <2>2 DEF Numbered
    <3>2. index'[ph] = index[ph] + 1
      BY <1>0, <1>1, <2>2
    <3>3. Cardinality(Numbered(ph) \cup {c}) = Cardinality(Numbered(ph)) + 1
      BY <2>1, <3>1, FS_AddElement
    <3> QED
      BY <1>0, <3>1, <3>2, <3>3 DEF Indexed
  <2>3. CASE ph # script.phase[c]
    <3>1. Numbered(ph)' = Numbered(ph)
      BY <1>0, <1>1, <1>7, <2>3 DEF Numbered
    <3>2. index'[ph] = index[ph]
      BY <1>0, <1>1, <2>3
    <3> QED
      BY <1>0, <3>1, <3>2 DEF Indexed
  <2> QED
    BY <2>2, <2>3
<1>11. JournalOwn' /\ JournalFresh'
  <2>1. JournalOwn'
    BY <1>0, <1>1 DEF JournalOwn, Belongs
  <2>2. ASSUME NEW x \in Calls
        PROVE  /\ call'[x].st = "idle" => journal[Slot(script, x)] = done[Slot(script, x)]
               /\ call'[x].st = "polling" => journal[Slot(script, x)].st # "done"
    <3>1. CASE x = c
      BY <1>0, <1>4, <1>7, <3>1 DEF k
    <3>2. CASE x # c
      BY <1>0, <1>7, <3>2 DEF JournalFresh
    <3> QED
      BY <3>1, <3>2
  <2> QED
    BY <1>1, <2>1, <2>2 DEF JournalFresh
<1>12. OwnResult'
  <2> SUFFICES ASSUME NEW x \in Calls, call'[x].st = "returned"
               PROVE  \/ call'[x].result = x
                      \/ call'[x].result = None /\ done[call'[x].key].st = "cancelled"
    BY <1>1 DEF OwnResult
  <2>1. CASE x = c
    BY <1>0, <1>7, <2>1
  <2>2. CASE x # c
    BY <1>0, <1>7, <2>2 DEF OwnResult
  <2> QED
    BY <2>1, <2>2
<1>13. TypeOK'
  <2>1. call' \in [Calls -> CallRow]
    BY <1>0, <1>7
  <2>2. count' \in Int /\ index' \in [Phases -> Nat]
    <3>1. count \in Int /\ count' = count + 1
      BY <1>0, <1>1 DEF TypeOK
    <3>2. count' \in Int
      BY <3>1
    <3>3. index[script.phase[c]] + 1 \in Nat
      BY <1>0, <1>3
    <3>4. index' \in [Phases -> Nat]
      BY <1>0, <1>1, <3>3
    <3> QED
      BY <3>2, <3>4
  <2> QED
    BY <1>0, <1>1, <1>6, <2>1, <2>2 DEF TypeOK, CallRow, NodeStates, SubRow
<1> QED
  BY <1>0, <1>1, <1>8, <1>9, <1>10, <1>11, <1>12, <1>13 DEF IInv

\* A crash: the journal is what the next life begins with, and the calls begin anew.
LEMMA CrashKeeps ==
  ASSUME IInv, CrashRestart
  PROVE  IInv'
<1>0. /\ TypeOK /\ StableKeys(script) /\ JournalOwn
  BY DEF IInv
<1>1. /\ done' = journal /\ index' = [ph \in Phases |-> 0] /\ call' = [c \in Calls |-> Idle]
      /\ UNCHANGED <<script, plan, subs, journal, nodes, faults>>
      /\ count' = 0 /\ late' = FALSE /\ job' \in {"pending", "gone"}
      /\ crashes < MaxCrashes /\ crashes' = crashes + 1
  BY DEF CrashRestart
<1>2. \A c \in Calls : call'[c].st = "idle" /\ call'[c].key = None
  BY <1>1 DEF Idle
<1>3. InOrder' /\ KeyRight' /\ OwnResult'
  BY <1>2 DEF InOrder, KeyRight, OwnResult
<1>4. Indexed'
  <2> SUFFICES ASSUME NEW ph \in Phases
               PROVE  index'[ph] = Cardinality(Numbered(ph)')
    BY DEF Indexed
  <2>1. Numbered(ph)' = {}
    BY <1>2 DEF Numbered
  <2> QED
    BY <1>1, <2>1, FS_EmptySet
<1>5. JournalOwn'
  BY <1>0, <1>1 DEF JournalOwn, Belongs
<1>6. JournalFresh'
  BY <1>1, <1>2 DEF JournalFresh
<1>7. TypeOK'
  <2>1. Idle \in CallRow
    BY BoundsAssumption DEF Idle, CallRow
  <2>2. call' \in [Calls -> CallRow] /\ index' \in [Phases -> Nat]
    BY <1>1, <2>1
  <2>3. crashes' \in 0..MaxCrashes
    <3>1. crashes \in 0..MaxCrashes /\ MaxCrashes \in Nat
      BY <1>0, BoundsAssumption DEF TypeOK
    <3> QED
      BY <1>1, <3>1
  <2>4. /\ count' \in Int
        /\ late' \in BOOLEAN
        /\ job' \in {"pending", "ended", "gone"}
    <3>1. count' = 0
      BY <1>1
    <3>2. count' \in Int
      BY <3>1
    <3>3. late' \in BOOLEAN /\ job' \in {"pending", "ended", "gone"}
      BY <1>1
    <3> QED
      BY <3>2, <3>3
  <2>5. done' \in [Keys -> Entry]
    BY <1>0, <1>1 DEF TypeOK
  <2>6. UNCHANGED <<script, plan, subs, journal, nodes, faults>>
    BY <1>1
  <2> QED
    BY <1>0, <2>2, <2>3, <2>4, <2>5, <2>6 DEF TypeOK, CallRow
<1> QED
  BY <1>0, <1>1, <1>3, <1>4, <1>5, <1>6, <1>7 DEF IInv

\* What happens around the runner touches neither its calls nor its journal.
LEMMA ElsewhereKeeps ==
  ASSUME IInv, UNCHANGED <<script, journal, done, index, call>>, TypeOK'
  PROVE  IInv'
<1>1. (InOrder /\ KeyRight /\ OwnResult /\ JournalOwn /\ JournalFresh)'
  BY DEF IInv, InOrder, Settled, KeyRight, OwnResult, JournalOwn, JournalFresh, Belongs
<1>2. Indexed'
  BY DEF IInv, Indexed, Numbered
<1> QED
  BY <1>1, <1>2 DEF IInv

Around ==
  \/ Succeed \/ WallTime \/ CancelPlan
  \/ \E c \in Calls, n \in 1..MaxSubs : SubEnds(c, n) \/ GateOpens(c, n) \/ SubMishap(c, n)

\* Sub-issues are made by the runner only: around it they change, but none appears.
LEMMA AroundTyped ==
  ASSUME TypeOK, Around
  PROVE  /\ TypeOK' /\ UNCHANGED <<script, journal, done, index, call>>
         /\ \A c \in Calls, n \in 1..MaxSubs : subs[c][n] = "none" <=> subs'[c][n] = "none"
<1>0. subs \in [Calls -> SubRow]
  BY Typed
<1>1. UNCHANGED <<script, journal, nodes, done, count, index, call, crashes>>
  BY DEF Around, Succeed, WallTime, CancelPlan, SubEnds, GateOpens, SubMishap
<1>2. /\ plan' \in {"running", "done", "failed", "cancelled"}
      /\ job' \in {"pending", "ended", "gone"} /\ late' \in BOOLEAN
  <2>1. /\ plan \in {"running", "done", "failed", "cancelled"}
        /\ job \in {"pending", "ended", "gone"} /\ late \in BOOLEAN
    BY Typed
  <2>2. /\ plan' \in {plan, "done", "failed", "cancelled"}
        /\ job' \in {job, "ended"}
    BY DEF Around, Succeed, WallTime, CancelPlan, SubEnds, GateOpens, SubMishap
  <2>3. late' \in {late, TRUE}
    BY DEF Around, Succeed, WallTime, CancelPlan, SubEnds, GateOpens, SubMishap
  <2> QED
    BY <2>1, <2>2, <2>3
<1>3. faults' \in 0..MaxFaults
  <2>1. faults \in 0..MaxFaults /\ MaxFaults \in Nat
    BY BoundsAssumption DEF TypeOK
  <2>2. Fault \/ UNCHANGED faults
    BY DEF Around, Succeed, WallTime, CancelPlan, SubEnds, GateOpens, SubMishap
  <2> QED
    BY <2>1, <2>2 DEF Fault
<1>4. /\ subs' \in [Calls -> SubRow]
      /\ \A c \in Calls, n \in 1..MaxSubs : subs[c][n] = "none" <=> subs'[c][n] = "none"
  <2>1. CASE UNCHANGED subs
    BY <1>0, <2>1
  <2>2. ASSUME NEW c \in Calls, NEW n \in 1..MaxSubs, NEW st \in SubStates \ {"none"},
               subs[c][n] # "none", subs' = [subs EXCEPT ![c][n] = st]
        PROVE  /\ subs' \in [Calls -> SubRow]
               /\ \A b \in Calls, m \in 1..MaxSubs :
                    subs[b][m] = "none" <=> subs'[b][m] = "none"
    BY <1>0, <2>2 DEF SubRow
  <2>3. CASE \E c \in Calls, n \in 1..MaxSubs :
               SubEnds(c, n) \/ GateOpens(c, n) \/ SubMishap(c, n)
    <3>1. PICK c \in Calls, n \in 1..MaxSubs :
            SubEnds(c, n) \/ GateOpens(c, n) \/ SubMishap(c, n)
      BY <2>3
    <3>2. \E st \in SubStates \ {"none"} :
            subs[c][n] # "none" /\ subs' = [subs EXCEPT ![c][n] = st]
      BY <3>1 DEF SubEnds, GateOpens, SubMishap, SubStates
    <3> QED
      BY <2>2, <3>2
  <2>4. CASE CancelPlan
    <3>1. subs' = [c \in Calls |-> [n \in 1..MaxSubs |->
                     IF subs[c][n] \in {"plan_review", "open"} THEN "cancelled" ELSE subs[c][n]]]
      BY <2>4 DEF CancelPlan
    <3> QED
      BY <1>0, <3>1 DEF SubRow, SubStates
  <2> QED
    BY <2>1, <2>3, <2>4 DEF Around, Succeed, WallTime
<1> QED
  BY <1>1, <1>2, <1>3, <1>4 DEF TypeOK, SubRow

LEMMA Initially ==
  ASSUME \A s \in Scripts : StableKeys(s), Init
  PROVE  IInv
<1>1. /\ script \in Scripts /\ StableKeys(script)
      /\ plan = "running" /\ job = "pending" /\ late = FALSE
      /\ subs = [c \in Calls |-> [n \in 1..MaxSubs |-> "none"]]
      /\ journal = [k \in Keys |-> NoEntry] /\ done = journal
      /\ nodes = [k \in Keys |-> "none"]
      /\ count = 0 /\ index = [ph \in Phases |-> 0] /\ call = [c \in Calls |-> Idle]
      /\ faults = 0 /\ crashes = 0
  BY DEF Init
<1>2. \A c \in Calls : call[c].st = "idle" /\ call[c].key = None
  BY <1>1 DEF Idle
<1>3. InOrder /\ KeyRight /\ OwnResult
  BY <1>2 DEF InOrder, KeyRight, OwnResult
<1>4. Indexed
  <2> SUFFICES ASSUME NEW ph \in Phases
               PROVE  index[ph] = Cardinality(Numbered(ph))
    BY DEF Indexed
  <2>1. Numbered(ph) = {}
    BY <1>2 DEF Numbered
  <2> QED
    BY <1>1, <2>1, FS_EmptySet
<1>5. JournalOwn /\ JournalFresh
  <2>1. \A c \in Calls : Slot(script, c) \in Keys
    BY <1>1, SlotTyped
  <2>2. \A c \in Calls : journal[Slot(script, c)] = NoEntry /\ done[Slot(script, c)] = NoEntry
    BY <1>1, <2>1
  <2> QED
    BY <1>2, <2>2 DEF JournalOwn, JournalFresh, Belongs, NoEntry
<1>6. TypeOK
  <2>1. Idle \in CallRow /\ NoEntry \in Entry
    BY BoundsAssumption DEF Idle, CallRow, NoEntry, Entry
  <2>2. call \in [Calls -> CallRow] /\ journal \in [Keys -> Entry] /\ done \in [Keys -> Entry]
    BY <1>1, <2>1
  <2>3. subs \in [Calls -> SubRow] /\ nodes \in [Keys -> NodeStates] /\ index \in [Phases -> Nat]
    BY <1>1 DEF SubRow, SubStates, NodeStates
  <2>4. faults \in 0..MaxFaults /\ crashes \in 0..MaxCrashes
    BY <1>1, BoundsAssumption
  <2>5. count \in Int /\ late \in BOOLEAN
    <3>1. count = 0
      BY <1>1
    <3>2. count \in Int
      BY <3>1
    <3>3. late \in BOOLEAN
      BY <1>1
    <3> QED
      BY <3>2, <3>3
  <2>6. script \in Scripts /\ plan = "running" /\ job = "pending"
    BY <1>1
  <2> QED
    BY <2>2, <2>3, <2>4, <2>5, <2>6, Typed
<1> QED
  BY <1>1, <1>3, <1>4, <1>5, <1>6 DEF IInv

LEMMA Inductive == IInv /\ [Next]_vars => IInv'
<1> SUFFICES ASSUME IInv, [Next]_vars
             PROVE  IInv'
  OBVIOUS
<1>0. TypeOK
  BY DEF IInv
<1>1. CASE \E c \in Calls : Refuse(c) \/ Issue(c) \/ Poll(c)
  BY <1>1, RefuseKeeps, IssueKeeps, PollKeeps
<1>2. CASE CrashRestart
  BY <1>2, CrashKeeps
<1>3. CASE Around
  BY <1>0, <1>3, AroundTyped, ElsewhereKeeps
<1>4. CASE UNCHANGED vars
  <2>1. UNCHANGED <<script, plan, job, late, subs, journal, nodes, done, count, index, call,
                    faults, crashes>>
    BY <1>4 DEF vars
  <2>2. TypeOK'
    BY <1>0, <2>1 DEF TypeOK
  <2> QED
    BY <2>1, <2>2, ElsewhereKeeps
<1> QED
  BY <1>1, <1>2, <1>3, <1>4 DEF Next, Around

LEMMA Invariance ==
  ASSUME \A s \in Scripts : StableKeys(s)
  PROVE  Spec => []IInv
<1>1. Init => IInv
  BY Initially
<1> QED
  BY <1>1, Inductive, PTL DEF Spec
------------------------------------------------------------------------------
(* The theorems. *)

\* Whatever runs and crashes, the counts, keys and rows stay what the schema and the
\* runner's records allow; a call polls under a key and a sub-issue that exist
\* (runner.ts:79-147).
THEOREM RunnerTypeCorrect ==
  ASSUME \A s \in Scripts : StableKeys(s)
  PROVE  Spec => []TypeOK
<1>1. IInv => TypeOK
  BY DEF IInv
<1> QED
  BY <1>1, Invariance, PTL

\* Where the keys of the scripts are stable, a call that returns, in whatever life
\* and after whatever retries, returns the result of its own sub-issue, or nothing
\* if the journal had a cancelled one for it (runner.ts:92-109).
THEOREM OwnResultTheorem ==
  ASSUME \A s \in Scripts : StableKeys(s)
  PROVE  Spec => []OwnResult
<1>1. IInv => OwnResult
  BY DEF IInv
<1> QED
  BY <1>1, Invariance, PTL

\* The number of sub-issues of a call grows where the runner makes one only.
LEMMA MadeBy ==
  ASSUME TypeOK, NEW c \in Calls, NEW k \in Keys, NEW tries \in Nat, Create(c, k, tries),
         NEW x \in Calls, Made(x)' > Made(x)
  PROVE  x = c /\ call'[x].key = k
<1>1. /\ call' = [call EXCEPT ![c] = NewRow(c, k, tries)]
      /\ \A b \in Calls \ {c} : subs'[b] = subs[b]
  BY Created
<1>2. x # c => Made(x)' = Made(x)
  BY <1>1 DEF Made
<1>3. x = c
  BY <1>2, MadeTyped
<1>4. call'[c].key = k
  BY <1>1, Typed DEF NewRow
<1> QED
  BY <1>3, <1>4

LEMMA RedoStep ==
  ASSUME IInv, [Next]_vars, NEW x \in Calls, Made(x)' > Made(x)
  PROVE  journal[call'[x].key].st # "done"
<1>0. /\ TypeOK /\ StableKeys(script) /\ KeyRight /\ JournalFresh /\ script \in Scripts
  BY Typed DEF IInv
<1>1. subs' # subs
  BY MadeTyped DEF Made
<1>2. ASSUME NEW c \in Calls, Issue(c)
      PROVE  journal[call'[x].key].st # "done"
  <2>1. call[c].st = "idle" /\ KeyOf(c) = Slot(script, c)
    BY <1>2, KeyOfMade DEF Issue, Reached
  <2>2. Slot(script, c) \in Keys /\ journal[Slot(script, c)] = done[Slot(script, c)]
    BY <1>0, <2>1, SlotTyped DEF JournalFresh
  <2>3. done[Slot(script, c)].st = "none" /\ Create(c, Slot(script, c), 0)
    BY <1>1, <1>2, <2>1 DEF Issue
  <2>4. x = c /\ call'[x].key = Slot(script, c)
    BY <1>0, <2>2, <2>3, MadeBy
  <2> QED
    BY <2>2, <2>3, <2>4
<1>3. ASSUME NEW c \in Calls, PollRetry(c)
      PROVE  journal[call'[x].key].st # "done"
  <2>1. call[c].st = "polling" /\ Create(c, call[c].key, call[c].tries + 1)
    BY <1>3 DEF PollRetry, Polls
  <2>2. call[c].key = Slot(script, c) /\ journal[Slot(script, c)].st # "done"
    BY <1>0, <2>1 DEF KeyRight, JournalFresh
  <2>3. call[c].key \in Keys /\ call[c].tries + 1 \in Nat
    BY <1>0, <2>2, SlotTyped, RowTyped
  <2>4. x = c /\ call'[x].key = call[c].key
    BY <1>0, <2>1, <2>3, MadeBy
  <2> QED
    BY <2>2, <2>4
<1>4. CASE Around
  <2>1. \A n \in 1..MaxSubs : subs[x][n] = "none" <=> subs'[x][n] = "none"
    BY <1>0, <1>4, AroundTyped
  <2>2. Made(x)' = Made(x)
    BY <2>1 DEF Made
  <2> QED
    BY <2>2, MadeTyped
<1>5. ASSUME NEW c \in Calls,
             Refuse(c) \/ PollDone(c) \/ PollCancelled(c) \/ PollLost(c) \/ PollLate(c)
      PROVE  FALSE
  BY <1>1, <1>5 DEF Refuse, PollDone, PollCancelled, PollLost, PollLate
<1>6. ~CrashRestart /\ ~UNCHANGED vars
  BY <1>1 DEF CrashRestart, vars
<1> QED
  BY <1>2, <1>3, <1>4, <1>5, <1>6 DEF Next, Poll, Around

\* Where the keys of the scripts are stable, no life of the process makes a
\* sub-issue for a call whose journalled end is done (journal.ts:4, runner.ts:99-109).
THEOREM NoRedoTheorem ==
  ASSUME \A s \in Scripts : StableKeys(s)
  PROVE  Spec => NoRedo
<1>1. IInv /\ [Next]_vars =>
        [\A c \in Calls : Made(c)' > Made(c) => journal[call'[c].key].st # "done"]_vars
  BY RedoStep
<1> QED
  BY <1>1, Invariance, PTL DEF Spec, NoRedo
==============================================================================
