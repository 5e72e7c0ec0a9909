------------------------------ MODULE PlanGraph -------------------------------
(* The layers in which the review panel draws the steps of a plan              *)
(* (http/plan-graph.ts).  A plan is a sequence of steps [id, after]: `after`   *)
(* is the list of the ids a step waits for.                                    *)
EXTENDS Integers, Sequences, SequencesExt, FiniteSetsExt

Ids(steps) == {steps[k].id : k \in DOMAIN steps}

HasDuplicate(steps) == Cardinality(Ids(steps)) < Len(steps)

HasUnknown(steps) ==
  \E k \in DOMAIN steps : ~ ToSet(steps[k].after) \subseteq Ids(steps)

(* As Adjacency, each step once however often it names id.                     *)
AdjacencyOnce(steps, id) ==
  LET waiting == SelectSeq([k \in DOMAIN steps |-> k],
                           LAMBDA k : id \in ToSet(steps[k].after))
  IN  [n \in DOMAIN waiting |-> steps[waiting[n]].id]

(* adjacency.get(id): the steps that wait for id, as often as they name it.    *)
Adjacency(steps, id) ==
  FlattenSeq([k \in DOMAIN steps |->
    [x \in DOMAIN SelectSeq(steps[k].after, LAMBDA d : d = id) |->
       steps[k].id]])

(* One turn of the inner loop: `next` has lost one of what it waits for.       *)
Relax(s, layer, next) ==
  LET nextLayer == Max({layer + 1, s.layers[next]})
      nextDegree == s.inDegree[next] - 1
  IN  [s EXCEPT !.inDegree[next] = nextDegree,
                !.layers[next] = IF nextDegree = 0 THEN @ ELSE nextLayer,
                !.queue = IF nextDegree # 0 THEN @
                          ELSE Append(@, [id |-> next, layer |-> nextLayer])]

(* Takes the steps that wait for nothing from the queue until it is empty.     *)
RECURSIVE Kahn(_, _)
Kahn(steps, s) ==
  IF s.queue = <<>> THEN s
  ELSE LET id == Head(s.queue).id
           layer == Head(s.queue).layer
           taken == [s EXCEPT !.queue = Tail(@),
                              !.layers[id] = Max({layer, @}),
                              !.processed = @ + 1]
       IN  Kahn(steps, FoldLeft(LAMBDA t, next : Relax(t, layer, next),
                                taken, Adjacency(steps, id)))

Refused == [ok |-> FALSE, layers |-> <<>>]

ComputePlanGraph(steps) ==
  IF HasDuplicate(steps) \/ HasUnknown(steps) THEN Refused
  ELSE LET ids == [k \in DOMAIN steps |-> steps[k].id]
           degree == [i \in Ids(steps) |->
                        Len(steps[CHOOSE k \in DOMAIN steps : ids[k] = i].after)]
           ready == SelectSeq(ids, LAMBDA i : degree[i] = 0)
           end == Kahn(steps,
                       [queue |-> [k \in DOMAIN ready |->
                                     [id |-> ready[k], layer |-> 0]],
                        inDegree |-> degree,
                        layers |-> [i \in Ids(steps) |-> 0],
                        processed |-> 0])
       IN  IF end.processed # Len(steps) THEN Refused
           ELSE [ok |-> TRUE, layers |-> end.layers]
=============================================================================
