------------------------------- MODULE Metrics --------------------------------
(* What GET /metrics says: counters and a histogram that workers feed while    *)
(* the process lives (metrics.ts, orchestrator/worker.ts), and gauges that a   *)
(* scrape sets and that stay in the registry for the next one                  *)
(* (http/routes/metrics.ts).  The labels of a series are a record; provider    *)
(* and model, which are the process's, and the gauges of the concurrency limit *)
(* are left out.                                                               *)
EXTENDS Integers, Sequences, SequencesExt, FiniteSetsExt

CONSTANT Bounds         \* the upper bounds of the histogram's buckets

ReportedStates == {"todo", "in_progress", "in_review", "done", "cancelled"}
PlanRunStates == {"pending", "dry_running", "awaiting_approval", "running", "done",
                  "failed", "cancelled"}

NoLabels == [label \in {} |-> ""]
Registry == [counters |-> <<>>, gauges |-> <<>>,
             sample |-> [sum |-> 0, count |-> 0, buckets |-> <<>>]]

Value(series, key) == IF key \in DOMAIN series THEN series[key] ELSE 0

(* labelKey: a series is told by its name and all its labels, in any order.    *)
LabelKey(name, labels) == [name |-> name, labels |-> labels]

IncCounter(reg, name, labels, delta) ==
  LET key == LabelKey(name, labels)
  IN  [reg EXCEPT !.counters = (key :> Value(@, key) + delta) @@ @]

SetGauge(reg, name, labels, value) ==
  [reg EXCEPT !.gauges = (LabelKey(name, labels) :> value) @@ @]

(* A value counts in every bucket whose bound it does not exceed; a bucket is  *)
(* there from its first value on.                                              *)
ObserveHistogram(reg, value) ==
  LET in == {b \in Bounds : value <= b}
      Fill(buckets) == [b \in DOMAIN buckets \cup in |->
                          Value(buckets, b) + IF b \in in THEN 1 ELSE 0]
  IN  [reg EXCEPT !.sample = [sum |-> @.sum + value, count |-> @.count + 1,
                              buckets |-> Fill(@.buckets)]]

(* The end of an attempt [kind, semantics, spawned, input, output, duration].  *)
CountAttempt(reg, a) ==
  LET Tokens(r, way) == IncCounter(r, "tokens_total",
                                   [agent_kind |-> a.kind, kind |-> way], a[way])
      counted == IncCounter(reg, "agent_attempts_total",
                            [agent_kind |-> a.kind, semantics |-> a.semantics], 1)
  IN  IF a.spawned
      THEN ObserveHistogram(Tokens(Tokens(counted, "input"), "output"), a.duration)
      ELSE reg

(* As GaugeStates, of the states that some row is in.                          *)
GaugeOccurring(reg, name, states, rows) ==
  FoldSet(LAMBDA s, r : SetGauge(r, name, [state |-> s],
                                 Cardinality({k \in DOMAIN rows : rows[k] = s})),
          reg, states \cap Range(rows))

(* One gauge for each of the states, of the number of rows in it.              *)
GaugeStates(reg, name, states, rows) ==
  FoldSet(LAMBDA s, r : SetGauge(r, name, [state |-> s],
                                 Cardinality({k \in DOMAIN rows : rows[k] = s})),
          reg, states)

(* The handler of a scrape, on the states of the issues and the plan runs.     *)
Scrape(reg, db) ==
  LET total == SetGauge(SetGauge(reg, "issues_total", NoLabels, Len(db.issues)),
                        "plan_runs_total", NoLabels, Len(db.runs))
  IN  GaugeStates(GaugeStates(total, "issues_total", ReportedStates, db.issues),
                  "plan_runs_total", PlanRunStates, db.runs)

(* The buckets are written by their bounds, and then +Inf.                     *)
RenderMetrics(reg) ==
  LET bounds == SetToSortSeq(DOMAIN reg.sample.buckets, <)
  IN  [counters |-> reg.counters, gauges |-> reg.gauges, sum |-> reg.sample.sum,
       buckets |-> [n \in DOMAIN bounds |-> reg.sample.buckets[bounds[n]]],
       bounds |-> bounds, inf |-> reg.sample.count]

(* What may happen between the scrapes: an attempt ends, an issue or a plan    *)
(* run changes its state, somebody scrapes, or the process starts anew.        *)
Started == [reg |-> Registry, db |-> [issues |-> <<"todo", "todo">>, runs |-> <<"pending">>]]

Happens(p, e) ==
  CASE e.event = "ended" -> [p EXCEPT !.reg = CountAttempt(@, e.attempt)]
    [] e.event = "issue" -> [p EXCEPT !.db.issues[e.of] = e.state]
    [] e.event = "run" -> [p EXCEPT !.db.runs[1] = e.state]
    [] e.event = "scrape" -> [p EXCEPT !.reg = Scrape(@, p.db)]
    [] e.event = "restart" -> [p EXCEPT !.reg = Registry]
===============================================================================
