-------------------------------- MODULE Prompt --------------------------------
(* What an attempt is told: the prompt that the renderer makes of the issue's  *)
(* events, comments and flags (prompt/renderer.ts) and what the worker adds to *)
(* it (orchestrator/worker.ts).  A prompt is a sequence of parts; the wording  *)
(* of a part is left out, its size is a number.                                *)
EXTENDS Integers, Sequences, SequencesExt, FiniteSetsExt

CONSTANTS MaxCount,       \* COMMENTS_MAX_COUNT, 50 in the source
          MaxBytes,       \* COMMENTS_MAX_BYTES, 16 KiB in the source
          MaxInvocations  \* MAX_INVOCATIONS_BYTES, 32 KiB in the source

ASSUME PromptAssumption == {MaxCount, MaxBytes, MaxInvocations} \subseteq Nat

(* The events of an issue are a sequence [kind, ts, text] in the order of      *)
(* their insertion, as are its comments [size].  text: whether the payload has *)
(* a note or feedback in it.  0: there is none.                                *)
LatestEventByKind(events, kind) ==
  LET of == {i \in DOMAIN events : events[i].kind = kind}
      newest == {i \in of : \A j \in of : events[j].ts <= events[i].ts}
  IN  IF of = {} THEN 0 ELSE Max(newest)

(* Of a note on the work and a note on the plan the later one is told, and the *)
(* former if they are of the same millisecond.                                 *)
RevisionEvent(events) ==
  LET general == LatestEventByKind(events, "revision_requested")
      plan == LatestEventByKind(events, "plan_revision_requested")
  IN  IF general = 0 \/ plan = 0 THEN Max({general, plan})
      ELSE IF events[plan].ts > events[general].ts THEN plan
      ELSE general

(* As ReviewerNote, of a note that an earlier attempt may have been told.      *)
ReviewerNoteAnyTime(events) ==
  LET note == RevisionEvent(events)
  IN  IF note # 0 /\ events[note].text
      THEN <<[part |-> "note", of |-> note]>> ELSE <<>>

(* A note is told only if no attempt has started since, and if it says         *)
(* something: otherwise none is, as the choice has been made already.          *)
ReviewerNote(events) ==
  LET note == RevisionEvent(events)
      started == LatestEventByKind(events, "started")
  IN  IF /\ note # 0
         /\ started = 0 \/ events[note].ts > events[started].ts
         /\ events[note].text
      THEN <<[part |-> "note", of |-> note]>>
      ELSE <<>>

SizeOf(items, from, to) ==
  FoldLeft(LAMBDA sum, item : sum + item.size, 0, SubSeq(items, from, to))

(* The most recent comments, from their oldest on until one is too much, so    *)
(* that the newest are left out; one is always in.                             *)
FormatComments(comments) ==
  LET n == Len(comments)
      first == Max({1, n - MaxCount + 1})
      last == Max({k \in first .. n :
                     \A j \in first + 1 .. k : SizeOf(comments, first, j) <= MaxBytes})
  IN  IF n = 0 THEN <<>>
      ELSE <<[part |-> "comments", ids |-> first .. last,
              omitted |-> first - 1 + (n - last)]>>

(* renderPrompt: the prefix and the template.                                  *)
RenderPrompt(issue) ==
  ReviewerNote(issue.events)
    \o FormatComments(issue.comments)
    \o (IF issue.require_plan /\ issue.state # "awaiting_plan"
        THEN <<[part |-> "plan_first"]>> ELSE <<>>)
    \o (IF issue.goal = "prefix" THEN <<[part |-> "goal"]>> ELSE <<>>)
    \o <<[part |-> "template"]>>

(* The plan runs of a caller that has been resumed, the newest first; the first *)
(* ones are dropped while all of them are too much.                            *)
Invocations(issue) ==
  LET runs == Reverse(issue.runs)
      n == Len(runs)
      from == CHOOSE k \in 1 .. n :
                /\ k = n \/ SizeOf(runs, k, n) <= MaxInvocations
                /\ \A j \in 1 .. k - 1 : SizeOf(runs, j, n) > MaxInvocations
  IN  IF LatestEventByKind(issue.events, "caller_resumed") = 0 \/ n = 0 THEN <<>>
      ELSE <<[part |-> "invocations", ids |-> 1 .. n - from + 1,
              elided |-> from - 1]>>

(* What the worker has the agent told, and whether it records that comments    *)
(* were.                                                                       *)
Told(issue) ==
  LET prompt == RenderPrompt(issue)
  IN  [prompt |-> prompt
                    \o Invocations(issue)
                    \o <<[part |-> "output_schema", given |-> issue.schema]>>
                    \o (IF issue.scratchpad THEN <<[part |-> "scratchpad"]>>
                        ELSE <<>>),
       injected |-> UNION {prompt[k].ids :
                             k \in {k \in DOMAIN prompt :
                                      prompt[k].part = "comments"}}]
===============================================================================
