------------------------------- MODULE LiveFeed -------------------------------
(***************************************************************************)
(* The page of an issue and what keeps it up to date: the stream of events *)
(* (http/routes/events.ts), the page's requests and its fallback poller,   *)
(* and the stream of the attempt's log (http/routes/runs.ts), as           *)
(* frontend/src/IssueDetail.tsx uses them.                                 *)
(*                                                                         *)
(* The event stream promises nothing: what is emitted while the page is    *)
(* away is not merged later.  The page takes events as hints, merges the   *)
(* patches of the run, and polls.  A log is read from its file by several  *)
(* timers at once, and again from its start after a reconnection.          *)
(*                                                                         *)
(* What a connected page is sent arrives at once; answers to requests may  *)
(* be late.  Several workers of the issue may be at work: one prepares,    *)
(* and those whose run was given up have agents that write on.             *)
(***************************************************************************)
EXTENDS Integers, FiniteSetsExt, Bags

CONSTANTS
  MaxAttempt,  \* bound on the attempts
  Polls,       \* names for the reads of the interval, which does not wait for its last
  Limits       \* each behaviour has the bounds of one of these: on the attempts; on the writes
               \* to their logs; on the faults, which are lost connections, failed requests and
               \* attempts that do not start; on the answers in flight; and the reads there are

\* The reads of a log: the interval's, and another's, the watcher's until the last read.
Readers == Polls \cup {"other"}

Bounds == [attempts : 0..MaxAttempt, writes : Nat, faults : Nat, replies : Nat \ {0},
           readers : SUBSET Readers]

ASSUME BoundsAssumption == MaxAttempt \in Nat /\ "other" \notin Polls /\ Limits \subseteq Bounds

Attempts == 1..MaxAttempt

\* The run of the issue: current_attempt, last_state ("none": no run;
\* "over": one of TERMINAL_STATES; "queued": any other state a worker leaves).
Store == [attempt : 0..MaxAttempt, st : {"none", "claimed", "queued", "over"}]

NoRun == [attempt |-> 0, st |-> "none"]

VARIABLES
  store,   \* the tracker
  starting, \* a worker prepares an attempt
  agents,  \* the attempts whose agents are at work
  file,    \* how much the log of each attempt has
  over,    \* (history) the run has been over since its latest attempt was started
  late,    \* (history) and the agent of this attempt has written after that
  live,    \* the page has its event stream
  view,    \* the run on the page
  replies, \* answers to the page's requests, on their way, a bag
  log,     \* the page's log stream at the server: its attempt and its offset
  reader,  \* the reads of readAndSend in flight
  ending,  \* whether the log stream has seen the run over, reads a last time, has done so
  wired,   \* wiredAttempt
  shown,   \* how much of the log of wired the page has had
  timers,  \* the attempts for which a reconnection is pending
  strayed, \* a timer has brought the log of another attempt than wired
  bound    \* the bounds of this behaviour, less the faults it has had

tracker == <<store, starting, agents, file, over, late>>
page == <<live, view, replies>>
logs == <<log, reader, ending, wired, shown, timers, strayed>>
vars == <<tracker, page, logs, bound>>

NoReads == [r \in Readers |-> [st |-> "idle", len |-> 0]]
NoLog == [up |-> FALSE, attempt |-> 0, offset |-> 0]

Init ==
  /\ store = NoRun
  /\ starting = FALSE /\ agents = {}
  /\ over = FALSE /\ late = FALSE
  /\ file = [a \in Attempts |-> 0]
  /\ live = TRUE /\ view = store /\ replies = EmptyBag
  /\ log = NoLog /\ reader = NoReads /\ ending = "no"
  /\ wired = 0 /\ shown = 0
  /\ timers = {} /\ strayed = FALSE
  /\ bound \in Limits

Fault == bound.faults > 0 /\ bound' = [bound EXCEPT !.faults = @ - 1]
------------------------------------------------------------------------------
(* The page's requests and its event stream. *)

\* A request of the page, answered with what is there now.
Requested(st) ==
  /\ BagCardinality(replies) < bound.replies
  /\ replies' = replies (+) SetToBag({st})

\* An event on the bus has a connected page request the issue and the run; if the
\* issue's request fails, nothing becomes of it.
Event(st) == UNCHANGED replies \/ (live /\ Requested(st))

\* A patch of the run is merged into the run of a connected page, if the page has one.
Patched(field, value) ==
  view' = IF live /\ view.st # "none" THEN [view EXCEPT ![field] = value] ELSE view

\* The fallback poller: refreshIssueAndRun, every ten seconds.
PollIfDown ==
  /\ ~live
  /\ Requested(store)
  /\ UNCHANGED <<tracker, live, view, logs, bound>>

Poll ==
  /\ Requested(store)
  /\ UNCHANGED <<tracker, live, view, logs, bound>>

\* An answer arrives, in any order, and replaces what the page had.
Arrives(r) ==
  /\ BagIn(r, replies)
  /\ replies' = replies (-) SetToBag({r})
  /\ UNCHANGED <<tracker, live, logs>>

Reply(r) ==
  /\ Arrives(r)
  /\ view' = r
  /\ UNCHANGED bound

\* The request for the run fails, and the page has none; or that for the issue does.
ReplyFails(r) ==
  /\ Arrives(r)
  /\ Fault
  /\ view' \in {view, NoRun}

\* The event stream breaks, or is there again: the events since are sent, as hints.
Disconnect ==
  /\ live /\ Fault
  /\ live' = FALSE
  /\ UNCHANGED <<tracker, view, replies, logs>>

Connect ==
  /\ ~live
  /\ live' = TRUE
  /\ UNCHANGED replies \/ Requested(store)
  /\ UNCHANGED <<tracker, view, logs, bound>>
------------------------------------------------------------------------------
(* The tracker. *)

\* claimIssue: whoever claimed it before may be at work still, if the run was released.
Claim ==
  /\ ~starting
  /\ store.st # "claimed"
  /\ store.attempt < bound.attempts
  /\ starting' = TRUE
  /\ store' = [store EXCEPT !.st = "claimed"]
  /\ Patched("st", "claimed")
  /\ UNCHANGED <<agents, file, over, late, live, replies, logs, bound>>

\* markCurrentAttempt, then the event "started".
Start ==
  /\ starting
  /\ starting' = FALSE
  /\ agents' = agents \cup {store.attempt + 1}
  /\ store' = [store EXCEPT !.attempt = @ + 1]
  /\ over' = (store.st = "over") /\ late' = FALSE
  /\ Patched("attempt", store.attempt + 1)
  /\ Event(store')
  /\ UNCHANGED <<file, live, logs, bound>>

\* An agent writes to the log of its attempt.
Write(a) ==
  /\ a \in agents
  /\ MapThenSumSet(LAMBDA b : file[b], Attempts) < bound.writes
  /\ file' = [file EXCEPT ![a] = @ + 1]
  /\ late' = (late \/ (over /\ a = store.attempt))
  /\ UNCHANGED <<store, starting, agents, over, page, logs, bound>>

\* releaseIssue, scheduleRetry: an event may follow, which has the page ask.
Leaves(st) ==
  /\ store' = [store EXCEPT !.st = st]
  /\ over' = (over \/ st = "over")
  /\ Patched("st", st)
  /\ Event(store')

\* A run is given up while its worker, if it has one, goes on: cancel, pause, resume,
\* retrigger, an approving comment, a hand-off to a plan run, a release for staleness.
Release ==
  /\ \/ store.st = "claimed" /\ \E st \in {"over", "queued"} : Leaves(st)
     \/ store.st = "queued" /\ Leaves("over")
  /\ UNCHANGED <<starting, agents, file, late, live, logs, bound>>

\* A worker ends, once its log is written or, a fault, before its agent starts.
End ==
  /\ \/ starting /\ Fault /\ starting' = FALSE /\ UNCHANGED agents
     \/ /\ \E a \in agents : agents' = agents \ {a}
        /\ UNCHANGED <<starting, bound>>
  /\ \E st \in {"over", "queued"} : Leaves(st)
  /\ UNCHANGED <<file, late, live, logs>>
------------------------------------------------------------------------------
(* The log stream. *)

\* reconnectLogs: a stream for the log of attempt a takes the place of the one before.
Open(a) ==
  /\ log' = [up |-> TRUE, attempt |-> a, offset |-> 0]
  /\ reader' = NoReads
  /\ ending' = "no"

Closed == log' = NoLog /\ reader' = NoReads /\ ending' = "no"

\* createEffect: the page's run has another attempt.
Wire ==
  /\ view.attempt \notin {0, wired}
  /\ wired' = view.attempt
  /\ Open(view.attempt)
  /\ shown' = 0
  /\ strayed' = FALSE
  /\ UNCHANGED <<tracker, page, timers, bound>>

\* The connection is lost: a timer, for the attempt that the stream was opened for.
LogError ==
  /\ log.up
  /\ Fault
  /\ Closed
  /\ timers' = timers \cup {log.attempt}
  /\ UNCHANGED <<tracker, page, wired, shown, strayed>>

\* A timer fires, though the page may be wired to another attempt by now.
Reconnect ==
  /\ \E a \in timers :
       /\ timers' = timers \ {a}
       /\ Open(a)
       /\ strayed' = (a # wired)
  /\ UNCHANGED <<tracker, page, wired, shown, bound>>

\* readAndSend reads the file: for the interval, for the watcher, and once more a second
\* after the run is seen to have ended: the last read.
Read(r) ==
  /\ r \in bound.readers
  /\ log.up
  /\ reader[r].st = "idle"
  /\ reader' = [reader EXCEPT ![r] = [st |-> "read", len |-> file[log.attempt]]]
  /\ ending' = IF r = "other" /\ ending = "final" THEN "last" ELSE ending
  /\ UNCHANGED <<tracker, page, log, wired, shown, timers, strayed, bound>>

\* The read is over; after its own, the interval looks whether the run has ended.
Over(r) ==
  /\ reader' = [reader EXCEPT ![r] = NoReads[r]]
  /\ ending' = CASE r = "other" /\ ending = "last" -> "read"
                 [] r \in Polls /\ ending = "no" /\ store.st = "over" -> "final"
                 [] OTHER -> ending

\* What is beyond the offset is sent; the offset follows when the write is over.
Send(r) ==
  /\ reader[r].st = "read"
  /\ IF reader[r].len <= log.offset
     THEN Over(r) /\ UNCHANGED shown
     ELSE /\ reader' = [reader EXCEPT ![r].st = "writing"]
          /\ shown' = IF strayed \/ reader[r].len <= shown THEN shown ELSE reader[r].len
          /\ UNCHANGED ending
  /\ UNCHANGED <<tracker, page, log, wired, timers, strayed, bound>>

\* An offset that goes by the size the file has by now.
WrittenBySize(r) ==
  /\ reader[r].st = "writing"
  /\ Over(r)
  /\ log' = [log EXCEPT !.offset = file[log.attempt]]
  /\ UNCHANGED <<tracker, page, wired, shown, timers, strayed, bound>>

\* Reads may end in any order: the offset can go back, and a part be sent again.
Written(r) ==
  /\ reader[r].st = "writing"
  /\ Over(r)
  /\ log' = [log EXCEPT !.offset = reader[r].len]
  /\ UNCHANGED <<tracker, page, wired, shown, timers, strayed, bound>>

\* The end is sent without another read.
FinishUnread ==
  /\ ending = "final"
  /\ Closed
  /\ UNCHANGED <<tracker, page, wired, shown, timers, strayed, bound>>

\* The end is sent after the last read, and the page closes the stream.
Finish ==
  /\ ending = "read"
  /\ Closed
  /\ UNCHANGED <<tracker, page, wired, shown, timers, strayed, bound>>
------------------------------------------------------------------------------
ReadStep(r) == Read(r) \/ Send(r) \/ Written(r)

Next ==
  \/ Claim \/ Start \/ Release \/ End
  \/ \E a \in Attempts : Write(a)
  \/ Poll \/ Disconnect \/ Connect
  \/ \E r \in Store : Reply(r) \/ ReplyFails(r)
  \/ Wire \/ LogError \/ Reconnect \/ Finish
  \/ \E r \in Readers : ReadStep(r)

Spec == Init /\ [][Next]_vars

\* The timers of the page and of the server fire, requests are answered and an open
\* connection delivers.  Nothing is assumed of the watcher, of the agent, or of an
\* event stream that is down.
Fairness ==
  /\ WF_vars(Poll) /\ WF_vars(\E r \in Store : Reply(r))
  /\ WF_vars(Wire) /\ WF_vars(Reconnect)
  /\ WF_vars(Finish)
  /\ \A r \in Polls : WF_vars(ReadStep(r))
  /\ WF_vars(ending \in {"final", "last"} /\ ReadStep("other"))

FairSpec == Spec /\ Fairness
------------------------------------------------------------------------------
\* Although the interval, the watcher and the last read share one offset across their
\* awaits, no part of a log is skipped: what is sent next begins at or before the end of
\* what the page has (runs.ts:79-92, IssueDetail.tsx:154-158).
NoLogGap == log.up /\ ~strayed => log.offset <= shown

\* Whatever patches and events are lost, and whatever order the answers arrive in, the
\* page comes to show the run as it is (IssueDetail.tsx:128-129).
Converges == <>[](view = store)

\* The page comes to show the whole log of the last attempt, the end of it included
\* (runs.ts:120-134), unless a reconnection has brought it the log of another attempt,
\* or the run was over while its agent wrote on: given up by a cancellation, a resumption,
\* a retrigger, an approving comment, a hand-off to a plan run, for staleness, or by the
\* end of the worker of an earlier attempt.
LogShown == <>[](store.attempt = 0 \/ strayed \/ late \/ shown = file[store.attempt])
==============================================================================
