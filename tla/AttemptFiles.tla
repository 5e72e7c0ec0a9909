----------------------------- MODULE AttemptFiles -----------------------------
(* What the attempts of an issue leave behind: the directory they work in      *)
(* (workspace/manager.ts), what git tells of it (orchestrator/diff.ts), and    *)
(* the artifacts recorded for each attempt, by the worker from what git tells  *)
(* (orchestrator/artifact-collector.ts) and by the agent itself (mcp/tools.ts, *)
(* session_completed).                                                         *)
(*                                                                             *)
(* A file's content is <<p, k, size>>, written as p by attempt k, with text in *)
(* it or empty; attempt -1 is whoever worked there before, and a moved file    *)
(* keeps its content.  Paths are those that the diff does not exclude.         *)
EXTENDS Integers, Sequences, SequencesExt, FiniteSetsExt

CONSTANTS Paths,
          Big,            \* the paths whose files are over INLINE_THRESHOLD
          Attempts,       \* bound on the attempts of the issue
          MaxOps,         \* bound on what an agent does in one attempt
          MaxEvents       \* bound on left-behind helpers' acts and deletions

NoPath == "no path"

ASSUME FilesAssumption ==
  /\ IsFiniteSet(Paths) /\ NoPath \notin Paths
  /\ Big \subseteq Paths
  /\ {Attempts, MaxOps, MaxEvents} \subseteq Nat

VARIABLES dir,            \* the directory: git's state, files, index and HEAD
          wk,             \* the worker of the present attempt
          col,            \* the collection of an attempt's artifacts
          issue,          \* "todo", "done" or "deleted"
          arts,           \* symphony_artifacts, in the order of insertion
          left            \* the events that may still happen

vars == <<dir, wk, col, issue, arts, left>>

None == <<>>
Sizes == {"empty", "text"}
HasText(content) == content # None /\ content[3] = "text"

Absent == [p \in Paths |-> None]
Old == [p \in Paths |-> <<p, -1, "text">>]

(* A directory that is not there, the program's own or one named by the issue.   *)
NoDir(own) == [own |-> own, git |-> "none", files |-> Absent, index |-> {},
               head |-> Absent]

(* -------------------------- the directory and git -------------------------- *)

Present(d) == {p \in Paths : d.files[p] # None}

(* ensureGitBaseline: a directory that is no repository becomes one with all   *)
(* it has in a first commit, unless one of the commands fails or takes too     *)
(* long.                                                                       *)
Baselines(d) ==
  IF d.git # "none" THEN {d}
  ELSE {d, [d EXCEPT !.git = "unborn"],
        [d EXCEPT !.git = "unborn", !.index = Present(d)],
        [d EXCEPT !.git = "repo", !.index = Present(d), !.head = d.files]}

(* What git diff HEAD says of a path.                                          *)
Status(d, p) ==
  CASE d.head[p] # None /\ (p \notin d.index \/ d.files[p] = None) -> "D"
    [] d.head[p] # None /\ p \in d.index
         /\ d.files[p] \notin {None, d.head[p]} -> "M"
    [] d.head[p] = None /\ p \in d.index /\ d.files[p] # None -> "A"
    [] OTHER -> "same"

(* The ways in which git may pair paths that went with paths that came, as     *)
(* renames: each path once, and always two of the same content; two contents   *)
(* that differ are or are not similar enough.                                  *)
Pairings(d) ==
  LET Gone == {p \in Paths : Status(d, p) = "D"}
      Come == {p \in Paths : Status(d, p) = "A"}
      Apart(r, s) == r = s \/ (r[1] # s[1] /\ r[2] # s[2])
  IN  {R \in SUBSET (Gone \X Come) :
         /\ \A r, s \in R : Apart(r, s)
         /\ \A p \in Gone, q \in Come : d.head[p] = d.files[q] =>
              \E r \in R : r[1] = p \/ r[2] = q}

Renamed(R) == {r[1] : r \in R} \cup {r[2] : r \in R}

(* parseChanges: a rename is printed as R and how similar the two are, R087,   *)
(* which is none of the statuses that are looked for.                          *)
Listed(d, moved) ==
  {[path |-> p, status |-> Status(d, p)] :
     p \in {p \in Paths \ moved : Status(d, p) # "same"}}

(* As Changes, before files the agent has not added were looked for.           *)
ChangesTracked(d, moved, named, others) ==
  IF named /\ d.git = "repo" THEN Listed(d, moved) ELSE {}

(* collectWorkspaceDiff: what is listed, and every file that git does not      *)
(* know.  A command that fails or takes too long tells nothing.                *)
Changes(d, moved, named, others) ==
  LET listed == IF named /\ d.git = "repo" THEN Listed(d, moved) ELSE {}
      unknown == IF others /\ d.git # "none" THEN Present(d) \ d.index ELSE {}
  IN  listed \cup {[path |-> p, status |-> "A"] :
                     p \in unknown \ {c.path : c \in listed}}

HasPatch(d) == d.git = "repo" /\ \E p \in Paths : Status(d, p) # "same"

(* ------------------------------ the artifacts ------------------------------ *)

ArtifactExistsByPath(attempt, p) ==
  \E n \in DOMAIN arts : arts[n].attempt = attempt /\ arts[n].path = p

Artifact(attempt, path, source, kind, content, stored) ==
  [attempt |-> attempt, path |-> path, source |-> source, kind |-> kind,
   content |-> content, stored |-> stored]

(* session_completed with artifacts at a set of paths; a path that the list    *)
(* names twice counts once, one that an earlier call has named does not.       *)
Reported(attempt, S) ==
  LET paths == SetToSeq(S)
  IN  [n \in DOMAIN paths |->
        Artifact(attempt, paths[n], "mcp", "reported", None, FALSE)]

(* ------------------------------- the worker -------------------------------- *)

(* moved: the paths that git's answer has in renames.  whole: git has answered *)
(* and nothing has interfered.                                                 *)
NotCollecting == [pc |-> "idle", att |-> 0, todo |-> {}, at |-> NoPath,
                  moved |-> {}, whole |-> TRUE]

Init ==
  /\ dir \in {NoDir(TRUE), NoDir(FALSE),
              [NoDir(FALSE) EXCEPT !.files = Old],
              [own |-> FALSE, git |-> "repo", files |-> Old, index |-> Paths,
               head |-> Old]}
  /\ wk = [pc |-> "idle", att |-> 0, ops |-> 0]
  /\ col = NotCollecting
  /\ issue = "todo"
  /\ arts = <<>>
  /\ left = MaxEvents

(* ensureWorkspace; the agent is started in the directory.                     *)
Start ==
  /\ wk.pc = "idle"
  /\ issue = "todo"
  /\ wk.att < Attempts
  /\ dir' \in IF dir.own THEN Baselines(dir) ELSE {dir}
  /\ wk' = [wk EXCEPT !.pc = "agent", !.ops = MaxOps]
  /\ UNCHANGED <<col, issue, arts, left>>

(* What may be done to the directory: a file is written, removed, added to the *)
(* index, moved by git, or all that is added is committed.                     *)
Written(p, attempt) ==
  \E size \in IF p \in Big THEN {"text"} ELSE Sizes :
    dir' = [dir EXCEPT !.files[p] = <<p, attempt, size>>]

Removed(p) == dir' = [dir EXCEPT !.files[p] = None]

Added(p) == dir' = [dir EXCEPT !.index = @ \cup {p}]

Moved(p, q) == dir' = [dir EXCEPT !.files[p] = None, !.files[q] = dir.files[p],
                                  !.index = (@ \ {p}) \cup {q}]

Committed ==
  dir' = [dir EXCEPT !.git = "repo",
                     !.head = [p \in Paths |-> IF p \in dir.index
                                               THEN dir.files[p] ELSE None]]

Act(attempt) ==
  \/ \E p \in Paths : Written(p, attempt)
  \/ \E p \in Present(dir) : Removed(p)
  \/ /\ dir.git # "none"
     /\ \/ \E p \in Present(dir) : Added(p)
        \/ \E p \in Present(dir) \cap dir.index, q \in Paths \ Present(dir) : Moved(p, q)
        \/ Committed

AgentActs ==
  /\ wk.pc = "agent"
  /\ wk.ops > 0
  /\ Act(wk.att)
  /\ wk' = [wk EXCEPT !.ops = @ - 1]
  /\ UNCHANGED <<col, issue, arts, left>>

AgentReports ==
  /\ wk.pc = "agent"
  /\ wk.ops > 0
  /\ \E S \in SUBSET Paths \ {{}} : arts' = arts \o Reported(wk.att, S)
  /\ wk' = [wk EXCEPT !.ops = @ - 1]
  /\ UNCHANGED <<dir, col, issue, left>>

(* The agent has ended; collectAllArtifacts is called.                         *)
AgentEnds ==
  /\ wk.pc = "agent"
  /\ wk' = [wk EXCEPT !.pc = "collecting", !.ops = 0]
  /\ col' = [NotCollecting EXCEPT !.pc = "diff", !.att = wk.att,
                                  !.whole = issue # "deleted"]
  /\ UNCHANGED <<dir, issue, arts, left>>

(* First git is asked, and its patch is recorded, unless it is large and cannot *)
(* be written to the directory, which ends the collection.                     *)
CollectDiff ==
  /\ col.pc = "diff"
  /\ \E named, patched, others, large, failing \in BOOLEAN, R \in Pairings(dir) :
       LET patch == patched /\ HasPatch(dir)
       IN  /\ (failing => large) /\ (large => patch)
           /\ arts' = IF patch /\ ~ failing
                      THEN Append(arts, Artifact(col.att, NoPath, "git_diff", "patch",
                                                 None, large))
                      ELSE arts
           /\ col' = [col EXCEPT
                        !.pc = IF failing THEN "idle" ELSE "changes",
                        !.todo = IF failing THEN {}
                                 ELSE Changes(dir, Renamed(R), named, others),
                        !.moved = Renamed(R),
                        !.whole = @ /\ named /\ others /\ ~ failing]
  /\ UNCHANGED <<dir, wk, issue, left>>

(* A change that is not a new file is recorded by its path alone; nothing is   *)
(* recorded of a path the agent has reported.                                  *)
CollectChange ==
  /\ col.pc = "changes"
  /\ \E c \in col.todo :
       LET known == ArtifactExistsByPath(col.att, c.path)
       IN  /\ col' = [col EXCEPT !.todo = @ \ {c}, !.at = c.path,
                                 !.pc = IF c.status = "A" /\ ~ known THEN "store" ELSE @]
           /\ arts' = IF c.status = "A" \/ known THEN arts
                      ELSE Append(arts, Artifact(col.att, c.path, "git_diff", c.status,
                                                 None, FALSE))
  /\ UNCHANGED <<dir, wk, issue, left>>

(* persistFileArtifact, after its look at the artifacts: a small file is       *)
(* copied, a large one referred to, and one that is gone is left out.          *)
StoreFile ==
  /\ col.pc = "store"
  /\ LET p == col.at
         content == IF p \in Big THEN None ELSE dir.files[p]
     IN  arts' = IF dir.files[p] = None THEN arts
                 ELSE Append(arts, Artifact(col.att, p, "git_diff", "A", content,
                                            p \in Big))
  /\ col' = [col EXCEPT !.pc = "changes"]
  /\ UNCHANGED <<dir, wk, issue, left>>

CollectEnds ==
  /\ col.pc = "changes"
  /\ col.todo = {}
  /\ col' = [col EXCEPT !.pc = "idle"]
  /\ UNCHANGED <<dir, wk, issue, arts, left>>

(* As Settle, by a worker that does not wait for the collection.               *)
SettleUnawaited ==
  /\ wk.pc = "collecting"
  /\ wk' = [wk EXCEPT !.pc = "idle", !.att = @ + 1]
  /\ issue' \in IF issue = "todo" THEN {"todo", "done"} ELSE {issue}
  /\ UNCHANGED <<dir, col, arts, left>>

(* The attempt is settled: the issue is done or tried again.                   *)
Settle ==
  /\ wk.pc = "collecting"
  /\ col.pc = "idle"
  /\ wk' = [wk EXCEPT !.pc = "idle", !.att = @ + 1]
  /\ issue' \in IF issue = "todo" THEN {"todo", "done"} ELSE {issue}
  /\ UNCHANGED <<dir, col, arts, left>>

(* ------------------------------ other events ------------------------------- *)

(* A process the agent has left behind goes on in the directory, and reports   *)
(* with its token until the attempt is settled.                                *)
HelperActs ==
  /\ wk.pc = "collecting"
  /\ left > 0
  /\ left' = left - 1
  /\ col' = [col EXCEPT !.whole = FALSE]
  /\ \/ Act(wk.att) /\ arts' = arts
     \/ \E p \in Paths : arts' = arts \o Reported(wk.att, {p}) /\ dir' = dir
  /\ UNCHANGED <<wk, issue>>

(* removeWorkspace takes a directory only if it is the program's own, and may  *)
(* fail to.                                                                    *)
RemoveWorkspace(d) == IF d.own THEN {NoDir(TRUE), d} ELSE {d}

(* DELETE /issues/:uuid, whether or not a worker is at it: the issue goes with *)
(* its rows in one transaction, and then its directory.                        *)
Delete ==
  /\ issue # "deleted"
  /\ left > 0
  /\ left' = left - 1
  /\ issue' = "deleted"
  /\ dir' \in RemoveWorkspace(dir)
  /\ arts' = <<>>
  /\ col' = [col EXCEPT !.whole = FALSE]
  /\ UNCHANGED wk

Next ==
  \/ Start \/ AgentActs \/ AgentReports \/ AgentEnds
  \/ CollectDiff \/ CollectChange \/ StoreFile \/ CollectEnds \/ Settle
  \/ HelperActs \/ Delete

Spec == Init /\ [][Next]_vars

(* ------------------------------- properties -------------------------------- *)

(* What a file may hold by attempt k.                                          *)
Contents(k) == {None} \cup (Paths \X (-1 .. k) \X Sizes)

Directories(k) ==
  [own : BOOLEAN, git : {"none", "unborn", "repo"}, files : [Paths -> Contents(k)],
   index : SUBSET Paths, head : [Paths -> Contents(k)]]

Change == [path : Paths, status : {"A", "D", "M"}]

Artifacts(k) ==
  [attempt : 0 .. k, path : Paths \cup {NoPath}, source : {"mcp", "git_diff"},
   kind : {"reported", "patch", "A", "D", "M"}, content : Contents(k),
   stored : BOOLEAN]

TypeOK ==
  /\ wk \in [pc : {"idle", "agent", "collecting"}, att : Nat, ops : Nat]
  /\ dir \in Directories(wk.att)
  /\ col \in [pc : {"idle", "diff", "changes", "store"}, att : Nat,
              todo : SUBSET Change, at : Paths \cup {NoPath},
              moved : SUBSET Paths, whole : BOOLEAN]
  /\ issue \in {"todo", "done", "deleted"}
  /\ arts \in Seq(Artifacts(wk.att))
  /\ left \in Nat

Of(attempt, p, source) ==
  {n \in DOMAIN arts : arts[n].attempt = attempt /\ arts[n].path = p
                         /\ arts[n].source = source}

Untracked(p) == p \in Present(dir) \ dir.index

(* What differs from the last commit, as far as the directory has one.         *)
Differs(p) ==
  \/ dir.git = "repo" /\ (Status(dir, p) # "same" \/ Untracked(p))
  \/ dir.git = "unborn" /\ Untracked(p)

(* When an attempt's collection is over, its reviewer finds every path that    *)
(* differs from the last commit among the attempt's artifacts, and from git    *)
(* once at most and not at all if the agent has reported it: provided that     *)
(* every git command answered (a failed one passes for no changes), the issue  *)
(* was not deleted and nothing of the agent was at work still.  The paths that *)
(* git answers to be one file moved, edited on the way or not, are left out:   *)
(* diff.ts:109 drops them, and the patch alone tells of them                   *)
(* (artifact-collector.ts collectAllArtifacts, mcp/tools.ts                    *)
(* session_completed).                                                         *)
ArtifactsComplete ==
  /\ \A a \in 0 .. wk.att, p \in Paths : Cardinality(Of(a, p, "git_diff")) <= 1
  /\ wk.pc = "collecting" /\ col.pc = "idle" /\ col.whole =>
       \A p \in Paths \ col.moved :
         LET reported == Of(wk.att, p, "mcp")
             found == Of(wk.att, p, "git_diff")
         IN  /\ reported = {} \/ found = {}
             /\ Differs(p) => reported \cup found # {}

(* GET /artifacts/:id/raw of a path's artifact: the file that is referred to,  *)
(* else the content that was kept, if there is text in it, else the file that  *)
(* is in the workspace.                                                        *)
Raw(n) ==
  LET a == arts[n]
  IN  IF HasText(a.content) /\ ~ a.stored THEN a.content
      ELSE IF a.stored \/ issue # "deleted" THEN dir.files[a.path]
      ELSE None

(* An artifact that is kept with its content is shown as the file was in its   *)
(* own attempt, never as a later one made it (worker.ts: the artifacts are     *)
(* collected before the attempt is settled, though a comment calls the         *)
(* collection non-blocking; artifacts.ts, the raw route).  That is said of     *)
(* content with text in it only: a file that was kept empty is shown as it is  *)
(* in the workspace by then, which a later attempt may have written            *)
(* (artifacts.ts:55).                                                          *)
ContentOfAttempt ==
  \A n \in DOMAIN arts :
    HasText(arts[n].content) =>
      /\ HasText(Raw(n))
      /\ Raw(n)[2] <= arts[n].attempt
===============================================================================
