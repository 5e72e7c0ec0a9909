-------------------------- MODULE AttemptFiles_proofs --------------------------
(***************************************************************************)
(* Theorems of AttemptFiles, for any paths, any number of attempts and of  *)
(* acts: what the artifacts of an attempt keep is of that attempt, and     *)
(* they are complete where the collection was.                             *)
(***************************************************************************)
EXTENDS AttemptFiles, FiniteSetTheorems, SequenceTheorems, TLAPS

\* The paths of the present attempt's artifacts of one kind.
Told(source) ==
  {p \in Paths : \E n \in DOMAIN arts :
     arts[n].attempt = wk.att /\ arts[n].path = p /\ arts[n].source = source}

\* What the collection has still to look at.
Pending ==
  {c.path : c \in col.todo} \cup (IF col.pc = "store" THEN {col.at} ELSE {})

\* What a reviewer should find.
Seen == {p \in Paths \ col.moved : Differs(p)}

\* The collection belongs to the worker's attempt.
Together ==
  /\ wk.pc = "collecting" => col.att = wk.att
  /\ wk.pc # "collecting" => col.pc = "idle"
  /\ col.pc = "idle" => col.todo = {}

\* What is kept with its content was there in its attempt at the latest.
Kept ==
  \A n \in DOMAIN arts : arts[n].content # None =>
    ~ arts[n].stored /\ arts[n].content \in Paths \X (-1 .. arts[n].attempt) \X Sizes

\* Git is asked when the agent has ended.
Past ==
  \A n \in DOMAIN arts : arts[n].source = "git_diff" =>
    arts[n].attempt < wk.att \/ (wk.pc = "collecting" /\ col.pc # "diff")

\* A path has one artifact of git's in an attempt.
Once ==
  \A m, n \in DOMAIN arts :
    /\ arts[m].source = "git_diff" /\ arts[n].source = "git_diff"
    /\ arts[m].attempt = arts[n].attempt
    /\ arts[m].path = arts[n].path /\ arts[m].path \in Paths
    => m = n

\* The file that is about to be stored has no artifact yet; where nobody has
\* interfered it has not been reported meanwhile, and is there.
Storing ==
  col.pc = "store" =>
    /\ col.at \in Paths \ Told("git_diff")
    /\ col.whole => col.at \notin Told("mcp") /\ dir.files[col.at] # None

\* Git's artifacts leave out what the agent reported.
EitherWay == wk.pc = "collecting" /\ col.whole => Told("mcp") \cap Told("git_diff") = {}

\* A new file that git told of is there until something interferes.
There == col.whole => \A c \in col.todo : c.status = "A" => dir.files[c.path] # None

\* What is to be found is recorded already or has still to be looked at, from
\* git's answer on.
Found ==
  wk.pc = "collecting" /\ col.pc # "diff" /\ col.whole =>
    Seen \subseteq Told("mcp") \cup Told("git_diff") \cup Pending

IInv ==
  /\ TypeOK /\ Together /\ Kept /\ Past /\ Once
  /\ Storing /\ EitherWay /\ There /\ Found
-----------------------------------------------------------------------------
(* Sequences of artifacts. *)

\* arts grows at its end, by members of S.
Grows(S) ==
  /\ DOMAIN arts \subseteq DOMAIN arts'
  /\ \A n \in DOMAIN arts : arts'[n] = arts[n]
  /\ \A n \in DOMAIN arts' \ DOMAIN arts : arts'[n] \in S

LEMMA AppendGrows ==
  ASSUME NEW k \in Nat, arts \in Seq(Artifacts(k)), NEW x \in Artifacts(k),
         arts' = Append(arts, x)
  PROVE  /\ arts' \in Seq(Artifacts(k))
         /\ Grows({x})
         /\ \E n \in DOMAIN arts' : n \notin DOMAIN arts /\ arts'[n] = x
         /\ \A m, n \in DOMAIN arts' \ DOMAIN arts : m = n
<1> DEFINE T == Artifacts(k)
<1>1. arts \in Seq(T) /\ x \in T
  OBVIOUS
<1> HIDE DEF T
<1>2. /\ Len(arts) \in Nat /\ DOMAIN arts = 1..Len(arts)
      /\ arts' \in Seq(T) /\ Len(arts') = Len(arts) + 1 /\ DOMAIN arts' = 1..(Len(arts) + 1)
      /\ \A n \in 1..Len(arts) : arts'[n] = arts[n]
      /\ arts'[Len(arts) + 1] = x
  BY <1>1
<1>3. DOMAIN arts' \ DOMAIN arts = {Len(arts) + 1}
  BY <1>2
<1> QED
  BY <1>2, <1>3 DEF Grows, T

Reports(a, S) == {Artifact(a, p, "mcp", "reported", None, FALSE) : p \in S}

LEMMA ReportedTyped ==
  ASSUME NEW a \in Nat, NEW S \in SUBSET Paths
  PROVE  Reported(a, S) \in Seq(Reports(a, S))
<1> DEFINE F == [1..Cardinality(S) -> S]
           paths == SetToSeq(S)
<1>1. IsFiniteSet(S) /\ Cardinality(S) \in Nat
  BY FilesAssumption, FS_Subset, FS_CardinalityType
<1>2. \E f \in F : IsInjective(f)
  <2>1. ExistsBijection(1..Cardinality(S), S)
    BY <1>1, FS_CardinalityType
  <2> QED
    BY <2>1 DEF ExistsBijection, Bijection, Injection, IsInjective
<1>3. paths \in F
  BY <1>2 DEF SetToSeq
<1>4. paths \in Seq(S) /\ DOMAIN paths = 1..Cardinality(S)
  BY <1>1, <1>3
<1> DEFINE row(n) == Artifact(a, paths[n], "mcp", "reported", None, FALSE)
           N == Cardinality(S)
<1>5. \A n \in 1..N : row(n) \in Reports(a, S)
  BY <1>3 DEF Reports
<1>6. Reported(a, S) = [n \in 1..N |-> row(n)]
  BY <1>4 DEF Reported
<1>7. N \in Nat
  BY <1>1
<1> HIDE DEF row, N
<1>8. [n \in 1..N |-> row(n)] \in Seq(Reports(a, S))
  BY <1>5, <1>7
<1> QED
  BY <1>6, <1>8

LEMMA ReportsGrow ==
  ASSUME NEW k \in Nat, arts \in Seq(Artifacts(k)), NEW a \in 0 .. k,
         NEW S \in SUBSET Paths, arts' = arts \o Reported(a, S)
  PROVE  arts' \in Seq(Artifacts(k)) /\ Grows(Reports(a, S))
<1> DEFINE T == Artifacts(k)
           R == Reports(a, S)
           r == Reported(a, S)
<1>1. R \subseteq T
  <2>1. \A p \in S : Artifact(a, p, "mcp", "reported", None, FALSE) \in T
    <3>1. None \in Contents(k)
      BY DEF Contents
    <3> QED
      BY <3>1 DEF Artifact, Artifacts
  <2> QED
    BY <2>1 DEF Reports
<1>2. r \in Seq(R) /\ r \in Seq(T)
  BY <1>1, ReportedTyped, SeqMonotonic
<1>3. arts \in Seq(T) /\ arts' = arts \o r
  OBVIOUS
<1> HIDE DEF T, R, r
<1>4. /\ arts' \in Seq(T) /\ Len(arts) \in Nat /\ Len(r) \in Nat
      /\ DOMAIN arts = 1..Len(arts) /\ DOMAIN arts' = 1..(Len(arts) + Len(r))
      /\ \A n \in 1..Len(arts) : arts'[n] = arts[n]
      /\ \A n \in (Len(arts) + 1)..(Len(arts) + Len(r)) : arts'[n] = r[n - Len(arts)]
  BY <1>2, <1>3
<1>5. \A n \in 1..Len(r) : r[n] \in R
  BY <1>2
<1>6. ASSUME NEW n \in DOMAIN arts', n \notin DOMAIN arts
      PROVE  arts'[n] \in R
  <2>1. n \in (Len(arts) + 1)..(Len(arts) + Len(r)) /\ n - Len(arts) \in 1..Len(r)
    BY <1>4, <1>6
  <2> QED
    BY <1>4, <1>5, <2>1
<1> QED
  BY <1>4, <1>6 DEF Grows, T, R

LEMMA ToldGrows ==
  ASSUME NEW S, Grows(S), wk'.att = wk.att, NEW source
  PROVE  /\ Told(source) \subseteq Told(source)'
         /\ \A p \in Told(source)' : \/ p \in Told(source)
                                     \/ \E x \in S : x.path = p /\ x.source = source
  BY DEF Told, Grows

LEMMA SameArts ==
  ASSUME arts' = arts
  PROVE  /\ Kept => Kept'
         /\ Once => Once'
         /\ wk'.att = wk.att => \A source : Told(source)' = Told(source)
  BY DEF Kept, Once, Told

\* Reports and patches by themselves disturb neither.
LEMMA GrowsHarmless ==
  ASSUME NEW S, Grows(S), \A x \in S : x.content = None,
         \A x \in S : x.source = "mcp" \/ x.path \notin Paths
  PROVE  (Kept => Kept') /\ (Once => Once')
<1>1. ASSUME Kept
      PROVE  Kept'
  BY <1>1 DEF Kept, Grows
<1>2. ASSUME Once
      PROVE  Once'
  BY <1>2 DEF Once, Grows
<1> QED
  BY <1>1, <1>2
-----------------------------------------------------------------------------
(* Types. *)

LEMMA Monotonic ==
  ASSUME NEW k \in Nat, NEW l \in Nat, k <= l
  PROVE  /\ Directories(k) \subseteq Directories(l)
         /\ Seq(Artifacts(k)) \subseteq Seq(Artifacts(l))
<1>1. Contents(k) \subseteq Contents(l)
  BY DEF Contents
<1>2. Directories(k) \subseteq Directories(l)
  BY <1>1 DEF Directories
<1>3. 0 .. k \subseteq 0 .. l
  OBVIOUS
<1>4. Artifacts(k) \subseteq Artifacts(l)
  BY <1>1, <1>3 DEF Artifacts
<1> QED
  BY <1>2, <1>4, SeqMonotonic

LEMMA DirFields ==
  ASSUME NEW k, NEW d \in Directories(k)
  PROVE  /\ d.own \in BOOLEAN /\ d.git \in {"none", "unborn", "repo"}
         /\ d.files \in [Paths -> Contents(k)] /\ d.head \in [Paths -> Contents(k)]
         /\ d.index \in SUBSET Paths
         /\ d = [own |-> d.own, git |-> d.git, files |-> d.files, index |-> d.index,
                 head |-> d.head]
  BY DEF Directories

LEMMA DirTyped ==
  ASSUME NEW k, NEW own \in BOOLEAN, NEW git \in {"none", "unborn", "repo"},
         NEW files \in [Paths -> Contents(k)], NEW head \in [Paths -> Contents(k)],
         NEW index \in SUBSET Paths
  PROVE  [own |-> own, git |-> git, files |-> files, index |-> index, head |-> head]
           \in Directories(k)
  BY DEF Directories

LEMMA BaselinesTyped ==
  ASSUME NEW k, NEW d \in Directories(k), NEW e \in Baselines(d)
  PROVE  e \in Directories(k)
<1>1. Present(d) \in SUBSET Paths
  BY DEF Present
<1>2. CASE e = d
  BY <1>2
<1>3. CASE e = [d EXCEPT !.git = "unborn"]
  BY <1>3 DEF Directories
<1>4. CASE e = [d EXCEPT !.git = "unborn", !.index = Present(d)]
  BY <1>1, <1>4 DEF Directories
<1>5. CASE e = [d EXCEPT !.git = "repo", !.index = Present(d), !.head = d.files]
  BY <1>1, <1>5 DEF Directories
<1> QED
  BY <1>2, <1>3, <1>4, <1>5 DEF Baselines

LEMMA NoDirTyped ==
  ASSUME NEW k, NEW own \in BOOLEAN
  PROVE  NoDir(own) \in Directories(k)
<1>1. Absent \in [Paths -> Contents(k)]
  BY DEF Absent, Contents
<1> QED
  BY <1>1, DirTyped DEF NoDir

LEMMA ActTyped ==
  ASSUME NEW k \in Nat, dir \in Directories(k), NEW a \in 0 .. k, Act(a)
  PROVE  dir' \in Directories(k)
<1>1. /\ None \in Contents(k)
      /\ \A p \in Paths, size \in Sizes : <<p, a, size>> \in Contents(k)
  BY DEF Contents
<1>2. ASSUME NEW p \in Paths, Written(p, a) \/ Removed(p) \/ Added(p)
      PROVE  dir' \in Directories(k)
  <2>1. CASE Written(p, a)
    <3>1. PICK size \in Sizes : dir' = [dir EXCEPT !.files[p] = <<p, a, size>>]
      BY <2>1 DEF Written, Sizes
    <3> QED
      BY <1>1, <3>1 DEF Directories
  <2>2. CASE Removed(p) \/ Added(p)
    BY <1>1, <2>2 DEF Directories, Removed, Added
  <2> QED
    BY <1>2, <2>1, <2>2
<1>3. ASSUME NEW p \in Paths, NEW q \in Paths, Moved(p, q)
      PROVE  dir' \in Directories(k)
  <2> DEFINE files == [dir.files EXCEPT ![p] = None, ![q] = dir.files[p]]
             index == (dir.index \ {p}) \cup {q}
  <2>1. files \in [Paths -> Contents(k)] /\ index \in SUBSET Paths
    BY <1>1, DirFields
  <2>2. dir' = [own |-> dir.own, git |-> dir.git, files |-> files, index |-> index,
                head |-> dir.head]
    BY <1>3 DEF Directories, Moved
  <2> QED
    BY <2>1, <2>2, DirFields, DirTyped
<1>4. CASE Committed
  <2> DEFINE head == [p \in Paths |-> IF p \in dir.index THEN dir.files[p] ELSE None]
  <2>1. head \in [Paths -> Contents(k)]
    BY <1>1, DirFields
  <2>2. dir' = [own |-> dir.own, git |-> "repo", files |-> dir.files, index |-> dir.index,
                head |-> head]
    BY <1>4 DEF Directories, Committed
  <2> QED
    BY <2>1, <2>2, DirFields, DirTyped
<1> QED
  BY <1>2, <1>3, <1>4 DEF Act, Present

LEMMA StatusTyped ==
  ASSUME NEW d, NEW p, Status(d, p) # "same"
  PROVE  Status(d, p) \in {"A", "D", "M"}
  BY DEF Status

LEMMA ChangesTyped ==
  ASSUME NEW d, NEW moved, NEW named \in BOOLEAN, NEW others \in BOOLEAN
  PROVE  Changes(d, moved, named, others) \in SUBSET Change
<1>1. Listed(d, moved) \in SUBSET Change
  BY StatusTyped DEF Listed, Change
<1>2. \A p \in Present(d) : [path |-> p, status |-> "A"] \in Change
  BY DEF Present, Change
<1> DEFINE listed == IF named /\ d.git = "repo" THEN Listed(d, moved) ELSE {}
           unknown == IF others /\ d.git # "none" THEN Present(d) \ d.index ELSE {}
<1>3. listed \in SUBSET Change /\ unknown \subseteq Present(d)
  BY <1>1
<1>4. Changes(d, moved, named, others) =
        listed \cup {[path |-> p, status |-> "A"] : p \in unknown \ {c.path : c \in listed}}
  BY DEF Changes
<1> HIDE DEF listed, unknown
<1> QED
  BY <1>2, <1>3, <1>4

LEMMA RenamedTyped ==
  ASSUME NEW d, NEW R \in Pairings(d)
  PROVE  Renamed(R) \in SUBSET Paths
<1>1. \A r \in R : r[1] \in Paths /\ r[2] \in Paths
  BY DEF Pairings
<1> QED
  BY <1>1 DEF Renamed

LEMMA Initially == Init => IInv
<1> SUFFICES ASSUME Init
             PROVE  IInv
  OBVIOUS
<1>1. {NoDir(TRUE), NoDir(FALSE)} \subseteq Directories(0)
  BY NoDirTyped
<1>2. Old \in [Paths -> Contents(0)] /\ Absent \in [Paths -> Contents(0)]
  BY DEF Old, Absent, Contents, Sizes
<1>3. [NoDir(FALSE) EXCEPT !.files = Old] \in Directories(0)
  BY <1>1, <1>2 DEF Directories
<1>8. [own |-> FALSE, git |-> "repo", files |-> Old, index |-> Paths, head |-> Old]
        \in Directories(0)
  BY <1>2 DEF Directories
<1>4. dir \in Directories(0)
  BY <1>1, <1>3, <1>8 DEF Init
<1>5. /\ wk = [pc |-> "idle", att |-> 0, ops |-> 0] /\ issue = "todo" /\ arts = <<>>
      /\ left = MaxEvents
      /\ col = [pc |-> "idle", att |-> 0, todo |-> {}, at |-> NoPath, moved |-> {},
                whole |-> TRUE]
  BY DEF Init, NotCollecting
<1>6. TypeOK
  BY <1>4, <1>5, FilesAssumption DEF TypeOK
<1>7. DOMAIN arts = {}
  BY <1>5
<1> QED
  BY <1>5, <1>6, <1>7
     DEF IInv, Together, Kept, Past, Once, Storing, EitherWay, There, Found

\* What a git command that answers or fails makes of the collection.
GitAnswers(named, others, large, failing, R) ==
  /\ arts' = arts \/ arts' =
       Append(arts, Artifact(col.att, NoPath, "git_diff", "patch", None, large))
  /\ col' = [col EXCEPT
               !.pc = IF failing THEN "idle" ELSE "changes",
               !.todo = IF failing THEN {} ELSE Changes(dir, Renamed(R), named, others),
               !.moved = Renamed(R),
               !.whole = @ /\ named /\ others /\ ~ failing]

LEMMA Answered ==
  ASSUME CollectDiff
  PROVE  \E named, others, large, failing \in BOOLEAN, R \in Pairings(dir) :
           GitAnswers(named, others, large, failing, R)
<1>1. PICK named, patched, others, large, failing \in BOOLEAN, R \in Pairings(dir) :
        LET patch == patched /\ HasPatch(dir)
        IN  /\ (failing => large) /\ (large => patch)
            /\ arts' = IF patch /\ ~ failing
                       THEN Append(arts, Artifact(col.att, NoPath, "git_diff", "patch",
                                                  None, large))
                       ELSE arts
            /\ col' = [col EXCEPT
                         !.pc = IF failing THEN "idle" ELSE "changes",
                         !.todo = IF failing THEN {}
                                  ELSE Changes(dir, Renamed(R), named, others),
                         !.moved = Renamed(R),
                         !.whole = @ /\ named /\ others /\ ~ failing]
  BY DEF CollectDiff
<1>2. GitAnswers(named, others, large, failing, R)
  BY <1>1 DEF GitAnswers
<1> QED
  BY <1>2

LEMMA TypeStep ==
  ASSUME TypeOK, Together, Storing, Next
  PROVE  TypeOK'
<1> DEFINE WK == [pc : {"idle", "agent", "collecting"}, att : Nat, ops : Nat]
           COL == [pc : {"idle", "diff", "changes", "store"}, att : Nat,
                   todo : SUBSET Change, at : Paths \cup {NoPath},
                   moved : SUBSET Paths, whole : BOOLEAN]
<1>0. /\ wk \in WK /\ col \in COL /\ dir \in Directories(wk.att)
      /\ arts \in Seq(Artifacts(wk.att)) /\ issue \in {"todo", "done", "deleted"}
      /\ left \in Nat /\ wk.att \in Nat /\ wk.ops \in Nat /\ col.att \in Nat
      /\ MaxOps \in Nat
  BY FilesAssumption DEF TypeOK
<1>a. wk.att \in 0 .. wk.att /\ wk.att + 1 \in Nat /\ wk.att <= wk.att + 1
  BY <1>0
<1>b. None \in Contents(wk.att)
  BY DEF Contents
<1>1. CASE Start
  <2>1. dir' \in Directories(wk.att)
    BY <1>0, <1>1, BaselinesTyped DEF Start
  <2>2. wk' \in WK /\ wk'.att = wk.att
    BY <1>0, <1>1 DEF Start
  <2> QED
    BY <1>0, <1>1, <2>1, <2>2 DEF Start, TypeOK
<1>2. CASE AgentActs
  <2>1. dir' \in Directories(wk.att)
    BY <1>0, <1>2, ActTyped DEF AgentActs
  <2>2. wk' \in WK /\ wk'.att = wk.att
    BY <1>0, <1>2 DEF AgentActs
  <2> QED
    BY <1>0, <1>2, <2>1, <2>2 DEF AgentActs, TypeOK
<1>3. CASE AgentReports
  <2>1. PICK S \in SUBSET Paths : arts' = arts \o Reported(wk.att, S)
    BY <1>3 DEF AgentReports
  <2>2. arts' \in Seq(Artifacts(wk.att))
    BY <1>0, <1>a, <2>1, ReportsGrow
  <2>3. wk' \in WK /\ wk'.att = wk.att
    BY <1>0, <1>3 DEF AgentReports
  <2> QED
    BY <1>0, <1>3, <2>2, <2>3 DEF AgentReports, TypeOK
<1>4. CASE AgentEnds
  <2>1. wk' \in WK /\ wk'.att = wk.att
    BY <1>0, <1>4 DEF AgentEnds
  <2>2. NotCollecting \in COL
    BY DEF NotCollecting
  <2>3. col' \in COL
    BY <1>0, <1>4, <2>2 DEF AgentEnds
  <2> QED
    BY <1>0, <1>4, <2>1, <2>3 DEF AgentEnds, TypeOK
<1>5. CASE CollectDiff
  <2>1. PICK named, others, large, failing \in BOOLEAN, R \in Pairings(dir) :
          GitAnswers(named, others, large, failing, R)
    BY <1>5, Answered
  <2>2. col.att = wk.att
    BY <1>0, <1>5 DEF CollectDiff, Together
  <2>3. arts' \in Seq(Artifacts(wk.att))
    <3>1. Artifact(col.att, NoPath, "git_diff", "patch", None, large) \in Artifacts(wk.att)
      BY <1>a, <1>b, <2>2 DEF Artifact, Artifacts
    <3> QED
      BY <1>0, <2>1, <3>1, AppendGrows DEF GitAnswers
  <2>4. col' \in COL
    BY <1>0, <2>1, ChangesTyped, RenamedTyped DEF GitAnswers
  <2> QED
    BY <1>0, <1>5, <2>3, <2>4 DEF CollectDiff, TypeOK
<1>6. CASE CollectChange
  <2>1. PICK c \in col.todo : LET known == ArtifactExistsByPath(col.att, c.path) IN
          /\ col' = [col EXCEPT !.todo = @ \ {c}, !.at = c.path,
                                !.pc = IF c.status = "A" /\ ~ known THEN "store" ELSE @]
          /\ arts' = IF c.status = "A" \/ known THEN arts
                     ELSE Append(arts, Artifact(col.att, c.path, "git_diff", c.status,
                                                None, FALSE))
    BY <1>6 DEF CollectChange
  <2>2. col.att = wk.att
    BY <1>0, <1>6 DEF CollectChange, Together
  <2>3. c.path \in Paths /\ c.status \in {"A", "D", "M"}
    BY <1>0 DEF Change
  <2>4. arts' \in Seq(Artifacts(wk.att))
    <3>1. Artifact(col.att, c.path, "git_diff", c.status, None, FALSE) \in Artifacts(wk.att)
      BY <1>a, <1>b, <2>2, <2>3 DEF Artifact, Artifacts
    <3> QED
      BY <1>0, <2>1, <3>1, AppendGrows
  <2>5. col' \in COL
    BY <1>0, <2>1, <2>3
  <2> QED
    BY <1>0, <1>6, <2>4, <2>5 DEF CollectChange, TypeOK
<1>7. CASE StoreFile
  <2> DEFINE content == IF col.at \in Big THEN None ELSE dir.files[col.at]
             large == col.at \in Big
             x == Artifact(col.att, col.at, "git_diff", "A", content, large)
  <2>1. arts' = arts \/ arts' = Append(arts, x)
    BY <1>7 DEF StoreFile
  <2>2. col.att = wk.att
    BY <1>0, <1>7 DEF StoreFile, Together
  <2>3. content \in Contents(wk.att) /\ large \in BOOLEAN
    <3>1. dir.files[col.at] \in Contents(wk.att)
      BY <1>0, <1>7, DirFields DEF Storing, StoreFile
    <3> QED
      BY <1>b, <3>1
  <2> HIDE DEF content, large
  <2>6. x \in Artifacts(wk.att)
    BY <1>0, <1>a, <2>2, <2>3 DEF Artifact, Artifacts
  <2> HIDE DEF x
  <2>4. arts' \in Seq(Artifacts(wk.att))
    <3>1. wk.att \in Nat /\ arts \in Seq(Artifacts(wk.att))
      BY <1>0
    <3> QED
      BY <2>1, <2>6, <3>1, AppendGrows
  <2>5. col' \in COL
    BY <1>0, <1>7 DEF StoreFile
  <2> QED
    BY <1>0, <1>7, <2>4, <2>5 DEF StoreFile, TypeOK
<1>8. CASE CollectEnds
  <2>1. col' \in COL
    BY <1>0, <1>8 DEF CollectEnds
  <2> QED
    BY <1>0, <1>8, <2>1 DEF CollectEnds, TypeOK
<1>9. CASE Settle
  <2>1. wk' \in WK /\ wk'.att = wk.att + 1
    BY <1>0, <1>a, <1>9 DEF Settle
  <2>2. dir \in Directories(wk.att + 1) /\ arts \in Seq(Artifacts(wk.att + 1))
    BY <1>0, <1>a, Monotonic
  <2> QED
    BY <1>0, <1>9, <2>1, <2>2 DEF Settle, TypeOK
<1>10. CASE HelperActs
  <2>1. dir' \in Directories(wk.att)
    BY <1>0, <1>a, <1>10, ActTyped DEF HelperActs
  <2>2. arts' \in Seq(Artifacts(wk.att))
    <3>1. CASE arts' = arts
      BY <1>0, <3>1
    <3>2. ASSUME NEW p \in Paths, arts' = arts \o Reported(wk.att, {p})
          PROVE  arts' \in Seq(Artifacts(wk.att))
      <4>1. {p} \in SUBSET Paths
        OBVIOUS
      <4> QED
        BY <1>0, <1>a, <3>2, <4>1, ReportsGrow
    <3> QED
      BY <1>10, <3>1, <3>2 DEF HelperActs
  <2>3. col' \in COL
    BY <1>0, <1>10 DEF HelperActs
  <2>4. left' \in Nat
    BY <1>0, <1>10 DEF HelperActs
  <2> QED
    BY <1>0, <1>10, <2>1, <2>2, <2>3, <2>4 DEF HelperActs, TypeOK
<1>11. CASE Delete
  <2>1. dir' \in Directories(wk.att)
    BY <1>0, <1>11, NoDirTyped DEF Delete, RemoveWorkspace
  <2>2. col' \in COL
    BY <1>0, <1>11 DEF Delete
  <2>4. arts' \in Seq(Artifacts(wk.att))
    BY <1>11 DEF Delete
  <2>3. left' \in Nat
    BY <1>0, <1>11 DEF Delete
  <2> QED
    BY <1>0, <1>11, <2>1, <2>2, <2>3, <2>4 DEF Delete, TypeOK
<1> QED
  BY <1>1, <1>2, <1>3, <1>4, <1>5, <1>6, <1>7, <1>8, <1>9, <1>10, <1>11 DEF Next
-----------------------------------------------------------------------------
(* The collection. *)

LEMMA ChangesThere ==
  ASSUME NEW d, NEW moved, NEW c \in Changes(d, moved, TRUE, TRUE), c.status = "A"
  PROVE  d.files[c.path] # None
<1>1. CASE c \in Listed(d, moved)
  <2>1. Status(d, c.path) = "A"
    BY <1>1 DEF Listed
  <2> QED
    BY <2>1 DEF Status
<1>2. CASE c.path \in Present(d)
  BY <1>2 DEF Present
<1> QED
  BY <1>1, <1>2 DEF Changes

LEMMA ChangesSeen ==
  ASSUME NEW moved
  PROVE  {p \in Paths \ moved : Differs(p)}
           \subseteq {c.path : c \in Changes(dir, moved, TRUE, TRUE)}
<1> SUFFICES ASSUME NEW p \in Paths \ moved, Differs(p)
             PROVE  \E c \in Changes(dir, moved, TRUE, TRUE) : c.path = p
  OBVIOUS
<1> DEFINE listed == IF dir.git = "repo" THEN Listed(dir, moved) ELSE {}
           unknown == IF dir.git # "none" THEN Present(dir) \ dir.index ELSE {}
           new == {[path |-> q, status |-> "A"] : q \in unknown \ {c.path : c \in listed}}
<1>1. Changes(dir, moved, TRUE, TRUE) = listed \cup new
  BY DEF Changes
<1>2. ASSUME dir.git = "repo", Status(dir, p) # "same"
      PROVE  \E c \in listed : c.path = p
  <2>1. [path |-> p, status |-> Status(dir, p)] \in listed
    BY <1>2 DEF Listed
  <2> QED
    BY <2>1
<1>3. ASSUME p \in unknown
      PROVE  \E c \in listed \cup new : c.path = p
  <2>1. CASE \E c \in listed : c.path = p
    BY <2>1
  <2>2. CASE p \notin {c.path : c \in listed}
    <3> DEFINE c == [path |-> p, status |-> "A"]
    <3>1. c \in new /\ c.path = p
      BY <1>3, <2>2
    <3> HIDE DEF c, listed, new
    <3> QED
      BY <3>1
  <2> QED
    BY <2>1, <2>2
<1>4. \E c \in listed \cup new : c.path = p
  <2>1. \/ dir.git = "repo" /\ Status(dir, p) # "same"
        \/ p \in unknown
    BY DEF Differs, Untracked
  <2> QED
    BY <1>2, <1>3, <2>1
<1> HIDE DEF listed, new
<1> QED
  BY <1>1, <1>4

LEMMA SameDir ==
  ASSUME dir' = dir
  PROVE  /\ \A p : Differs(p)' = Differs(p)
         /\ col'.moved = col.moved => Seen' = Seen
  BY DEF Seen, Differs, Untracked
-----------------------------------------------------------------------------
(* The steps. *)

Rest ==
  /\ Together /\ Kept /\ Past /\ Once
  /\ Storing /\ EitherWay /\ There /\ Found

LEMMA Fields ==
  ASSUME TypeOK
  PROVE  /\ wk.pc \in {"idle", "agent", "collecting"} /\ wk.att \in Nat
         /\ wk = [pc |-> wk.pc, att |-> wk.att, ops |-> wk.ops]
         /\ col.pc \in {"idle", "diff", "changes", "store"}
         /\ col.todo \in SUBSET Change /\ col.whole \in BOOLEAN
         /\ col = [pc |-> col.pc, att |-> col.att, todo |-> col.todo, at |-> col.at,
                   moved |-> col.moved, whole |-> col.whole]
         /\ \A n \in DOMAIN arts : arts[n].attempt \in 0 .. wk.att
         /\ NoPath \notin Paths
<1>1. \A n \in DOMAIN arts : arts[n] \in Artifacts(wk.att)
  BY DEF TypeOK
<1>2. \A n \in DOMAIN arts : arts[n].attempt \in 0 .. wk.att
  BY <1>1 DEF Artifacts
<1> QED
  BY <1>2, FilesAssumption DEF TypeOK

\* While the agent works nothing is collected.
LEMMA StartStep ==
  ASSUME TypeOK, Rest, Start
  PROVE  Rest'
<1>1. /\ wk.pc = "idle" /\ wk'.pc = "agent" /\ wk'.att = wk.att
      /\ col' = col /\ arts' = arts /\ col.pc = "idle" /\ col.todo = {}
  BY Fields DEF Start, Rest, Together
<1>2. Kept' /\ Once'
  BY <1>1, SameArts DEF Rest
<1>3. Together' /\ Storing' /\ EitherWay' /\ There' /\ Found'
  BY <1>1 DEF Together, Storing, EitherWay, There, Found
<1>4. Past'
  BY <1>1 DEF Past, Rest
<1> QED
  BY <1>2, <1>3, <1>4 DEF Rest

LEMMA AgentActsStep ==
  ASSUME TypeOK, Rest, AgentActs
  PROVE  Rest'
<1>1. /\ wk.pc = "agent" /\ wk'.pc = "agent" /\ wk'.att = wk.att
      /\ col' = col /\ arts' = arts /\ col.pc = "idle" /\ col.todo = {}
  BY Fields DEF AgentActs, Rest, Together
<1>2. Kept' /\ Once'
  BY <1>1, SameArts DEF Rest
<1>3. Together' /\ Storing' /\ EitherWay' /\ There' /\ Found'
  BY <1>1 DEF Together, Storing, EitherWay, There, Found
<1>4. Past'
  BY <1>1 DEF Past, Rest
<1> QED
  BY <1>2, <1>3, <1>4 DEF Rest

LEMMA ReportsHarmless ==
  ASSUME NEW a, NEW S \in SUBSET Paths, Grows(Reports(a, S))
  PROVE  /\ Kept => Kept'
         /\ Once => Once'
         /\ wk'.att = wk.att => Told("git_diff")' \subseteq Told("git_diff")
         /\ \A n \in DOMAIN arts' : arts'[n].source = "git_diff" =>
              n \in DOMAIN arts /\ arts'[n] = arts[n]
<1>1. \A x \in Reports(a, S) : x.content = None /\ x.source = "mcp"
  BY DEF Reports, Artifact
<1>2. (Kept => Kept') /\ (Once => Once')
  BY <1>1, GrowsHarmless
<1>3. wk'.att = wk.att => Told("git_diff")' \subseteq Told("git_diff")
  BY <1>1, ToldGrows
<1>4. \A n \in DOMAIN arts' : arts'[n].source = "git_diff" =>
        n \in DOMAIN arts /\ arts'[n] = arts[n]
  BY <1>1 DEF Grows
<1> QED
  BY <1>2, <1>3, <1>4

LEMMA AgentReportsStep ==
  ASSUME TypeOK, Rest, AgentReports
  PROVE  Rest'
<1>1. /\ wk.pc = "agent" /\ wk'.pc = "agent" /\ wk'.att = wk.att
      /\ col' = col /\ col.pc = "idle" /\ col.todo = {}
  BY Fields DEF AgentReports, Rest, Together
<1>2. PICK S \in SUBSET Paths : arts' = arts \o Reported(wk.att, S)
  BY DEF AgentReports
<1>3. wk.att \in Nat /\ wk.att \in 0 .. wk.att /\ arts \in Seq(Artifacts(wk.att))
  BY DEF TypeOK
<1>4. Grows(Reports(wk.att, S))
  BY <1>2, <1>3, ReportsGrow
<1>5. Kept' /\ Once'
  BY <1>4, ReportsHarmless DEF Rest
<1>6. Together' /\ Storing' /\ EitherWay' /\ There' /\ Found'
  BY <1>1 DEF Together, Storing, EitherWay, There, Found
<1>7. Past'
  BY <1>1, <1>4, ReportsHarmless DEF Past, Rest
<1> QED
  BY <1>5, <1>6, <1>7 DEF Rest

LEMMA AgentEndsStep ==
  ASSUME TypeOK, Rest, AgentEnds
  PROVE  Rest'
<1>1. /\ wk.pc = "agent" /\ wk'.pc = "collecting" /\ wk'.att = wk.att /\ arts' = arts
      /\ col'.pc = "diff" /\ col'.att = wk.att /\ col'.todo = {}
  BY Fields DEF AgentEnds, NotCollecting
<1>2. Kept' /\ Once'
  BY <1>1, SameArts DEF Rest
<1>3. Together' /\ Storing' /\ There' /\ Found'
  BY <1>1 DEF Together, Storing, There, Found
<1>4. Past'
  BY <1>1 DEF Past, Rest
<1>5. EitherWay'
  <2>1. \A n \in DOMAIN arts : arts[n].source = "git_diff" => arts[n].attempt < wk.att
    BY <1>1 DEF Past, Rest
  <2>2. \A n \in DOMAIN arts : arts[n].source = "git_diff" => arts[n].attempt # wk.att
    BY <2>1, Fields
  <2>3. Told("git_diff")' = {}
    BY <1>1, <2>2 DEF Told
  <2> QED
    BY <2>3 DEF EitherWay
<1> QED
  BY <1>2, <1>3, <1>4, <1>5 DEF Rest

LEMMA CollectDiffStep ==
  ASSUME TypeOK, Rest, CollectDiff
  PROVE  Rest'
<1>1. /\ wk.pc = "collecting" /\ wk' = wk /\ dir' = dir
      /\ col.pc = "diff" /\ col.att = wk.att
  BY Fields DEF CollectDiff, Rest, Together
<1>2. PICK named, others, large, failing \in BOOLEAN, R \in Pairings(dir) :
        GitAnswers(named, others, large, failing, R)
  BY Answered
<1>3. /\ col'.pc \in {"idle", "changes"} /\ col'.att = wk.att
      /\ col'.pc = "idle" => col'.todo = {}
  BY <1>1, <1>2, Fields DEF GitAnswers
<1>4. ASSUME col'.whole
      PROVE  /\ col.whole /\ col'.pc = "changes"
             /\ col'.moved = Renamed(R) /\ col'.todo = Changes(dir, Renamed(R), TRUE, TRUE)
  <2>1. col.whole /\ named /\ others /\ ~ failing
    BY <1>2, <1>4, Fields DEF GitAnswers
  <2>2. named = TRUE /\ others = TRUE /\ failing = FALSE
    BY <2>1
  <2> QED
    BY <1>2, <2>1, <2>2, Fields DEF GitAnswers
<1>5. /\ Kept' /\ Once' /\ Past'
      /\ \A source \in {"mcp", "git_diff"} : Told(source)' = Told(source)
  <2>1. CASE arts' = arts
    <3>1. Kept' /\ Once' /\ \A source : Told(source)' = Told(source)
      BY <1>1, <2>1, SameArts DEF Rest
    <3>2. Past'
      BY <1>1, <1>3, <2>1 DEF Rest, Past
    <3> QED
      BY <3>1, <3>2
  <2>2. ASSUME arts' = Append(arts, Artifact(col.att, NoPath, "git_diff", "patch",
                                             None, large))
        PROVE  /\ Kept' /\ Once' /\ Past'
               /\ \A source \in {"mcp", "git_diff"} : Told(source)' = Told(source)
    <3> DEFINE x == Artifact(col.att, NoPath, "git_diff", "patch", None, large)
    <3>1. wk.att \in Nat /\ wk.att \in 0 .. wk.att /\ None \in Contents(wk.att)
      BY Fields DEF Contents
    <3>2. x \in Artifacts(wk.att) /\ x.path = NoPath /\ x.content = None
      BY <1>1, <3>1 DEF Artifact, Artifacts
    <3> HIDE DEF x
    <3>3. arts \in Seq(Artifacts(wk.att)) /\ arts' = Append(arts, x)
      BY <2>2 DEF TypeOK, x
    <3>4. Grows({x})
      BY <3>1, <3>2, <3>3, AppendGrows
    <3>5. Kept' /\ Once'
      BY <3>2, <3>4, Fields, GrowsHarmless DEF Rest
    <3>6. Past'
      BY <1>1, <1>3 DEF Past
    <3>7. \A source \in {"mcp", "git_diff"} : Told(source)' = Told(source)
      BY <1>1, <3>2, <3>4, Fields, ToldGrows DEF Told
    <3> QED
      BY <3>5, <3>6, <3>7
  <2> QED
    BY <1>2, <2>1, <2>2 DEF GitAnswers
<1>6. Together' /\ Storing'
  BY <1>1, <1>3 DEF Together, Storing
<1>7. EitherWay'
  BY <1>1, <1>4, <1>5 DEF EitherWay, Rest
<1>8. There'
  BY <1>1, <1>4, ChangesThere DEF There
<1>9. Found'
  <2>1. ASSUME col'.whole
        PROVE  Seen' \subseteq Pending'
    <3>1. Seen' \subseteq {p \in Paths \ Renamed(R) : Differs(p)}
      BY <1>1, <1>4, <2>1, SameDir DEF Seen
    <3>2. {c.path : c \in Changes(dir, Renamed(R), TRUE, TRUE)} \subseteq Pending'
      BY <1>4, <2>1 DEF Pending
    <3> QED
      BY <3>1, <3>2, ChangesSeen
  <2> QED
    BY <2>1 DEF Found
<1> QED
  BY <1>5, <1>6, <1>7, <1>8, <1>9 DEF Rest

\* A path that has no artifact of git's yet gets one.
LEMMA FileAppended ==
  ASSUME TypeOK, Rest, wk.pc = "collecting", wk' = wk, col'.pc # "diff",
         NEW p \in Paths \ Told("git_diff"), NEW x \in Artifacts(wk.att),
         x.attempt = wk.att, x.path = p, x.source = "git_diff",
         x.content # None =>
           ~ x.stored /\ x.content \in Paths \X (-1 .. wk.att) \X Sizes,
         arts' = Append(arts, x)
  PROVE  /\ Kept' /\ Past' /\ Once'
         /\ Told("mcp")' = Told("mcp")
         /\ Told("git_diff")' = Told("git_diff") \cup {p}
<1>1. wk.att \in Nat /\ arts \in Seq(Artifacts(wk.att))
  BY DEF TypeOK
<1>2. /\ Grows({x})
      /\ \E n \in DOMAIN arts' : n \notin DOMAIN arts /\ arts'[n] = x
      /\ \A m, n \in DOMAIN arts' \ DOMAIN arts : m = n
  BY <1>1, AppendGrows
<1>3. /\ DOMAIN arts \subseteq DOMAIN arts'
      /\ \A n \in DOMAIN arts : arts'[n] = arts[n]
      /\ \A n \in DOMAIN arts' \ DOMAIN arts : arts'[n] = x
  BY <1>2 DEF Grows
<1>4. Kept'
  BY <1>3 DEF Kept, Rest
<1>5. Past'
  BY DEF Past
<1>6. Once'
  <2>1. \A n \in DOMAIN arts : ~ (/\ arts[n].source = "git_diff"
                                  /\ arts[n].attempt = wk.att /\ arts[n].path = p)
    BY DEF Told
  <2>2. Once
    BY DEF Rest
  <2> SUFFICES ASSUME NEW m \in DOMAIN arts', NEW n \in DOMAIN arts',
                      arts'[m].source = "git_diff", arts'[n].source = "git_diff",
                      arts'[m].attempt = arts'[n].attempt,
                      arts'[m].path = arts'[n].path, arts'[m].path \in Paths
               PROVE  m = n
    BY DEF Once
  <2>3. CASE m \in DOMAIN arts /\ n \in DOMAIN arts
    BY <1>3, <2>2, <2>3 DEF Once
  <2>4. CASE m \in DOMAIN arts /\ n \notin DOMAIN arts
    BY <1>3, <2>1, <2>4
  <2>5. CASE m \notin DOMAIN arts /\ n \in DOMAIN arts
    BY <1>3, <2>1, <2>5
  <2>6. CASE m \notin DOMAIN arts /\ n \notin DOMAIN arts
    BY <1>2, <2>6
  <2> QED
    BY <2>3, <2>4, <2>5, <2>6
<1>7. Told("mcp")' = Told("mcp")
  BY <1>3 DEF Told
<1>8. Told("git_diff")' = Told("git_diff") \cup {p}
  <2>1. Told("git_diff") \subseteq Told("git_diff")'
    BY <1>3 DEF Told
  <2>2. p \in Told("git_diff")'
    BY <1>2 DEF Told
  <2>3. Told("git_diff")' \subseteq Told("git_diff") \cup {p}
    BY <1>3 DEF Told
  <2> QED
    BY <2>1, <2>2, <2>3
<1> QED
  BY <1>4, <1>5, <1>6, <1>7, <1>8

LEMMA CollectChangeStep ==
  ASSUME TypeOK, Rest, CollectChange
  PROVE  Rest'
<1>1. /\ wk.pc = "collecting" /\ wk' = wk /\ dir' = dir
      /\ col.pc = "changes" /\ col.att = wk.att
  BY Fields DEF CollectChange, Rest, Together
<1> DEFINE known(c) == ArtifactExistsByPath(col.att, c.path)
<1>2. PICK c \in col.todo :
        /\ col' = [col EXCEPT !.todo = @ \ {c}, !.at = c.path,
                              !.pc = IF c.status = "A" /\ ~ known(c) THEN "store" ELSE @]
        /\ arts' = IF c.status = "A" \/ known(c) THEN arts
                   ELSE Append(arts, Artifact(col.att, c.path, "git_diff", c.status,
                                              None, FALSE))
  BY DEF CollectChange
<1>3. c.path \in Paths /\ c.status \in {"A", "D", "M"}
  BY Fields DEF Change
<1>4. /\ col'.att = wk.att /\ col'.whole = col.whole /\ col'.todo = col.todo \ {c}
      /\ col'.moved = col.moved
      /\ col'.at = c.path
      /\ col'.pc = IF c.status = "A" /\ ~ known(c) THEN "store" ELSE "changes"
  BY <1>1, <1>2, Fields
<1>5. known(c) <=> \E n \in DOMAIN arts : arts[n].attempt = wk.att /\ arts[n].path = c.path
  BY <1>1 DEF ArtifactExistsByPath
<1>6. \A source \in {"mcp", "git_diff"} : c.path \in Told(source) => known(c)
  BY <1>5 DEF Told
<1>7. known(c) => c.path \in Told("mcp") \cup Told("git_diff")
  <2>1. \A n \in DOMAIN arts : arts[n].source \in {"mcp", "git_diff"}
    <3>1. \A n \in DOMAIN arts : arts[n] \in Artifacts(wk.att)
      BY DEF TypeOK
    <3> QED
      BY <3>1 DEF Artifacts
  <2> QED
    BY <1>3, <1>5, <2>1 DEF Told
<1>8. Together' /\ There'
  BY <1>1, <1>4 DEF Together, There, Rest
<1>9. Pending \subseteq Pending' \cup {c.path}
  BY <1>1, <1>4 DEF Pending
<1>10. CASE c.status = "A" \/ known(c)
  <2>1. arts' = arts
    BY <1>2, <1>10
  <2>2. Kept' /\ Once' /\ \A source : Told(source)' = Told(source)
    BY <1>1, <2>1, SameArts DEF Rest
  <2>3. Past'
    BY <1>1, <1>4, <2>1 DEF Past, Rest
  <2>4. Storing'
    BY <1>1, <1>3, <1>4, <1>6, <2>2 DEF Storing, There, Rest
  <2>5. EitherWay'
    BY <1>1, <1>4, <2>2 DEF EitherWay, Rest
  <2>6. c.path \in Told("mcp") \cup Told("git_diff") \cup Pending'
    BY <1>4, <1>7, <1>10 DEF Pending
  <2>7. Found'
    BY <1>1, <1>4, <1>9, <2>2, <2>6, SameDir DEF Found, Rest
  <2> QED
    BY <1>8, <2>2, <2>3, <2>4, <2>5, <2>7 DEF Rest
<1>11. CASE c.status # "A" /\ ~ known(c)
  <2> DEFINE x == Artifact(col.att, c.path, "git_diff", c.status, None, FALSE)
  <2>1. wk.att \in Nat /\ wk.att \in 0 .. wk.att /\ None \in Contents(wk.att)
    BY Fields DEF Contents
  <2>2. /\ x \in Artifacts(wk.att) /\ x.attempt = wk.att /\ x.path = c.path
        /\ x.source = "git_diff" /\ x.content = None
    BY <1>1, <1>3, <2>1 DEF Artifact, Artifacts
  <2>3. arts' = Append(arts, x)
    BY <1>2, <1>11
  <2> HIDE DEF x
  <2>4. c.path \in Paths \ Told("git_diff") /\ c.path \notin Told("mcp")
    BY <1>3, <1>6, <1>11
  <2>5. col'.pc = "changes"
    BY <1>4, <1>11
  <2>6. /\ Kept' /\ Past' /\ Once'
        /\ Told("mcp")' = Told("mcp")
        /\ Told("git_diff")' = Told("git_diff") \cup {c.path}
    BY <1>1, <2>2, <2>3, <2>4, <2>5, FileAppended
  <2>7. Storing'
    BY <2>5 DEF Storing
  <2>8. EitherWay'
    BY <1>1, <1>4, <2>4, <2>6 DEF EitherWay, Rest
  <2>9. Found'
    BY <1>1, <1>4, <1>9, <2>6, SameDir DEF Found, Rest
  <2> QED
    BY <1>8, <2>6, <2>7, <2>8, <2>9 DEF Rest
<1> QED
  BY <1>10, <1>11

LEMMA StoreFileStep ==
  ASSUME TypeOK, Rest, StoreFile
  PROVE  Rest'
<1>1. /\ wk.pc = "collecting" /\ wk' = wk /\ dir' = dir
      /\ col.pc = "store" /\ col.att = wk.att
      /\ col'.att = wk.att /\ col'.whole = col.whole /\ col'.todo = col.todo
      /\ col'.moved = col.moved /\ col'.pc = "changes"
  BY Fields DEF StoreFile, Rest, Together
<1>2. /\ col.at \in Paths \ Told("git_diff")
      /\ col.whole => col.at \notin Told("mcp") /\ dir.files[col.at] # None
  BY <1>1 DEF Rest, Storing
<1>3. Together' /\ There' /\ Storing'
  BY <1>1 DEF Together, There, Storing, Rest
<1>4. Pending = Pending' \cup {col.at}
  BY <1>1 DEF Pending
<1>5. CASE dir.files[col.at] = None
  <2>1. arts' = arts
    BY <1>5 DEF StoreFile
  <2>2. Kept' /\ Once' /\ \A source : Told(source)' = Told(source)
    BY <1>1, <2>1, SameArts DEF Rest
  <2>3. Past'
    BY <1>1, <2>1 DEF Past, Rest
  <2>4. EitherWay' /\ Found'
    BY <1>1, <1>2, <1>5, Fields DEF EitherWay, Found
  <2> QED
    BY <1>3, <2>2, <2>3, <2>4 DEF Rest
<1>6. CASE dir.files[col.at] # None
  <2> DEFINE content == IF col.at \in Big THEN None ELSE dir.files[col.at]
             large == col.at \in Big
             x == Artifact(col.att, col.at, "git_diff", "A", content, large)
  <2>1. wk.att \in Nat /\ wk.att \in 0 .. wk.att /\ None \in Contents(wk.att)
    BY Fields DEF Contents
  <2>2. dir.files[col.at] \in Contents(wk.att)
    BY <1>2, DirFields DEF TypeOK
  <2>3. content \in Contents(wk.att) /\ large \in BOOLEAN
    BY <2>1, <2>2
  <2>4. content # None => ~ large /\ content \in Paths \X (-1 .. wk.att) \X Sizes
    BY <2>2 DEF Contents
  <2>5. arts' = Append(arts, x)
    BY <1>6 DEF StoreFile
  <2> HIDE DEF content, large
  <2>6. /\ x \in Artifacts(wk.att) /\ x.attempt = wk.att /\ x.path = col.at
        /\ x.source = "git_diff" /\ x.content = content /\ x.stored = large
    BY <1>1, <1>2, <2>1, <2>3 DEF Artifact, Artifacts
  <2> HIDE DEF x
  <2>7. /\ Kept' /\ Past' /\ Once'
        /\ Told("mcp")' = Told("mcp")
        /\ Told("git_diff")' = Told("git_diff") \cup {col.at}
    BY <1>1, <1>2, <2>4, <2>5, <2>6, FileAppended
  <2>8. EitherWay'
    BY <1>1, <1>2, <2>7 DEF EitherWay, Rest
  <2>9. Found'
    BY <1>1, <1>4, <2>7, SameDir DEF Found, Rest
  <2> QED
    BY <1>3, <2>7, <2>8, <2>9 DEF Rest
<1> QED
  BY <1>5, <1>6

LEMMA CollectEndsStep ==
  ASSUME TypeOK, Rest, CollectEnds
  PROVE  Rest'
<1>1. /\ wk.pc = "collecting" /\ wk' = wk /\ dir' = dir /\ arts' = arts
      /\ col.pc = "changes" /\ col.att = wk.att /\ col.todo = {}
      /\ col'.att = wk.att /\ col'.whole = col.whole /\ col'.todo = {}
      /\ col'.moved = col.moved /\ col'.pc = "idle"
  BY Fields DEF CollectEnds, Rest, Together
<1>2. Kept' /\ Once' /\ \A source : Told(source)' = Told(source)
  BY <1>1, SameArts DEF Rest
<1>3. Past' /\ Together' /\ Storing' /\ There'
  BY <1>1 DEF Past, Together, Storing, There, Rest
<1>4. Pending' = Pending
  BY <1>1 DEF Pending
<1>5. EitherWay' /\ Found'
  BY <1>1, <1>2, <1>4, SameDir DEF EitherWay, Found, Rest
<1> QED
  BY <1>2, <1>3, <1>5 DEF Rest

LEMMA SettleStep ==
  ASSUME TypeOK, Rest, Settle
  PROVE  Rest'
<1>1. /\ wk'.pc = "idle" /\ wk'.att = wk.att + 1 /\ col' = col /\ arts' = arts
      /\ col.pc = "idle" /\ col.todo = {}
  BY Fields DEF Settle, Rest, Together
<1>2. Kept' /\ Once'
  BY <1>1, SameArts DEF Rest
<1>3. Together' /\ Storing' /\ EitherWay' /\ There' /\ Found'
  BY <1>1 DEF Together, Storing, EitherWay, There, Found
<1>4. Past'
  <2>1. \A n \in DOMAIN arts : arts[n].attempt < wk.att + 1
    BY Fields
  <2> QED
    BY <1>1, <2>1 DEF Past
<1> QED
  BY <1>2, <1>3, <1>4 DEF Rest

LEMMA HelperActsStep ==
  ASSUME TypeOK, Rest, HelperActs
  PROVE  Rest'
<1>1. /\ wk.pc = "collecting" /\ wk' = wk /\ col'.whole = FALSE /\ col'.pc = col.pc
      /\ col'.att = col.att /\ col'.todo = col.todo /\ col'.at = col.at
  BY Fields DEF HelperActs
<1>2. /\ Kept' /\ Once' /\ Told("git_diff")' \subseteq Told("git_diff")
      /\ \A n \in DOMAIN arts' : arts'[n].source = "git_diff" =>
           n \in DOMAIN arts /\ arts'[n] = arts[n]
  <2>1. CASE arts' = arts
    BY <1>1, <2>1, SameArts DEF Rest
  <2>2. ASSUME NEW p \in Paths, arts' = arts \o Reported(wk.att, {p})
        PROVE  Grows(Reports(wk.att, {p}))
    <3>1. /\ wk.att \in Nat /\ wk.att \in 0 .. wk.att /\ arts \in Seq(Artifacts(wk.att))
          /\ {p} \in SUBSET Paths
      BY DEF TypeOK
    <3> QED
      BY <2>2, <3>1, ReportsGrow
  <2>3. ASSUME NEW p \in Paths, Grows(Reports(wk.att, {p}))
        PROVE  /\ Kept' /\ Once' /\ Told("git_diff")' \subseteq Told("git_diff")
               /\ \A n \in DOMAIN arts' : arts'[n].source = "git_diff" =>
                    n \in DOMAIN arts /\ arts'[n] = arts[n]
    <3>1. {p} \in SUBSET Paths
      OBVIOUS
    <3> QED
      BY <1>1, <2>3, <3>1, ReportsHarmless DEF Rest
  <2> QED
    BY <2>1, <2>2, <2>3 DEF HelperActs
<1>3. Together' /\ EitherWay' /\ There' /\ Found'
  BY <1>1 DEF Together, EitherWay, There, Found, Rest
<1>4. Storing'
  BY <1>1, <1>2 DEF Storing, Rest
<1>5. Past'
  BY <1>1, <1>2 DEF Past, Rest
<1> QED
  BY <1>2, <1>3, <1>4, <1>5 DEF Rest

LEMMA DeleteStep ==
  ASSUME TypeOK, Rest, Delete
  PROVE  Rest'
<1>1. /\ wk' = wk /\ col'.whole = FALSE /\ col'.pc = col.pc /\ arts' = <<>>
      /\ col'.att = col.att /\ col'.todo = col.todo /\ col'.at = col.at
  BY Fields DEF Delete
<1>2. DOMAIN arts' = {}
  BY <1>1
<1>3. Kept' /\ Once' /\ Past'
  BY <1>2 DEF Kept, Once, Past
<1>4. \A source : Told(source)' = {}
  BY <1>2 DEF Told
<1>5. Together' /\ Storing' /\ EitherWay' /\ There' /\ Found'
  BY <1>1, <1>4 DEF Together, Storing, EitherWay, There, Found, Rest
<1> QED
  BY <1>3, <1>5 DEF Rest

LEMMA Step == IInv /\ [Next]_vars => IInv'
<1> SUFFICES ASSUME IInv, [Next]_vars
             PROVE  IInv'
  OBVIOUS
<1>1. TypeOK /\ Rest
  BY DEF IInv, Rest
<1>2. CASE Next
  <2>1. TypeOK'
    BY <1>1, <1>2, TypeStep DEF Rest
  <2>2. Rest'
    BY <1>1, <1>2, StartStep, AgentActsStep, AgentReportsStep, AgentEndsStep,
       CollectDiffStep, CollectChangeStep, StoreFileStep, CollectEndsStep, SettleStep,
       HelperActsStep, DeleteStep
       DEF Next
  <2> QED
    BY <2>1, <2>2 DEF IInv, Rest
<1>3. CASE UNCHANGED vars
  <2>1. TypeOK'
    BY <1>1, <1>3 DEF vars, TypeOK
  <2>2. /\ \A source : Told(source)' = Told(source)
        /\ Pending' = Pending /\ Seen' = Seen
    BY <1>3, SameArts, SameDir DEF vars, Pending
  <2>3. Rest'
    BY <1>1, <1>3, <2>2
       DEF vars, Rest, Together, Kept, Past, Once, Storing, EitherWay, There, Found
  <2> QED
    BY <2>1, <2>3 DEF IInv, Rest
<1> QED
  BY <1>2, <1>3

-----------------------------------------------------------------------------
(* What follows. *)

LEMMA KeptContents ==
  ASSUME Kept, TypeOK
  PROVE  ContentOfAttempt
<1> SUFFICES ASSUME NEW n \in DOMAIN arts, HasText(arts[n].content)
             PROVE  HasText(Raw(n)) /\ Raw(n)[2] <= arts[n].attempt
  BY DEF ContentOfAttempt
<1>1. ~ arts[n].stored /\ arts[n].content \in Paths \X (-1 .. arts[n].attempt) \X Sizes
  BY DEF Kept, HasText
<1>2. Raw(n) = arts[n].content
  BY <1>1 DEF Raw
<1>3. arts[n].content[2] \in -1 .. arts[n].attempt /\ arts[n].attempt \in 0 .. wk.att
  BY <1>1, Fields
<1> QED
  BY <1>2, <1>3

LEMMA OneOfGit ==
  ASSUME Once, NEW a, NEW p \in Paths
  PROVE  Cardinality(Of(a, p, "git_diff")) <= 1
<1> DEFINE O == Of(a, p, "git_diff")
<1>1. \A m, n \in O : m = n
  BY DEF Of, Once
<1> HIDE DEF O
<1>2. CASE O = {}
  <2>1. Cardinality(O) = 0
    BY <1>2, FS_EmptySet
  <2> QED
    BY <2>1 DEF O
<1>3. CASE O # {}
  <2>1. PICK n \in O : O = {n}
    BY <1>1, <1>3
  <2>2. Cardinality(O) = 1
    BY <2>1, FS_Singleton
  <2> QED
    BY <2>2 DEF O
<1> QED
  BY <1>2, <1>3

LEMMA CompleteFollows ==
  ASSUME IInv
  PROVE  ArtifactsComplete
<1>1. \A a \in 0 .. wk.att, p \in Paths : Cardinality(Of(a, p, "git_diff")) <= 1
  BY OneOfGit DEF IInv
<1>2. \A p \in Paths, source \in {"mcp", "git_diff"} :
        p \in Told(source) <=> Of(wk.att, p, source) # {}
  BY DEF Told, Of
<1>3. ASSUME wk.pc = "collecting", col.pc = "idle", col.whole,
             NEW p \in Paths \ col.moved
      PROVE  /\ Of(wk.att, p, "mcp") = {} \/ Of(wk.att, p, "git_diff") = {}
             /\ Differs(p) => Of(wk.att, p, "mcp") \cup Of(wk.att, p, "git_diff") # {}
  <2>1. Told("mcp") \cap Told("git_diff") = {}
    BY <1>3 DEF IInv, EitherWay
  <2>2. Pending = {}
    BY <1>3 DEF IInv, Together, Pending
  <2>3. Differs(p) => p \in Told("mcp") \cup Told("git_diff")
    BY <1>3, <2>2 DEF IInv, Found, Seen
  <2> QED
    BY <1>2, <2>1, <2>3
<1> QED
  BY <1>1, <1>3 DEF ArtifactsComplete
-----------------------------------------------------------------------------
(* The theorems. *)

LEMMA Invariance == Spec => []IInv
<1> QED
  BY Initially, Step, PTL DEF Spec

\* Everything AttemptFiles keeps stays of its type, whatever the agents, the
\* helpers they leave behind and the deletion of the issue do.
THEOREM FilesTypeCorrect == Spec => []TypeOK
<1>1. IInv => TypeOK
  BY DEF IInv
<1> QED
  BY <1>1, Invariance, PTL

\* For any paths and any number of attempts: an artifact that was kept with
\* text in it is shown as the file was in its own attempt, never as a later one
\* made it (persistFileArtifact in artifact-collector.ts, the raw route).
THEOREM ContentOfAttemptTheorem == Spec => []ContentOfAttempt
<1>1. IInv => ContentOfAttempt
  BY KeptContents DEF IInv
<1> QED
  BY <1>1, Invariance, PTL

\* For any paths and any number of attempts: an attempt's finished collection
\* that nothing interfered with has every path that differs from the last
\* commit, once from git or as the agent reported it, but for those that git,
\* however it pairs them, answers to be renames (collectAllArtifacts in
\* artifact-collector.ts, session_completed in mcp/tools.ts).
THEOREM ArtifactsCompleteTheorem == Spec => []ArtifactsComplete
<1>1. IInv => ArtifactsComplete
  BY CompleteFollows
<1> QED
  BY <1>1, Invariance, PTL
=============================================================================
