---------------------------- MODULE SourceProofs ----------------------------
(***************************************************************************)
(* Where the files of a stack come from: the theorems of Workspaces and    *)
(* LocalStacks, for every value of their constants.                        *)
(***************************************************************************)
EXTENDS Workspaces, LocalStacks, TLAPS

(***************************************************************************)
(* The working tree of a repository, for any number of goroutines,         *)
(* sources, pushes and attempts. The lock protects those that ask for it,  *)
(* and three kinds of goroutine do not; strayed and haunted record that    *)
(* one of them has been at the tree. The invariant says where the          *)
(* goroutines of a kind can be, that the lock has one writer, what the     *)
(* tree is at for a sync at each of its steps, and that whoever waited     *)
(* behind the removal finds no record and no tree.                         *)
(***************************************************************************)

TaskRows == [kind : Kinds, at : Places, lock : 0 .. 1, source : Sources,
             tries : 0 .. MaxTries - 1, target : Commits, sha : Commits]
RecordRows == [exists : BOOLEAN, source : Sources, sha : Commits, edits : 0 .. MaxEdits + 1]
DiskRows == [git : BOOLEAN, source : Sources, at : Commits]

WorkspaceTypes ==
  /\ record \in RecordRows /\ disk \in DiskRows /\ task \in [Tasks -> TaskRows]
  /\ head \in 1 .. MaxPushes + 1 /\ entry \in 0 .. 1
  /\ stacked \in BOOLEAN /\ ticking \in BOOLEAN /\ strayed \in BOOLEAN /\ haunted \in BOOLEAN

\* Where the goroutines of a kind can be.
UnlockedPlaces == {"try", "clone", "cloning", "fetch", "reset", "resetting"}
FetchPlaces == UnlockedPlaces \cup {"lock", "rlock", "reading", "load", "stat", "clear", "head", "save"}
Placed(r) ==
  /\ r.kind = "none" => r.at = "idle"
  /\ r.kind \in Unlocked => r.at \in UnlockedPlaces
  /\ r.kind = "rollback" => r.at \in {"lock", "reset", "resetting"}
  /\ r.kind = "remove" => r.at \in {"lock", "remove"}
  /\ r.kind \in Fetches \cup Syncs => r.at \in FetchPlaces
  /\ r.at = "resetting" => r.target # NoCommit
  /\ r.at = "reset" /\ r.kind # "rollback" => r.target # NoCommit
  /\ r.lock = 0
PlacesInv == \A t \in Tasks : Placed(task[t])

\* A repository is created once and removed once.  The lock that its removal leaves
\* to later callers is one that nobody asks for: nothing begins without the record.
LifeInv ==
  /\ record.exists => entry = 0 /\ record.edits # 0
  /\ record.edits = 0 => entry = 0
  /\ \A t \in Tasks : task[t].kind = "remove" =>
       /\ ~record.exists /\ entry = 0 /\ record.edits # 0
       /\ \A u \in Tasks : task[u].kind = "remove" => u = t
  /\ ticking \/ stacked => record.exists

\* The lock.
MutexInv == \A t, u \in Tasks : t # u /\ Writes(t) => ~Writes(u) /\ ~Reads(u)

\* The tree, while nobody but FetchRepo moves it.
TreeInv ==
  ~strayed =>
    /\ \A t \in Tasks :
         /\ TornBy(t) => task[t].kind \in Fetches \cup Syncs
         /\ task[t].at = "head" => disk.git /\ disk.at # NoCommit
         /\ task[t].at \in {"save", "reading"} => disk.git /\ disk.at = task[t].sha
    /\ disk.git /\ record.sha # NoCommit =>
         disk.at = record.sha \/ \E t \in Tasks : task[t].at \in {"cloning", "head", "save"}

\* Whoever waited behind the removal finds no record and no tree.
RemovedInv ==
  entry = 1 /\ ~haunted =>
    /\ ~disk.git
    /\ \A t \in Tasks : /\ task[t].kind \notin Unlocked
                        /\ \/ task[t].at \in {"idle", "lock", "rlock", "load"}
                           \/ task[t].at = "reset" /\ task[t].kind = "rollback"

WorkspacesInv == WorkspaceTypes /\ PlacesInv /\ LifeInv /\ MutexInv /\ TreeInv /\ RemovedInv

\* A commit that exists is not the absence of one.
LEMMA CommitFacts ==
  /\ NoCommit \in Commits /\ Gone \in DiskRows /\ Gone.git = FALSE
  /\ Resting \in TaskRows /\ Resting.kind = "none" /\ Resting.at = "idle" /\ Resting.lock = 0
  /\ \A s \in Sources, n \in 1 .. MaxPushes + 1 : <<s, n>> \in Commits /\ <<s, n>> # NoCommit
<1>1. NoCommit \in Commits
  BY Zenon DEF Commits
<1>2. Gone \in DiskRows /\ Gone.git = FALSE
  BY <1>1, WorkspacesAssumption, Zenon DEF Gone, DiskRows
<1>3. Resting \in TaskRows /\ Resting.kind = "none" /\ Resting.at = "idle" /\ Resting.lock = 0
  BY <1>1, WorkspacesAssumption DEF Resting, TaskRows, Kinds, Places
<1>4. ASSUME NEW s \in Sources, NEW n \in 1 .. MaxPushes + 1 PROVE <<s, n>> \in Commits /\ <<s, n>> # NoCommit
  <2>1. <<s, n>> # NoCommit
    <3>1. <<s, n>>[2] = n /\ NoCommit[2] = 0
      BY Zenon DEF NoCommit
    <3>2. n # 0
      BY WorkspacesAssumption
    <3> QED BY <3>1, <3>2, Zenon
  <2> QED BY <2>1, Zenon DEF Commits
<1> QED BY <1>1, <1>2, <1>3, <1>4, Zenon

\* A task's row is replaced.
LEMMA RowStep ==
  ASSUME task \in [Tasks -> TaskRows], NEW t \in Tasks, NEW g \in TaskRows, task' = [task EXCEPT ![t] = g]
  PROVE  task' \in [Tasks -> TaskRows] /\ task'[t] = g /\ \A u \in Tasks \ {t} : task'[u] = task[u]
  BY Zenon

\* The forms a step of one task takes.
LEMMA ToStep ==
  ASSUME task \in [Tasks -> TaskRows], NEW t \in Tasks, NEW place \in Places, To(t, place)
  PROVE  /\ task' \in [Tasks -> TaskRows] /\ \A u \in Tasks \ {t} : task'[u] = task[u]
         /\ task'[t].at = place /\ task'[t].kind = task[t].kind /\ task'[t].lock = task[t].lock
         /\ task'[t].target = task[t].target /\ task'[t].sha = task[t].sha
<1>1. PICK e \in TaskRows : e = task[t]
  BY Zenon
<1>2. PICK g : g = [e EXCEPT !.at = place]
  BY Zenon
<1>3. task' = [task EXCEPT ![t] = g]
  BY <1>1, <1>2, Zenon DEF To
<1>4. g \in TaskRows /\ g.at = place /\ g.kind = e.kind /\ g.lock = e.lock /\ g.target = e.target /\ g.sha = e.sha
  BY <1>1, <1>2, Zenon DEF TaskRows
<1> QED BY <1>1, <1>3, <1>4, Zenon

\* A commit is noted.
LEMMA ShaStep ==
  ASSUME task \in [Tasks -> TaskRows], NEW t \in Tasks, NEW place \in Places, NEW c \in Commits,
         task' = [task EXCEPT ![t].at = place, ![t].sha = c]
  PROVE  /\ task' \in [Tasks -> TaskRows] /\ \A u \in Tasks \ {t} : task'[u] = task[u]
         /\ task'[t].at = place /\ task'[t].kind = task[t].kind /\ task'[t].lock = task[t].lock
         /\ task'[t].sha = c /\ task'[t].target = task[t].target
<1>1. PICK e \in TaskRows : e = task[t]
  BY Zenon
<1>2. PICK g : g = [e EXCEPT !.at = place, !.sha = c]
  BY Zenon
<1>3. task' = [task EXCEPT ![t] = g]
  BY <1>1, <1>2, Zenon
<1>4. g \in TaskRows /\ g.at = place /\ g.kind = e.kind /\ g.lock = e.lock /\ g.sha = c /\ g.target = e.target
  BY <1>1, <1>2, Zenon DEF TaskRows
<1> QED BY <1>1, <1>3, <1>4, Zenon

\* What the tree will be reset to is noted.
LEMMA TargetStep ==
  ASSUME task \in [Tasks -> TaskRows], NEW t \in Tasks, NEW place \in Places, NEW c \in Commits,
         task' = [task EXCEPT ![t].at = place, ![t].target = c]
  PROVE  /\ task' \in [Tasks -> TaskRows] /\ \A u \in Tasks \ {t} : task'[u] = task[u]
         /\ task'[t].at = place /\ task'[t].kind = task[t].kind /\ task'[t].lock = task[t].lock
         /\ task'[t].sha = task[t].sha /\ task'[t].target = c
<1>1. PICK e \in TaskRows : e = task[t]
  BY Zenon
<1>2. PICK g : g = [e EXCEPT !.at = place, !.target = c]
  BY Zenon
<1>3. task' = [task EXCEPT ![t] = g]
  BY <1>1, <1>2, Zenon
<1>4. g \in TaskRows /\ g.at = place /\ g.kind = e.kind /\ g.lock = e.lock /\ g.sha = e.sha /\ g.target = c
  BY <1>1, <1>2, Zenon DEF TaskRows
<1> QED BY <1>1, <1>3, <1>4, Zenon

\* The source is noted.
LEMMA SourceStep ==
  ASSUME task \in [Tasks -> TaskRows], NEW t \in Tasks, NEW place \in Places, NEW s \in Sources,
         task' = [task EXCEPT ![t].at = place, ![t].source = s]
  PROVE  /\ task' \in [Tasks -> TaskRows] /\ \A u \in Tasks \ {t} : task'[u] = task[u]
         /\ task'[t].at = place /\ task'[t].kind = task[t].kind /\ task'[t].lock = task[t].lock
         /\ task'[t].sha = task[t].sha /\ task'[t].target = task[t].target
<1>1. PICK e \in TaskRows : e = task[t]
  BY Zenon
<1>2. PICK g : g = [e EXCEPT !.at = place, !.source = s]
  BY Zenon
<1>3. task' = [task EXCEPT ![t] = g]
  BY <1>1, <1>2, Zenon
<1>4. g \in TaskRows /\ g.at = place /\ g.kind = e.kind /\ g.lock = e.lock /\ g.sha = e.sha /\ g.target = e.target
  BY <1>1, <1>2, Zenon DEF TaskRows
<1> QED BY <1>1, <1>3, <1>4, Zenon

\* An attempt is counted.
LEMMA TriesStep ==
  ASSUME task \in [Tasks -> TaskRows], NEW t \in Tasks, NEW place \in Places, NEW n \in 0 .. MaxTries - 1,
         task' = [task EXCEPT ![t].at = place, ![t].tries = n]
  PROVE  /\ task' \in [Tasks -> TaskRows] /\ \A u \in Tasks \ {t} : task'[u] = task[u]
         /\ task'[t].at = place /\ task'[t].kind = task[t].kind /\ task'[t].lock = task[t].lock
         /\ task'[t].sha = task[t].sha /\ task'[t].target = task[t].target
<1>1. PICK e \in TaskRows : e = task[t]
  BY Zenon
<1>2. PICK g : g = [e EXCEPT !.at = place, !.tries = n]
  BY Zenon
<1>3. task' = [task EXCEPT ![t] = g]
  BY <1>1, <1>2, Zenon
<1>4. g \in TaskRows /\ g.at = place /\ g.kind = e.kind /\ g.lock = e.lock /\ g.sha = e.sha /\ g.target = e.target
  BY <1>1, <1>2, Zenon DEF TaskRows
<1> QED BY <1>1, <1>3, <1>4, Zenon

\* A task ends.
LEMMA AbandonStep ==
  ASSUME task \in [Tasks -> TaskRows], NEW t \in Tasks, Abandoned(t)
  PROVE  /\ task' \in [Tasks -> TaskRows] /\ \A u \in Tasks \ {t} : task'[u] = task[u]
         /\ task'[t].at = "idle" /\ task'[t].kind = "none" /\ task'[t].lock = 0 /\ Placed(task'[t])
<1>1. task'[t] = Resting /\ \A u \in Tasks \ {t} : task'[u] = task[u]
  BY Zenon DEF Abandoned
<1>2. task' \in [Tasks -> TaskRows]
  BY CommitFacts, Zenon DEF Abandoned
<1>3. Placed(Resting)
  BY CommitFacts, Zenon DEF Placed, Unlocked, Fetches, Syncs
<1> QED BY <1>1, <1>2, <1>3, CommitFacts, Zenon

\* An attempt fails: it is made again, or the task ends.
LEMMA FailedStep ==
  ASSUME task \in [Tasks -> TaskRows], NEW t \in Tasks, Failed(t)
  PROVE  /\ task' \in [Tasks -> TaskRows] /\ \A u \in Tasks \ {t} : task'[u] = task[u]
         /\ \/ /\ task'[t].at = "try" /\ task'[t].kind = task[t].kind /\ task'[t].lock = task[t].lock
               /\ task[t].kind \notin Unlocked
            \/ task'[t].at = "idle" /\ task'[t].kind = "none" /\ task'[t].lock = 0 /\ Placed(task'[t])
<1>1. CASE Abandoned(t)
  BY <1>1, AbandonStep, Zenon
<1>2. CASE /\ task[t].kind \notin Unlocked /\ task[t].tries + 1 < MaxTries
           /\ task' = [task EXCEPT ![t].at = "try", ![t].tries = @ + 1]
  <2>1. task[t].tries \in 0 .. MaxTries - 1
    BY Zenon DEF TaskRows
  <2>2. PICK n \in 0 .. MaxTries - 1 : n = task[t].tries + 1
    BY <1>2, <2>1, WorkspacesAssumption
  <2>3. task' = [task EXCEPT ![t].at = "try", ![t].tries = n]
    BY <1>2, <2>2, Zenon
  <2>4. "try" \in Places
    BY Zenon DEF Places, Exclusive
  <2> QED BY <1>2, <2>3, <2>4, TriesStep, Zenon
<1> QED BY <1>1, <1>2, Zenon DEF Failed

\* The lock is exclusive as long as it is taken from nobody.
LEMMA LockStep ==
  ASSUME MutexInv, PlacesInv, NEW t \in Tasks, \A u \in Tasks \ {t} : task'[u] = task[u],
         Writes(t)' => Writes(t) \/ NoHolder(t), Reads(t)' => Reads(t) \/ NoWriter(t)
  PROVE  MutexInv'
<1>1. \A u \in Tasks : task[u].lock = 0
  BY Zenon DEF PlacesInv, Placed
<1>2. \A u \in Tasks \ {t} : (Writes(u)' <=> Writes(u)) /\ (Reads(u)' <=> Reads(u))
  BY Zenon DEF Writes, Reads
<1>3. NoHolder(t) => \A u \in Tasks \ {t} : ~Writes(u) /\ ~Reads(u)
  BY <1>1, Zenon DEF NoHolder, Shares
<1>4. NoWriter(t) => \A u \in Tasks \ {t} : ~Writes(u)
  BY <1>1, Zenon DEF NoWriter, Shares
<1> SUFFICES ASSUME NEW u \in Tasks, NEW v \in Tasks, u # v, Writes(u)' PROVE ~Writes(v)' /\ ~Reads(v)'
  BY Zenon DEF MutexInv
<1>5. CASE u # t /\ v # t
  BY <1>2, <1>5, Zenon DEF MutexInv
<1>6. CASE u = t
  BY <1>2, <1>3, <1>6, Zenon DEF MutexInv
<1>7. CASE v = t
  BY <1>2, <1>3, <1>4, <1>7, Zenon DEF MutexInv
<1> QED BY <1>5, <1>6, <1>7, Zenon

\* A step of one task, all of it.
LEMMA TaskStep ==
  ASSUME WorkspacesInv, NEW t \in Tasks, task' \in [Tasks -> TaskRows],
         \A u \in Tasks \ {t} : task'[u] = task[u], Placed(task'[t]),
         head' = head, entry' = entry, haunted' = haunted, stacked' = stacked,
         ticking' \in BOOLEAN, record' \in RecordRows, disk' \in DiskRows, strayed' \in BOOLEAN,
         Writes(t)' => Writes(t) \/ NoHolder(t), Reads(t)' => Reads(t) \/ NoWriter(t),
         LifeInv', TreeInv',
         entry = 1 /\ ~haunted =>
           /\ ~disk'.git /\ task'[t].kind \notin Unlocked
           /\ task'[t].at \in {"idle", "lock", "rlock", "load"} \/ (task'[t].at = "reset" /\ task'[t].kind = "rollback")
  PROVE  WorkspacesInv'
<1>1. WorkspaceTypes'
  BY Zenon DEF WorkspacesInv, WorkspaceTypes
<1>2. PlacesInv'
  BY Zenon DEF WorkspacesInv, PlacesInv
<1>3. MutexInv'
  BY LockStep, Zenon DEF WorkspacesInv
<1>4. RemovedInv'
  BY Zenon DEF WorkspacesInv, RemovedInv
<1> QED BY <1>1, <1>2, <1>3, <1>4, Zenon DEF WorkspacesInv

\* A step of a task that is not about the record's life.
LEMMA LifeStep ==
  ASSUME LifeInv, NEW t \in Tasks, \A u \in Tasks \ {t} : task'[u] = task[u],
         entry' = entry, ticking' = ticking, stacked' = stacked, record'.exists = record.exists,
         record'.edits = record.edits \/ (record.edits # 0 /\ record'.edits # 0),
         task'[t].kind = "remove" => task[t].kind = "remove"
  PROVE  LifeInv'
<1>1. \A u \in Tasks : task'[u].kind = "remove" => task[u].kind = "remove"
  BY Zenon
<1> QED BY <1>1, Zenon DEF LifeInv

\* A step that leaves the tree alone.
LEMMA QuietTree ==
  ASSUME TreeInv, NEW t \in Tasks, \A u \in Tasks \ {t} : task'[u] = task[u],
         disk' = disk, strayed' = strayed, record'.sha = record.sha,
         ~strayed =>
           /\ task'[t].at \notin {"cloning", "head", "save", "reading"}
           /\ task'[t].at = "resetting" => task'[t].kind \in Fetches \cup Syncs
           /\ task[t].at \notin {"cloning", "head", "save"}
  PROVE  TreeInv'
<1> SUFFICES ASSUME ~strayed PROVE TreeInv'
  BY Zenon DEF TreeInv
<1>1. ASSUME NEW u \in Tasks
      PROVE  /\ TornBy(u)' => task'[u].kind \in Fetches \cup Syncs
             /\ task'[u].at = "head" => disk.git /\ disk.at # NoCommit
             /\ task'[u].at \in {"save", "reading"} => disk.git /\ disk.at = task'[u].sha
  <2>1. CASE u = t
    BY <2>1, Zenon DEF TornBy
  <2>2. CASE u # t
    BY <2>2, Zenon DEF TreeInv, TornBy
  <2> QED BY <2>1, <2>2, Zenon
<1>2. ASSUME NEW u \in Tasks, task[u].at \in {"cloning", "head", "save"}
      PROVE  task'[u].at \in {"cloning", "head", "save"}
  BY <1>2, Zenon
<1>3. disk.git /\ record.sha # NoCommit =>
        disk.at = record.sha \/ \E u \in Tasks : task'[u].at \in {"cloning", "head", "save"}
  BY <1>2, Zenon DEF TreeInv
<1> QED BY <1>1, <1>3, Zenon DEF TreeInv

\* A goroutine starts.
LEMMA BeginStep ==
  ASSUME WorkspacesInv, entry = 0, NEW t \in Tasks, NEW kind \in Kinds, NEW place \in {"lock", "rlock", "try"},
         NEW source \in Sources, BeginTask(t, Started(kind, place, source)),
         place = "try" <=> kind = "background", place = "rlock" => kind \in Syncs, kind # "none"
  PROVE  /\ task' \in [Tasks -> TaskRows] /\ \A u \in Tasks \ {t} : task'[u] = task[u]
         /\ Placed(task'[t]) /\ task'[t].kind = kind /\ task'[t].at = place
         /\ task[t].kind = "none" /\ task[t].at = "idle" /\ ~Writes(t)' /\ ~Reads(t)'
<1>1. task \in [Tasks -> TaskRows] /\ task[t].kind = "none" /\ task[t].at = "idle"
  BY Zenon DEF WorkspacesInv, WorkspaceTypes, PlacesInv, Placed, BeginTask, FreeLock, Busy
<1>2. PICK g : g = Started(kind, place, source)
  BY Zenon
<1>3. g \in TaskRows /\ g.kind = kind /\ g.at = place /\ g.lock = 0
  <2>1. NoCommit \in Commits /\ 0 \in 0 .. MaxTries - 1 /\ place \in Places
    BY CommitFacts, WorkspacesAssumption DEF Places, Exclusive
  <2>2. PICK r \in TaskRows : r = Resting
    BY CommitFacts, Zenon
  <2>3. g = [r EXCEPT !.kind = kind, !.at = place, !.lock = 0, !.source = source]
    BY <1>2, <2>2, Zenon DEF Started
  <2>4. 0 \in 0 .. 1
    OBVIOUS
  <2> QED BY <2>1, <2>3, <2>4, Zenon DEF TaskRows
<1>4. task' \in [Tasks -> TaskRows] /\ task'[t] = g /\ \A u \in Tasks \ {t} : task'[u] = task[u]
  BY <1>1, <1>2, <1>3, RowStep, Zenon DEF BeginTask
<1>5. Placed(g)
  BY <1>3, Zenon DEF Placed, Unlocked, UnlockedPlaces, FetchPlaces, Fetches, Syncs
<1>6. ~Writes(t)' /\ ~Reads(t)'
  BY <1>3, <1>4, Zenon DEF Writes, Reads, Exclusive, Unlocked
<1> QED BY <1>1, <1>3, <1>4, <1>5, <1>6, Zenon

\* The starts that find the record.
LEMMA StartSteps ==
  ASSUME WorkspacesInv, NEW t \in Tasks,
         \/ Tick(t) \/ FetchByHand(t) \/ BeginSync(t) \/ BeginRollback(t)
         \/ BrowseFiles(t) \/ EditRepository(t)
  PROVE  WorkspacesInv'
<1>1. record \in RecordRows /\ record.source \in Sources /\ First \in Sources /\ disk \in DiskRows
  BY WorkspacesAssumption, Zenon DEF WorkspacesInv, WorkspaceTypes, RecordRows
<1>2. /\ UNCHANGED <<disk, head, entry, stacked, ticking, strayed, haunted>>
      /\ record.exists /\ entry = 0 /\ record.edits # 0
  BY Zenon DEF Tick, FetchByHand, BeginSync, BeginRollback, BrowseFiles, EditRepository, WorkspacesInv, LifeInv
<1>3. /\ record' \in RecordRows /\ record'.exists = record.exists /\ record'.sha = record.sha
      /\ record'.edits = record.edits \/ record'.edits # 0
  <2>1. CASE UNCHANGED record
    BY <1>1, <2>1, Zenon
  <2>2. ASSUME NEW s \in Sources, record.edits <= MaxEdits, record' = [record EXCEPT !.source = s, !.edits = @ + 1]
        PROVE  /\ record' \in RecordRows /\ record'.exists = record.exists /\ record'.sha = record.sha
               /\ record'.edits # 0
    <3>1. record.edits \in 0 .. MaxEdits + 1
      BY <1>1, Zenon DEF RecordRows
    <3>2. PICK n \in 0 .. MaxEdits + 1 : n = record.edits + 1 /\ n # 0
      BY <2>2, <3>1, WorkspacesAssumption
    <3>3. record' = [record EXCEPT !.source = s, !.edits = n]
      BY <2>2, <3>2, Zenon
    <3> QED BY <1>1, <3>2, <3>3, Zenon DEF RecordRows
  <2> QED BY <2>1, <2>2, Zenon DEF Tick, FetchByHand, BeginSync, BeginRollback, BrowseFiles, EditRepository
<1>4. PICK kind \in Kinds \ {"none", "remove"}, place \in {"lock", "rlock", "try"}, source \in Sources :
        /\ BeginTask(t, Started(kind, place, source))
        /\ place = "try" <=> kind = "background"
        /\ place = "rlock" => kind \in Syncs
  <2>1. CASE Tick(t) \/ FetchByHand(t) \/ BeginRollback(t)
    BY <1>1, <2>1, Zenon DEF Tick, FetchByHand, BeginRollback, Kinds, Fetches, Syncs, Unlocked
  <2>2. CASE BeginSync(t)
    BY <1>1, <2>2, Zenon DEF BeginSync, Kinds, Fetches, Syncs, Unlocked
  <2>3. CASE BrowseFiles(t) \/ EditRepository(t)
    BY <1>1, <2>3, Zenon DEF BrowseFiles, EditRepository, BackgroundClone, Kinds, Fetches, Syncs, Unlocked
  <2> QED BY <2>1, <2>2, <2>3, Zenon
<1>5. /\ task' \in [Tasks -> TaskRows] /\ \A u \in Tasks \ {t} : task'[u] = task[u]
      /\ Placed(task'[t]) /\ task'[t].kind = kind /\ task'[t].at = place
      /\ task[t].kind = "none" /\ task[t].at = "idle" /\ ~Writes(t)' /\ ~Reads(t)'
  BY <1>2, <1>4, BeginStep, Zenon
<1>6. LifeInv'
  BY <1>2, <1>3, <1>4, <1>5, LifeStep, Zenon DEF WorkspacesInv
<1>7. TreeInv'
  BY <1>2, <1>3, <1>5, QuietTree, Zenon DEF WorkspacesInv
<1>8. ticking' \in BOOLEAN /\ strayed' \in BOOLEAN
  BY <1>2, Zenon DEF WorkspacesInv, WorkspaceTypes
<1> QED BY <1>1, <1>2, <1>3, <1>5, <1>6, <1>7, <1>8, TaskStep

\* The record comes, once, and goes.
LEMMA RecordSteps ==
  ASSUME WorkspacesInv, NEW t \in Tasks, CreateRepository(t) \/ DeleteRepository(t)
  PROVE  WorkspacesInv'
<1>1. /\ record \in RecordRows /\ First \in Sources /\ disk \in DiskRows /\ LifeInv /\ TreeInv
      /\ strayed \in BOOLEAN
  BY WorkspacesAssumption, Zenon DEF WorkspacesInv, WorkspaceTypes, RecordRows
<1>2. UNCHANGED <<disk, head, entry, stacked, strayed, haunted>>
  BY Zenon DEF CreateRepository, DeleteRepository
<1>3. CASE CreateRepository(t)
  <2>1. record.edits = 0 /\ entry = 0 /\ ticking' = TRUE /\ \A u \in Tasks : task[u].kind # "remove"
    BY <1>1, <1>3, Zenon DEF CreateRepository, LifeInv
  <2>2. 1 \in 0 .. MaxEdits + 1
    BY WorkspacesAssumption
  <2>3. record' \in RecordRows /\ record'.exists = TRUE /\ record'.edits = 1 /\ record'.sha = record.sha
    BY <1>1, <1>3, <2>2, Zenon DEF CreateRepository, RecordRows
  <2>4. /\ task' \in [Tasks -> TaskRows] /\ \A u \in Tasks \ {t} : task'[u] = task[u]
        /\ Placed(task'[t]) /\ task'[t].kind = "background" /\ task'[t].at = "try"
        /\ task[t].kind = "none" /\ task[t].at = "idle" /\ ~Writes(t)' /\ ~Reads(t)'
    <3>1. "background" \in Kinds /\ BeginTask(t, Started("background", "try", First))
      BY <1>3, Zenon DEF CreateRepository, BackgroundClone, Kinds, Unlocked
    <3> QED BY <1>1, <2>1, <3>1, BeginStep, Zenon
  <2>5. LifeInv'
    <3>1. \A u \in Tasks : task'[u].kind # "remove"
      BY <2>1, <2>4, Zenon
    <3> QED BY <1>2, <2>1, <2>3, <3>1 DEF LifeInv
  <2>6. TreeInv'
    BY <1>1, <1>2, <2>3, <2>4, QuietTree, Zenon
  <2> QED BY <1>1, <1>2, <2>1, <2>3, <2>4, <2>5, <2>6, TaskStep
<1>4. CASE DeleteRepository(t)
  <2>1. record.exists /\ entry = 0 /\ ~stacked /\ ticking' = FALSE /\ record.edits # 0
        /\ \A u \in Tasks : task[u].kind # "remove"
    BY <1>1, <1>4, Zenon DEF DeleteRepository, LifeInv
  <2>2. record' \in RecordRows /\ record'.exists = FALSE /\ record'.edits = record.edits /\ record'.sha = record.sha
    BY <1>1, <1>4, Zenon DEF DeleteRepository, RecordRows
  <2>3. /\ task' \in [Tasks -> TaskRows] /\ \A u \in Tasks \ {t} : task'[u] = task[u]
        /\ Placed(task'[t]) /\ task'[t].kind = "remove" /\ task'[t].at = "lock"
        /\ task[t].kind = "none" /\ task[t].at = "idle" /\ ~Writes(t)' /\ ~Reads(t)'
    <3>1. "remove" \in Kinds /\ BeginTask(t, Started("remove", "lock", First))
      BY <1>4, Zenon DEF DeleteRepository, Kinds
    <3> QED BY <1>1, <2>1, <3>1, BeginStep, Zenon
  <2>4. LifeInv'
    <3>1. \A u \in Tasks : task'[u].kind = "remove" => u = t
      BY <2>1, <2>3, Zenon
    <3> QED BY <1>2, <2>1, <2>2, <3>1, Zenon DEF LifeInv
  <2>5. TreeInv'
    BY <1>1, <1>2, <2>2, <2>3, QuietTree, Zenon
  <2>6. strayed' \in BOOLEAN /\ disk' \in DiskRows
    BY <1>1, <1>2, Zenon
  <2>7. ticking' \in BOOLEAN
    <3>1. ticking' = FALSE
      BY <2>1, Zenon
    <3> QED BY <3>1, Zenon
  <2>8. entry # 1
    BY <2>1
  <2> QED BY <1>2, <2>2, <2>3, <2>4, <2>5, <2>6, <2>7, <2>8, TaskStep, Zenon
<1> QED BY <1>3, <1>4, Zenon

\* A step that changes nothing but its own task.
LEMMA QuietStep ==
  ASSUME WorkspacesInv, NEW t \in Tasks,
         UNCHANGED <<record, disk, head, entry, stacked, ticking, strayed, haunted>>,
         task' \in [Tasks -> TaskRows], \A u \in Tasks \ {t} : task'[u] = task[u], Placed(task'[t]),
         task'[t].kind \in {task[t].kind, "none"},
         task'[t].at \notin {"cloning", "head", "save", "reading", "resetting"},
         ~strayed => task[t].at \notin {"cloning", "head", "save"},
         Writes(t)' => Writes(t) \/ NoHolder(t),
         entry = 1 /\ ~haunted =>
           task'[t].at \in {"idle", "lock", "rlock", "load"} \/ (task'[t].at = "reset" /\ task'[t].kind = "rollback")
  PROVE  WorkspacesInv'
<1>1. /\ record' \in RecordRows /\ disk' \in DiskRows /\ ticking' \in BOOLEAN /\ strayed' \in BOOLEAN
  BY Zenon DEF WorkspacesInv, WorkspaceTypes
<1>2. ~Reads(t)'
  BY Zenon DEF Reads
<1>3. LifeInv'
  BY LifeStep, Zenon DEF WorkspacesInv
<1>4. TreeInv'
  BY QuietTree, Zenon DEF WorkspacesInv
<1>5. entry = 1 /\ ~haunted => ~disk'.git /\ task'[t].kind \notin Unlocked
  BY Zenon DEF WorkspacesInv, RemovedInv, Unlocked
<1> QED BY <1>1, <1>2, <1>3, <1>4, <1>5, TaskStep, Zenon

\* What is known of a task in a place.
LEMMA PlaceFacts ==
  ASSUME WorkspacesInv, NEW t \in Tasks
  PROVE  /\ task \in [Tasks -> TaskRows] /\ Placed(task[t]) /\ task[t].kind \in Kinds /\ task[t].at \in Places
         /\ task[t].at \in {"lock", "load", "stat", "clear", "head", "save", "rlock", "reading"} => task[t].kind \notin Unlocked
         /\ task[t].at \in {"rlock", "load", "stat", "clear", "head", "save", "reading"} =>
              task[t].kind \in Fetches \cup Syncs \/ task[t].kind = "none"
         /\ task[t].at # "idle" => task[t].kind # "none"
         /\ task[t].at \notin {"idle", "lock", "rlock", "load", "reset"} => ~(entry = 1 /\ ~haunted)
         /\ entry = 1 /\ ~haunted => task[t].kind \notin Unlocked
<1>1. task \in [Tasks -> TaskRows] /\ Placed(task[t])
  BY Zenon DEF WorkspacesInv, WorkspaceTypes, PlacesInv
<1>2. task[t].kind \in Kinds /\ task[t].at \in Places
  BY <1>1, Zenon DEF TaskRows
<1>3. /\ task[t].at \in {"lock", "load", "stat", "clear", "head", "save", "rlock", "reading"} => task[t].kind \notin Unlocked
      /\ task[t].at \in {"rlock", "load", "stat", "clear", "head", "save", "reading"} =>
           task[t].kind \in Fetches \cup Syncs \/ task[t].kind = "none"
      /\ task[t].at # "idle" => task[t].kind # "none"
  BY <1>1, <1>2, Zenon DEF Placed, Kinds, UnlockedPlaces
<1>4. /\ task[t].at \notin {"idle", "lock", "rlock", "load", "reset"} => ~(entry = 1 /\ ~haunted)
      /\ entry = 1 /\ ~haunted => task[t].kind \notin Unlocked
  BY Zenon DEF WorkspacesInv, RemovedInv
<1> QED BY <1>1, <1>2, <1>3, <1>4, Zenon

\* LockRepository, TickSkips, ReadDone.
LEMMA LockSteps ==
  ASSUME WorkspacesInv, NEW t \in Tasks, LockRepository(t) \/ TickSkips(t) \/ ReadDone(t)
  PROVE  WorkspacesInv'
<1>1. /\ UNCHANGED <<record, disk, head, entry, stacked, ticking, strayed, haunted>>
      /\ task[t].at \in {"lock", "reading"} /\ task \in [Tasks -> TaskRows] /\ Placed(task[t])
      /\ task[t].kind \in Kinds
  BY PlaceFacts, Zenon DEF LockRepository, TickSkips, ReadDone, Reads
<1>2. CASE Abandoned(t)
  <2>1. /\ task' \in [Tasks -> TaskRows] /\ \A u \in Tasks \ {t} : task'[u] = task[u]
        /\ task'[t].at = "idle" /\ task'[t].kind = "none" /\ Placed(task'[t])
    BY <1>1, <1>2, AbandonStep, Zenon
  <2>2. ~Writes(t)'
    BY <2>1, Zenon DEF Writes, Exclusive
  <2> QED BY <1>1, <2>1, <2>2, QuietStep, Zenon
<1>3. CASE LockRepository(t)
  <2>1. task[t].at = "lock" /\ NoHolder(t) /\ To(t, FirstPlace(t))
    BY <1>3, Zenon DEF LockRepository
  <2>2. task[t].kind \in {"rollback", "remove"} \cup Fetches \cup Syncs
    BY <1>1, <2>1, Zenon DEF Placed, Kinds, UnlockedPlaces
  <2>3. PICK place \in {"reset", "remove", "load"} :
          /\ place = FirstPlace(t) /\ (place = "reset" <=> task[t].kind = "rollback")
          /\ place = "remove" <=> task[t].kind = "remove"
    BY Zenon DEF FirstPlace
  <2>4. /\ task' \in [Tasks -> TaskRows] /\ \A u \in Tasks \ {t} : task'[u] = task[u]
        /\ task'[t].at = place /\ task'[t].kind = task[t].kind /\ task'[t].lock = task[t].lock
    <3>1. place \in Places /\ To(t, place)
      BY <2>1, <2>3, Zenon DEF Places, Exclusive
    <3> QED BY <1>1, <3>1, ToStep, Zenon
  <2>5. Placed(task'[t])
    BY <1>1, <2>2, <2>3, <2>4, Zenon DEF Placed, Unlocked, FetchPlaces, UnlockedPlaces, Fetches, Syncs
  <2>6. task[t].kind = "remove" => entry = 0
    BY Zenon DEF WorkspacesInv, LifeInv
  <2>7. entry = 1 => task'[t].at = "load" \/ (task'[t].at = "reset" /\ task'[t].kind = "rollback")
    BY <2>3, <2>4, <2>6
  <2> QED BY <1>1, <2>1, <2>4, <2>5, <2>7, QuietStep, Zenon
<1> QED BY <1>2, <1>3, Zenon DEF TickSkips, ReadDone

\* ReadLock: there is no writer, so the tree is the one that was recorded.
LEMMA ReadLockStep ==
  ASSUME WorkspacesInv, NEW t \in Tasks, ReadLock(t)
  PROVE  WorkspacesInv'
<1>1. /\ UNCHANGED <<record, disk, head, entry, stacked, ticking, strayed, haunted>>
      /\ task[t].at = "rlock" /\ task \in [Tasks -> TaskRows] /\ Placed(task[t])
      /\ task[t].kind \in Fetches \cup Syncs
  BY PlaceFacts, Zenon DEF ReadLock
<1>2. CASE Abandoned(t)
  <2>1. /\ task' \in [Tasks -> TaskRows] /\ \A u \in Tasks \ {t} : task'[u] = task[u]
        /\ task'[t].at = "idle" /\ task'[t].kind = "none" /\ Placed(task'[t])
    BY <1>1, <1>2, AbandonStep, Zenon
  <2>2. ~Writes(t)'
    BY <2>1, Zenon DEF Writes, Exclusive
  <2> QED BY <1>1, <2>1, <2>2, QuietStep, Zenon
<1>3. CASE /\ record.exists /\ record.sha # NoCommit /\ disk.git
           /\ task' = [task EXCEPT ![t].at = "reading", ![t].sha = record.sha]
  <2>1. record.sha \in Commits /\ "reading" \in Places /\ record \in RecordRows /\ disk \in DiskRows
        /\ ticking \in BOOLEAN /\ strayed \in BOOLEAN
    BY Zenon DEF WorkspacesInv, WorkspaceTypes, RecordRows, Places
  <2>2. /\ task' \in [Tasks -> TaskRows] /\ \A u \in Tasks \ {t} : task'[u] = task[u]
        /\ task'[t].at = "reading" /\ task'[t].kind = task[t].kind /\ task'[t].lock = task[t].lock
        /\ task'[t].sha = record.sha
    BY <1>1, <1>3, <2>1, ShaStep, Zenon
  <2>3. Placed(task'[t])
    BY <1>1, <2>2, Zenon DEF Placed, Unlocked, FetchPlaces, Fetches, Syncs
  <2>4. entry = 0
    BY <1>3, Zenon DEF WorkspacesInv, LifeInv
  <2>5. NoWriter(t) /\ ~Writes(t)'
    BY <2>2, Zenon DEF ReadLock, Writes, Exclusive
  <2>6. LifeInv'
    BY <1>1, <2>2, LifeStep, Zenon DEF WorkspacesInv
  <2>7. TreeInv'
    <3> SUFFICES ASSUME ~strayed PROVE TreeInv'
      BY <1>1, Zenon DEF TreeInv
    <3>1. \A u \in Tasks : task[u].lock = 0
      BY Zenon DEF WorkspacesInv, PlacesInv, Placed
    <3>2. \A u \in Tasks \ {t} : ~Writes(u)
      BY <2>5, <3>1, Zenon DEF NoWriter, Shares
    <3>3. ASSUME NEW u \in Tasks PROVE task[u].at \notin {"cloning", "resetting", "head", "save"}
      <4>1. CASE u = t
        BY <1>1, <4>1, Zenon
      <4>2. CASE u # t
        <5>1. ~Writes(u) /\ (TornBy(u) => task[u].kind \in Fetches \cup Syncs)
          BY <3>2, <4>2, Zenon DEF WorkspacesInv, TreeInv
        <5>2. task[u].at \in {"head", "save"} => task[u].kind \notin Unlocked
          BY PlaceFacts, Zenon
        <5> QED BY <5>1, <5>2, Zenon DEF Writes, TornBy, Exclusive, Unlocked, Fetches, Syncs
      <4> QED BY <4>1, <4>2, Zenon
    <3>4. disk.at = record.sha
      BY <1>3, <3>3, Zenon DEF WorkspacesInv, TreeInv
    <3>5. ASSUME NEW u \in Tasks
          PROVE  /\ ~TornBy(u)' /\ task'[u].at # "head"
                 /\ task'[u].at \in {"save", "reading"} => disk.git /\ disk.at = task'[u].sha
      <4>1. CASE u = t
        BY <1>3, <2>2, <3>4, <4>1, Zenon DEF TornBy
      <4>2. CASE u # t
        BY <2>2, <3>3, <4>2, Zenon DEF TornBy, WorkspacesInv, TreeInv
      <4> QED BY <4>1, <4>2, Zenon
    <3> QED BY <1>1, <3>4, <3>5, Zenon DEF TreeInv
  <2>8. entry # 1
    BY <2>4
  <2> QED BY <1>1, <2>1, <2>2, <2>3, <2>5, <2>6, <2>7, <2>8, TaskStep, Zenon
<1> QED BY <1>2, <1>3, Zenon DEF ReadLock

\* The steps of fetchRepo that only look.
LEMMA LookSteps ==
  ASSUME WorkspacesInv, NEW t \in Tasks,
         LoadRecord(t) \/ StatTree(t) \/ CloneOrFetch(t) \/ FetchRemote(t)
  PROVE  WorkspacesInv'
<1>1. /\ UNCHANGED <<record, disk, head, entry, stacked, ticking, strayed, haunted>>
      /\ task[t].at \in {"load", "stat", "try", "fetch"} /\ task \in [Tasks -> TaskRows] /\ Placed(task[t])
      /\ task[t].kind \in Unlocked \cup Fetches \cup Syncs
  <2>1. task[t].at \in {"load", "stat", "try", "fetch"} /\ Placed(task[t]) /\ task[t].kind \in Kinds
    BY PlaceFacts, Zenon DEF LoadRecord, StatTree, CloneOrFetch, FetchRemote
  <2>2. task[t].kind \in Unlocked \cup Fetches \cup Syncs
    BY <2>1, Zenon DEF Placed, Kinds
  <2> QED BY <2>1, <2>2, PlaceFacts, Zenon DEF LoadRecord, StatTree, CloneOrFetch, FetchRemote
<1>2. ASSUME task' \in [Tasks -> TaskRows], \A u \in Tasks \ {t} : task'[u] = task[u],
             task'[t].at = "idle", task'[t].kind = "none", Placed(task'[t])
      PROVE  WorkspacesInv'
  <2>1. ~Writes(t)'
    BY <1>2, Zenon DEF Writes, Exclusive
  <2> QED BY <1>1, <1>2, <2>1, QuietStep, Zenon
<1>3. ASSUME NEW place \in {"stat", "clear", "try", "clone", "fetch", "reset"},
             task' \in [Tasks -> TaskRows], \A u \in Tasks \ {t} : task'[u] = task[u],
             task'[t].at = place, task'[t].kind = task[t].kind, task'[t].lock = task[t].lock,
             place \in {"stat", "clear"} => task[t].kind \notin Unlocked,
             place = "reset" => task'[t].target # NoCommit,
             task[t].at = "load" => entry = 0
      PROVE  WorkspacesInv'
  <2>1. Placed(task'[t])
    BY <1>1, <1>3, Zenon DEF Placed, Unlocked, UnlockedPlaces, FetchPlaces, Fetches, Syncs
  <2>2. Writes(t)' => Writes(t)
    BY <1>1, <1>3, Zenon DEF Writes, Exclusive
  <2>3. ~(entry = 1 /\ ~haunted)
    BY <1>1, <1>3, PlaceFacts
  <2> QED BY <1>1, <1>3, <2>1, <2>2, <2>3, QuietStep, Zenon
<1>4. {"stat", "clear", "try", "clone", "fetch", "reset"} \subseteq Places
  BY Zenon DEF Places, Exclusive
<1>5. CASE LoadRecord(t)
  <2>1. CASE Abandoned(t)
    BY <1>1, <1>2, <2>1, AbandonStep, Zenon
  <2>2. CASE record.exists /\ task' = [task EXCEPT ![t].at = "stat", ![t].source = record.source]
    <3>1. record.source \in Sources /\ entry = 0
      BY <2>2, Zenon DEF WorkspacesInv, WorkspaceTypes, RecordRows, LifeInv
    <3>2. /\ task' \in [Tasks -> TaskRows] /\ \A u \in Tasks \ {t} : task'[u] = task[u]
          /\ task'[t].at = "stat" /\ task'[t].kind = task[t].kind /\ task'[t].lock = task[t].lock
      BY <1>1, <1>4, <2>2, <3>1, SourceStep, Zenon
    <3>3. task[t].kind \notin Unlocked
      BY <1>5, PlaceFacts, Zenon DEF LoadRecord
    <3> QED BY <1>3, <3>1, <3>2, <3>3, Zenon
  <2> QED BY <1>5, <2>1, <2>2, Zenon DEF LoadRecord
<1>6. CASE StatTree(t)
  <2>1. PICK place \in {"try", "clear"} : To(t, place)
    BY <1>6, Zenon DEF StatTree
  <2>2. /\ task' \in [Tasks -> TaskRows] /\ \A u \in Tasks \ {t} : task'[u] = task[u]
        /\ task'[t].at = place /\ task'[t].kind = task[t].kind /\ task'[t].lock = task[t].lock
    BY <1>1, <1>4, <2>1, ToStep, Zenon
  <2>3. task[t].kind \notin Unlocked /\ task[t].at # "load"
    BY <1>6, PlaceFacts, Zenon DEF StatTree
  <2> QED BY <1>3, <2>1, <2>2, <2>3, Zenon
<1>7. CASE CloneOrFetch(t)
  <2>1. PICK place \in {"fetch", "clone"} : To(t, place)
    BY <1>7, Zenon DEF CloneOrFetch
  <2>2. /\ task' \in [Tasks -> TaskRows] /\ \A u \in Tasks \ {t} : task'[u] = task[u]
        /\ task'[t].at = place /\ task'[t].kind = task[t].kind /\ task'[t].lock = task[t].lock
    BY <1>1, <1>4, <2>1, ToStep, Zenon
  <2>3. task[t].at # "load"
    BY <1>7, Zenon DEF CloneOrFetch
  <2> QED BY <1>3, <2>1, <2>2, <2>3, Zenon
<1>8. CASE FetchRemote(t)
  <2>1. task[t].at = "fetch"
    BY <1>8, Zenon DEF FetchRemote
  <2>2. CASE Failed(t)
    <3>1. /\ task' \in [Tasks -> TaskRows] /\ \A u \in Tasks \ {t} : task'[u] = task[u]
          /\ \/ task'[t].at = "try" /\ task'[t].kind = task[t].kind /\ task'[t].lock = task[t].lock
             \/ task'[t].at = "idle" /\ task'[t].kind = "none" /\ Placed(task'[t])
      BY <1>1, <2>2, FailedStep, Zenon
    <3> QED BY <1>2, <1>3, <2>1, <3>1, Zenon
  <2>3. CASE task' = [task EXCEPT ![t].at = "reset", ![t].target = <<disk.source, head>>]
    <3>1. disk.source \in Sources /\ head \in 1 .. MaxPushes + 1
      BY Zenon DEF WorkspacesInv, WorkspaceTypes, DiskRows
    <3>2. PICK c \in Commits : c = <<disk.source, head>> /\ c # NoCommit
      BY <3>1, CommitFacts, Zenon
    <3>3. task' = [task EXCEPT ![t].at = "reset", ![t].target = c]
      BY <2>3, <3>2, Zenon
    <3>4. /\ task' \in [Tasks -> TaskRows] /\ \A u \in Tasks \ {t} : task'[u] = task[u]
          /\ task'[t].at = "reset" /\ task'[t].kind = task[t].kind /\ task'[t].lock = task[t].lock
          /\ task'[t].target = c
      BY <1>1, <1>4, <3>3, TargetStep, Zenon
    <3> QED BY <1>3, <2>1, <3>2, <3>4, Zenon
  <2> QED BY <1>8, <2>2, <2>3, Zenon DEF FetchRemote
<1> QED BY <1>5, <1>6, <1>7, <1>8, Zenon

\* Whoever writes is alone with the tree, unless a clone without a lock is at work.
LEMMA AloneWithTree ==
  ASSUME WorkspacesInv, NEW t \in Tasks, Writes(t), ~strayed \/ Background = {}
  PROVE  \A u \in Tasks \ {t} : task[u].at \notin {"cloning", "resetting", "head", "save", "reading"}
<1> SUFFICES ASSUME NEW u \in Tasks, u # t
             PROVE  task[u].at \notin {"cloning", "resetting", "head", "save", "reading"}
  BY Zenon
<1>1. ~Writes(u) /\ ~Reads(u)
  BY Zenon DEF WorkspacesInv, MutexInv
<1>2. TornBy(u) => task[u].kind \notin Unlocked
  <2>1. CASE ~strayed
    BY <2>1, Zenon DEF WorkspacesInv, TreeInv, Fetches, Syncs, Unlocked
  <2>2. CASE Background = {}
    BY <2>2, Zenon DEF Background
  <2> QED BY <2>1, <2>2, Zenon
<1>3. task[u].at \in {"head", "save"} => task[u].kind \notin Unlocked
  BY PlaceFacts, Zenon
<1> QED BY <1>1, <1>2, <1>3, Zenon DEF Writes, Reads, TornBy, Exclusive

\* A step of the one who writes.
LEMMA WriterTree ==
  ASSUME WorkspacesInv, NEW t \in Tasks, \A u \in Tasks \ {t} : task'[u] = task[u], Writes(t),
         ~strayed' =>
           /\ ~strayed \/ Background = {}
           /\ task'[t].at \in {"cloning", "resetting"} => task'[t].kind \in Fetches \cup Syncs
           /\ task'[t].at = "head" => disk'.git /\ disk'.at # NoCommit
           /\ task'[t].at \in {"save", "reading"} => disk'.git /\ disk'.at = task'[t].sha
           /\ disk'.git /\ record'.sha # NoCommit =>
                disk'.at = record'.sha \/ task'[t].at \in {"cloning", "head", "save"}
  PROVE  TreeInv'
<1> SUFFICES ASSUME ~strayed' PROVE TreeInv'
  BY Zenon DEF TreeInv
<1>1. \A u \in Tasks \ {t} : task'[u].at \notin {"cloning", "resetting", "head", "save", "reading"}
  BY AloneWithTree, Zenon
<1>2. ASSUME NEW u \in Tasks
      PROVE  /\ TornBy(u)' => task'[u].kind \in Fetches \cup Syncs
             /\ task'[u].at = "head" => disk'.git /\ disk'.at # NoCommit
             /\ task'[u].at \in {"save", "reading"} => disk'.git /\ disk'.at = task'[u].sha
  <2>1. CASE u = t
    BY <2>1, Zenon DEF TornBy
  <2>2. CASE u # t
    BY <1>1, <2>2, Zenon DEF TornBy
  <2> QED BY <2>1, <2>2, Zenon
<1> QED BY <1>2, Zenon DEF TreeInv

\* A step that may change the tree, the record's commit or who moved the tree.
LEMMA TreeStep ==
  ASSUME WorkspacesInv, NEW t \in Tasks,
         UNCHANGED <<head, entry, stacked, ticking, haunted>>,
         record' \in RecordRows, record'.exists = record.exists, record'.edits = record.edits,
         disk' \in DiskRows, strayed' \in BOOLEAN,
         task' \in [Tasks -> TaskRows], \A u \in Tasks \ {t} : task'[u] = task[u], Placed(task'[t]),
         task'[t].kind \in {task[t].kind, "none"}, task'[t].at # "reading",
         Writes(t)' => Writes(t), TreeInv', ~(entry = 1 /\ ~haunted)
  PROVE  WorkspacesInv'
<1>1. ~Reads(t)' /\ ticking' \in BOOLEAN
  BY Zenon DEF Reads, WorkspacesInv, WorkspaceTypes
<1>2. LifeInv'
  BY LifeStep, Zenon DEF WorkspacesInv
<1> QED BY <1>1, <1>2, TaskStep, Zenon

\* The rows of a task that is at work on the tree.
LEMMA WorkFacts ==
  ASSUME WorkspacesInv, NEW t \in Tasks, task[t].at \in UnlockedPlaces \cup {"clear", "head", "save"}
  PROVE  /\ task[t].kind \in Unlocked \/ Writes(t)
         /\ task[t].kind \in Unlocked \cup Fetches \cup Syncs \cup {"rollback"}
         /\ task[t].kind = "rollback" => task[t].at \in {"reset", "resetting"}
         /\ task[t].at \in {"clear", "head", "save"} => Writes(t) /\ task[t].kind \in Fetches \cup Syncs
         /\ Placed(task[t]) /\ task \in [Tasks -> TaskRows] /\ task[t].lock = 0
         /\ record \in RecordRows /\ disk \in DiskRows /\ strayed \in BOOLEAN
<1>1. /\ Placed(task[t]) /\ task \in [Tasks -> TaskRows] /\ task[t].kind \in Kinds
      /\ record \in RecordRows /\ disk \in DiskRows /\ strayed \in BOOLEAN
  BY PlaceFacts, Zenon DEF WorkspacesInv, WorkspaceTypes
<1>2. /\ task[t].kind \in Unlocked \cup Fetches \cup Syncs \cup {"rollback"} /\ task[t].lock = 0
      /\ task[t].kind = "rollback" => task[t].at \in {"reset", "resetting"}
      /\ task[t].at \in {"clear", "head", "save"} => task[t].kind \in Fetches \cup Syncs
  BY <1>1, Zenon DEF Placed, Kinds, UnlockedPlaces
<1>3. task[t].at \in Exclusive
  BY Zenon DEF UnlockedPlaces, Exclusive
<1> QED BY <1>1, <1>2, <1>3, Zenon DEF Writes, Unlocked, Fetches, Syncs

\* ClearTree.
LEMMA ClearStep ==
  ASSUME WorkspacesInv, NEW t \in Tasks, ClearTree(t)
  PROVE  WorkspacesInv'
<1>1. /\ task[t].at = "clear" /\ disk' = Gone /\ To(t, "try")
      /\ UNCHANGED <<record, head, entry, stacked, ticking, strayed, haunted>>
  BY Zenon DEF ClearTree
<1>2. /\ Writes(t) /\ task[t].kind \in Fetches \cup Syncs /\ task \in [Tasks -> TaskRows] /\ task[t].lock = 0
      /\ record \in RecordRows /\ strayed \in BOOLEAN
  BY <1>1, WorkFacts, Zenon
<1>3. /\ task' \in [Tasks -> TaskRows] /\ \A u \in Tasks \ {t} : task'[u] = task[u]
      /\ task'[t].at = "try" /\ task'[t].kind = task[t].kind /\ task'[t].lock = task[t].lock
  BY <1>1, <1>2, ToStep, Zenon DEF Places, Exclusive
<1>4. Placed(task'[t])
  BY <1>2, <1>3, Zenon DEF Placed, Unlocked, UnlockedPlaces, FetchPlaces, Fetches, Syncs
<1>5. disk' \in DiskRows /\ disk'.git = FALSE
  BY <1>1, CommitFacts, Zenon
<1>6. TreeInv'
  BY <1>1, <1>2, <1>3, <1>5, WriterTree, Zenon
<1>7. ~(entry = 1 /\ ~haunted)
  BY <1>1, PlaceFacts, Zenon
<1> QED BY <1>1, <1>2, <1>3, <1>4, <1>5, <1>6, <1>7, TreeStep, Zenon

\* An attempt that failed and left the tree as it was.
LEMMA FailsQuietly ==
  ASSUME WorkspacesInv, NEW t \in Tasks, Failed(t), task[t].at \in {"clone", "resetting"},
         task[t].kind # "rollback",
         UNCHANGED <<record, disk, head, entry, stacked, ticking, strayed, haunted>>
  PROVE  WorkspacesInv'
<1>1. /\ task[t].kind \in Unlocked \/ Writes(t)
      /\ task[t].kind \in Unlocked \cup Fetches \cup Syncs /\ task \in [Tasks -> TaskRows] /\ task[t].lock = 0
  BY WorkFacts, Zenon DEF UnlockedPlaces
<1>2. /\ task' \in [Tasks -> TaskRows] /\ \A u \in Tasks \ {t} : task'[u] = task[u]
      /\ \/ /\ task'[t].at = "try" /\ task'[t].kind = task[t].kind /\ task'[t].lock = task[t].lock
            /\ task[t].kind \notin Unlocked
         \/ task'[t].at = "idle" /\ task'[t].kind = "none" /\ Placed(task'[t])
  BY <1>1, FailedStep, Zenon
<1>3. Placed(task'[t])
  BY <1>1, <1>2, Zenon DEF Placed, Unlocked, UnlockedPlaces, FetchPlaces, Fetches, Syncs
<1>4. Writes(t)' => Writes(t)
  BY <1>1, <1>2, Zenon DEF Writes, Exclusive
<1>5. ~(entry = 1 /\ ~haunted)
  BY PlaceFacts, Zenon
<1> QED BY <1>2, <1>3, <1>4, <1>5, QuietStep, Zenon

\* A task that ends and leaves the tree as it was.
LEMMA EndsQuietly ==
  ASSUME WorkspacesInv, NEW t \in Tasks, Abandoned(t),
         ~strayed => task[t].at \notin {"cloning", "head", "save"},
         UNCHANGED <<record, disk, head, entry, stacked, ticking, strayed, haunted>>
  PROVE  WorkspacesInv'
<1>1. /\ task' \in [Tasks -> TaskRows] /\ \A u \in Tasks \ {t} : task'[u] = task[u]
      /\ task'[t].at = "idle" /\ task'[t].kind = "none" /\ Placed(task'[t])
  BY AbandonStep, Zenon DEF WorkspacesInv, WorkspaceTypes
<1>2. ~Writes(t)'
  BY <1>1, Zenon DEF Writes, Exclusive
<1> QED BY <1>1, <1>2, QuietStep, Zenon

\* CloneStarts.
LEMMA CloneStartsStep ==
  ASSUME WorkspacesInv, NEW t \in Tasks, CloneStarts(t)
  PROVE  WorkspacesInv'
<1>1. task[t].at = "clone" /\ UNCHANGED <<record, head, entry, stacked, ticking, haunted>>
  BY Zenon DEF CloneStarts
<1>2. /\ task[t].kind \in Unlocked \/ Writes(t)
      /\ task[t].kind \in Unlocked \cup Fetches \cup Syncs /\ task[t].kind # "rollback"
      /\ Placed(task[t]) /\ task \in [Tasks -> TaskRows] /\ task[t].lock = 0
      /\ record \in RecordRows /\ disk \in DiskRows /\ strayed \in BOOLEAN
  BY <1>1, WorkFacts, Zenon DEF UnlockedPlaces
<1>3. CASE Failed(t) /\ UNCHANGED <<disk, strayed>>
  BY <1>1, <1>2, <1>3, FailsQuietly, Zenon
<1>4. CASE /\ disk' = [git |-> TRUE, source |-> task[t].source, at |-> NoCommit]
           /\ To(t, "cloning")
           /\ strayed' = (strayed \/ task[t].kind \in Unlocked)
  <2>1. /\ task' \in [Tasks -> TaskRows] /\ \A u \in Tasks \ {t} : task'[u] = task[u]
        /\ task'[t].at = "cloning" /\ task'[t].kind = task[t].kind /\ task'[t].lock = task[t].lock
    BY <1>2, <1>4, ToStep, Zenon DEF Places, Exclusive
  <2>2. disk' \in DiskRows /\ strayed' \in BOOLEAN
    <3>1. task[t].source \in Sources
      BY <1>2, Zenon DEF TaskRows
    <3> QED BY <1>2, <1>4, <3>1, CommitFacts, Zenon DEF DiskRows
  <2>3. Placed(task'[t])
    BY <1>2, <2>1, Zenon DEF Placed, Unlocked, UnlockedPlaces, FetchPlaces, Fetches, Syncs
  <2>4. Writes(t)' => Writes(t)
    BY <1>2, <2>1, Zenon DEF Writes
  <2>5. TreeInv'
    <3>1. CASE strayed'
      BY <3>1, Zenon DEF TreeInv
    <3>2. CASE ~strayed'
      <4>1. ~strayed /\ Writes(t) /\ task[t].kind \in Fetches \cup Syncs
        BY <1>2, <1>4, <3>2, Zenon
      <4> QED BY <2>1, <4>1, WriterTree, Zenon
    <3> QED BY <3>1, <3>2, Zenon
  <2>6. ~(entry = 1 /\ ~haunted)
    BY <1>1, PlaceFacts, Zenon
  <2> QED BY <1>1, <1>2, <2>1, <2>2, <2>3, <2>4, <2>5, <2>6, TreeStep, Zenon
<1> QED BY <1>3, <1>4, Zenon DEF CloneStarts

\* CloneEnds.
LEMMA CloneEndsStep ==
  ASSUME WorkspacesInv, NEW t \in Tasks, CloneEnds(t)
  PROVE  WorkspacesInv'
<1>1. task[t].at = "cloning" /\ UNCHANGED <<record, head, entry, stacked, ticking, strayed, haunted>>
  BY Zenon DEF CloneEnds
<1>2. /\ task[t].kind \in Unlocked \/ Writes(t)
      /\ task[t].kind \in Unlocked \cup Fetches \cup Syncs
      /\ Placed(task[t]) /\ task \in [Tasks -> TaskRows] /\ task[t].lock = 0
      /\ record \in RecordRows /\ disk \in DiskRows /\ strayed \in BOOLEAN
  BY <1>1, WorkFacts, Zenon DEF UnlockedPlaces
<1>3. ~(entry = 1 /\ ~haunted)
  BY <1>1, PlaceFacts, Zenon
<1>4. strayed \/ (Writes(t) /\ task[t].kind \in Fetches \cup Syncs)
  BY <1>1, <1>2, Zenon DEF WorkspacesInv, TreeInv, TornBy, Fetches, Syncs, Unlocked
<1>5. ASSUME disk.git, disk' = [disk EXCEPT !.at = <<disk.source, head>>],
             IF task[t].kind \in Unlocked THEN Abandoned(t) ELSE To(t, "head")
      PROVE  WorkspacesInv'
  <2>1. disk.source \in Sources /\ head \in 1 .. MaxPushes + 1
    BY <1>2, Zenon DEF DiskRows, WorkspacesInv, WorkspaceTypes
  <2>2. PICK c \in Commits : c = <<disk.source, head>> /\ c # NoCommit
    BY <2>1, CommitFacts, Zenon
  <2>3. disk' = [disk EXCEPT !.at = c]
    BY <1>5, <2>2, Zenon
  <2>4. disk' \in DiskRows /\ disk'.git = TRUE /\ disk'.at = c
    BY <1>2, <1>5, <2>3, Zenon DEF DiskRows
  <2>5. CASE Abandoned(t) /\ task[t].kind \in Unlocked
    <3>1. strayed
      BY <1>4, <2>5, Zenon DEF Fetches, Syncs, Unlocked
    <3>2. TreeInv'
      BY <1>1, <3>1, Zenon DEF TreeInv
    <3>3. /\ task' \in [Tasks -> TaskRows] /\ \A u \in Tasks \ {t} : task'[u] = task[u]
          /\ task'[t].at = "idle" /\ task'[t].kind = "none" /\ Placed(task'[t])
      BY <1>2, <2>5, AbandonStep, Zenon
    <3>4. ~Writes(t)'
      BY <3>3, Zenon DEF Writes, Exclusive
    <3> QED BY <1>1, <1>2, <1>3, <2>4, <3>2, <3>3, <3>4, TreeStep, Zenon
  <2>6. CASE To(t, "head") /\ task[t].kind \notin Unlocked
    <3>1. /\ task' \in [Tasks -> TaskRows] /\ \A u \in Tasks \ {t} : task'[u] = task[u]
          /\ task'[t].at = "head" /\ task'[t].kind = task[t].kind /\ task'[t].lock = task[t].lock
      BY <1>2, <2>6, ToStep, Zenon DEF Places, Exclusive
    <3>2. Placed(task'[t])
      BY <1>2, <2>6, <3>1, Zenon DEF Placed, Unlocked, FetchPlaces, Fetches, Syncs
    <3>3. Writes(t)
      BY <1>2, <2>6, Zenon
    <3>4. TreeInv'
      BY <1>1, <2>2, <2>4, <3>1, <3>3, WriterTree, Zenon
    <3> QED BY <1>1, <1>2, <1>3, <2>4, <3>1, <3>2, <3>3, <3>4, TreeStep, Zenon
  <2> QED BY <1>5, <2>5, <2>6, Zenon
<1>6. CASE disk' = Gone /\ Failed(t)
  <2>1. disk' \in DiskRows /\ disk'.git = FALSE
    BY <1>6, CommitFacts, Zenon
  <2>2. /\ task' \in [Tasks -> TaskRows] /\ \A u \in Tasks \ {t} : task'[u] = task[u]
        /\ \/ /\ task'[t].at = "try" /\ task'[t].kind = task[t].kind /\ task'[t].lock = task[t].lock
              /\ task[t].kind \notin Unlocked
           \/ task'[t].at = "idle" /\ task'[t].kind = "none" /\ Placed(task'[t])
    BY <1>2, <1>6, FailedStep, Zenon
  <2>3. Placed(task'[t])
    BY <1>2, <2>2, Zenon DEF Placed, Unlocked, UnlockedPlaces, FetchPlaces, Fetches, Syncs
  <2>4. Writes(t)' => Writes(t)
    BY <1>2, <2>2, Zenon DEF Writes, Exclusive
  <2>5. TreeInv'
    <3>1. CASE strayed
      BY <1>1, <3>1, Zenon DEF TreeInv
    <3>2. CASE Writes(t)
      BY <1>1, <2>1, <2>2, <3>2, WriterTree, Zenon
    <3> QED BY <1>4, <3>1, <3>2, Zenon
  <2> QED BY <1>1, <1>2, <1>3, <2>1, <2>2, <2>3, <2>4, <2>5, TreeStep, Zenon
<1> QED BY <1>5, <1>6, Zenon DEF CloneEnds

\* ResetStarts.
LEMMA ResetStartsStep ==
  ASSUME WorkspacesInv, NEW t \in Tasks, ResetStarts(t)
  PROVE  WorkspacesInv'
<1>1. task[t].at = "reset" /\ UNCHANGED <<record, disk, head, entry, stacked, ticking, haunted>>
  BY Zenon DEF ResetStarts
<1>2. /\ task[t].kind \in Unlocked \/ Writes(t)
      /\ task[t].kind \in Unlocked \cup Fetches \cup Syncs \cup {"rollback"}
      /\ Placed(task[t]) /\ task \in [Tasks -> TaskRows] /\ task[t].lock = 0
      /\ record \in RecordRows /\ disk \in DiskRows /\ strayed \in BOOLEAN
  BY <1>1, WorkFacts, Zenon DEF UnlockedPlaces
<1>3. CASE Abandoned(t) /\ UNCHANGED strayed
  BY <1>1, <1>3, EndsQuietly, Zenon
<1>4. ASSUME task[t].kind = "rollback", NEW n \in 1 .. head, disk.git, strayed' = TRUE,
             task' = [task EXCEPT ![t].at = "resetting", ![t].target = <<disk.source, n>>]
      PROVE  WorkspacesInv'
  <2>1. disk.source \in Sources /\ n \in 1 .. MaxPushes + 1
    BY <1>2, <1>4, WorkspacesAssumption DEF DiskRows, WorkspacesInv, WorkspaceTypes
  <2>2. PICK c \in Commits : c = <<disk.source, n>> /\ c # NoCommit
    BY <2>1, CommitFacts, Zenon
  <2>3. task' = [task EXCEPT ![t].at = "resetting", ![t].target = c]
    BY <1>4, <2>2, Zenon
  <2>4. /\ task' \in [Tasks -> TaskRows] /\ \A u \in Tasks \ {t} : task'[u] = task[u]
        /\ task'[t].at = "resetting" /\ task'[t].kind = task[t].kind /\ task'[t].lock = task[t].lock
        /\ task'[t].target = c
    <3>1. "resetting" \in Places
      BY Zenon DEF Places, Exclusive
    <3>2. task \in [Tasks -> TaskRows]
      BY <1>2, Zenon
    <3>3. PICK e \in TaskRows : e = task[t]
      BY <3>2, Zenon
    <3>4. PICK g : g = [e EXCEPT !.at = "resetting", !.target = c]
      BY Zenon
    <3>5. task' = [task EXCEPT ![t] = g]
      BY <2>3, <3>2, <3>3, <3>4, Zenon
    <3>6. g \in TaskRows /\ g.at = "resetting" /\ g.kind = e.kind /\ g.lock = e.lock /\ g.target = c
      BY <3>1, <3>4, Zenon DEF TaskRows
    <3>7. task' \in [Tasks -> TaskRows] /\ task'[t] = g /\ \A u \in Tasks \ {t} : task'[u] = task[u]
      BY <3>2, <3>5, <3>6, RowStep, Zenon
    <3> QED BY <3>3, <3>6, <3>7, Zenon
  <2>5. Placed(task'[t])
    BY <1>2, <1>4, <2>2, <2>4, Zenon DEF Placed, Unlocked, Fetches, Syncs
  <2>6. Writes(t)
    BY <1>2, <1>4, Zenon DEF Unlocked
  <2>7. TreeInv' /\ strayed' \in BOOLEAN
    BY <1>4, Zenon DEF TreeInv
  <2>8. ~(entry = 1 /\ ~haunted)
    BY <1>4, Zenon DEF WorkspacesInv, RemovedInv
  <2> QED BY <1>1, <1>2, <2>4, <2>5, <2>6, <2>7, <2>8, TreeStep, Zenon
<1>5. CASE /\ task[t].kind # "rollback" /\ To(t, "resetting")
           /\ strayed' = (strayed \/ task[t].kind \in Unlocked)
  <2>1. /\ task' \in [Tasks -> TaskRows] /\ \A u \in Tasks \ {t} : task'[u] = task[u]
        /\ task'[t].at = "resetting" /\ task'[t].kind = task[t].kind /\ task'[t].lock = task[t].lock
        /\ task'[t].target = task[t].target
    BY <1>2, <1>5, ToStep, Zenon DEF Places, Exclusive
  <2>2. Placed(task'[t])
    BY <1>1, <1>2, <1>5, <2>1, Zenon DEF Placed, Unlocked, UnlockedPlaces, FetchPlaces, Fetches, Syncs
  <2>3. Writes(t)' => Writes(t)
    BY <1>2, <2>1, Zenon DEF Writes
  <2>4. TreeInv'
    <3>1. CASE strayed'
      BY <3>1, Zenon DEF TreeInv
    <3>2. CASE ~strayed'
      <4>1. ~strayed /\ task[t].kind \in Fetches \cup Syncs /\ strayed' = strayed
        BY <1>2, <1>5, <3>2, Zenon
      <4> QED BY <1>1, <2>1, <4>1, QuietTree, Zenon DEF WorkspacesInv
    <3> QED BY <3>1, <3>2, Zenon
  <2>5. ~(entry = 1 /\ ~haunted)
    BY <1>1, <1>5, Zenon DEF WorkspacesInv, RemovedInv
  <2>6. strayed' \in BOOLEAN
    BY <1>5, Zenon
  <2> QED BY <1>1, <1>2, <2>1, <2>2, <2>3, <2>4, <2>5, <2>6, TreeStep, Zenon
<1> QED BY <1>3, <1>4, <1>5, Zenon DEF ResetStarts

\* ResetEnds.
LEMMA ResetEndsStep ==
  ASSUME WorkspacesInv, NEW t \in Tasks, ResetEnds(t)
  PROVE  WorkspacesInv'
<1>1. task[t].at = "resetting" /\ UNCHANGED <<record, head, entry, stacked, ticking, strayed, haunted>>
  BY Zenon DEF ResetEnds
<1>2. /\ task[t].kind \in Unlocked \/ Writes(t)
      /\ task[t].kind \in Unlocked \cup Fetches \cup Syncs \cup {"rollback"}
      /\ Placed(task[t]) /\ task \in [Tasks -> TaskRows] /\ task[t].lock = 0
      /\ record \in RecordRows /\ disk \in DiskRows /\ strayed \in BOOLEAN
  BY <1>1, WorkFacts, Zenon DEF UnlockedPlaces
<1>3. ~(entry = 1 /\ ~haunted)
  BY <1>1, PlaceFacts, Zenon
<1>4. strayed \/ task[t].kind \in Fetches \cup Syncs
  BY <1>1, Zenon DEF WorkspacesInv, TreeInv, TornBy
<1>5. CASE disk.git
  <2>1. task[t].target \in Commits /\ task[t].target # NoCommit
    BY <1>1, <1>2, Zenon DEF TaskRows, Placed
  <2>2. disk' = [disk EXCEPT !.at = task[t].target]
    BY <1>5, Zenon DEF ResetEnds
  <2>3. disk' \in DiskRows /\ disk'.git = TRUE /\ disk'.at = task[t].target
    BY <1>2, <1>5, <2>1, <2>2, Zenon DEF DiskRows
  <2>4. CASE /\ task[t].kind \in Fetches \cup Syncs
             /\ task' = [task EXCEPT ![t].at = "head", ![t].target = NoCommit]
    <3>1. /\ task' \in [Tasks -> TaskRows] /\ \A u \in Tasks \ {t} : task'[u] = task[u]
          /\ task'[t].at = "head" /\ task'[t].kind = task[t].kind /\ task'[t].lock = task[t].lock
      BY <1>2, <2>4, TargetStep, CommitFacts, Zenon DEF Places, Exclusive
    <3>2. Placed(task'[t])
      BY <1>2, <2>4, <3>1, Zenon DEF Placed, Unlocked, FetchPlaces, Fetches, Syncs
    <3>3. Writes(t)
      BY <1>2, <2>4, Zenon DEF Unlocked, Fetches, Syncs
    <3>4. TreeInv'
      BY <1>1, <2>1, <2>3, <3>1, <3>3, WriterTree, Zenon
    <3> QED BY <1>1, <1>2, <1>3, <2>3, <3>1, <3>2, <3>3, <3>4, TreeStep, Zenon
  <2>5. CASE task[t].kind \notin Fetches \cup Syncs /\ Abandoned(t)
    <3>1. TreeInv'
      BY <1>1, <1>4, <2>5, Zenon DEF TreeInv
    <3>2. /\ task' \in [Tasks -> TaskRows] /\ \A u \in Tasks \ {t} : task'[u] = task[u]
          /\ task'[t].at = "idle" /\ task'[t].kind = "none" /\ Placed(task'[t])
      BY <1>2, <2>5, AbandonStep, Zenon
    <3>3. ~Writes(t)'
      BY <3>2, Zenon DEF Writes, Exclusive
    <3> QED BY <1>1, <1>2, <1>3, <2>3, <3>1, <3>2, <3>3, TreeStep, Zenon
  <2> QED BY <1>5, <2>4, <2>5, Zenon DEF ResetEnds
<1>6. CASE ~disk.git
  <2>1. UNCHANGED disk
    BY <1>6, Zenon DEF ResetEnds
  <2>2. CASE task[t].kind = "rollback" /\ Abandoned(t)
    BY <1>1, <2>1, <2>2, EndsQuietly, Zenon
  <2>3. CASE task[t].kind # "rollback" /\ Failed(t)
    BY <1>1, <2>1, <2>3, FailsQuietly, Zenon
  <2> QED BY <1>6, <2>2, <2>3, Zenon DEF ResetEnds
<1> QED BY <1>5, <1>6, Zenon

\* ReadHead.
LEMMA ReadHeadStep ==
  ASSUME WorkspacesInv, NEW t \in Tasks, ReadHead(t)
  PROVE  WorkspacesInv'
<1>1. task[t].at = "head" /\ UNCHANGED <<record, disk, head, entry, stacked, ticking, haunted>>
  BY Zenon DEF ReadHead
<1>2. /\ Writes(t) /\ task[t].kind \in Fetches \cup Syncs /\ task \in [Tasks -> TaskRows] /\ task[t].lock = 0
      /\ record \in RecordRows /\ disk \in DiskRows /\ Placed(task[t])
  BY <1>1, WorkFacts, Zenon
<1>3. CASE disk.git /\ disk.at # NoCommit
  <2>1. /\ disk.at \in Commits /\ First \in Sources /\ 0 \in 0 .. MaxTries - 1 /\ "save" \in Places
    BY <1>2, WorkspacesAssumption DEF DiskRows, Places, Exclusive
  <2>2. PICK c \in Commits : c = disk.at
    BY <2>1, Zenon
  <2>3. /\ task' = [task EXCEPT ![t].at = "save", ![t].sha = c, ![t].source = First, ![t].tries = 0]
        /\ strayed' = (Background # {})
    BY <1>3, <2>2, Zenon DEF ReadHead
  <2>4. /\ task' \in [Tasks -> TaskRows] /\ \A u \in Tasks \ {t} : task'[u] = task[u]
        /\ task'[t].at = "save" /\ task'[t].kind = task[t].kind /\ task'[t].lock = task[t].lock
        /\ task'[t].sha = c
    <3>1. task' = [task EXCEPT ![t].at = "save", ![t].sha = c, ![t].source = First, ![t].tries = 0]
      BY <2>3, Zenon
    <3>2. First \in Sources /\ 0 \in 0 .. MaxTries - 1 /\ "save" \in Places /\ task \in [Tasks -> TaskRows]
      BY <1>2, <2>1, Zenon
    <3>3. PICK e \in TaskRows : e = task[t]
      BY <3>2, Zenon
    <3>4. PICK g : g = [e EXCEPT !.at = "save", !.sha = c, !.source = First, !.tries = 0]
      BY Zenon
    <3>5. task' = [task EXCEPT ![t] = g]
      BY <3>1, <3>2, <3>3, <3>4, Zenon
    <3>6. g \in TaskRows /\ g.at = "save" /\ g.kind = e.kind /\ g.lock = e.lock /\ g.sha = c
      BY <3>2, <3>4, Zenon DEF TaskRows
    <3>7. task' \in [Tasks -> TaskRows] /\ task'[t] = g /\ \A u \in Tasks \ {t} : task'[u] = task[u]
      BY <3>2, <3>5, <3>6, RowStep, Zenon
    <3> QED BY <3>3, <3>6, <3>7, Zenon
  <2>5. Placed(task'[t])
    BY <1>2, <2>4, Zenon DEF Placed, Unlocked, FetchPlaces, Fetches, Syncs
  <2>6. TreeInv'
    BY <1>1, <1>2, <1>3, <2>2, <2>3, <2>4, WriterTree, Zenon
  <2>7. ~(entry = 1 /\ ~haunted) /\ strayed' \in BOOLEAN
    BY <1>1, <2>3, PlaceFacts, Zenon
  <2> QED BY <1>1, <1>2, <2>4, <2>5, <2>6, <2>7, TreeStep, Zenon
<1>4. CASE ~(disk.git /\ disk.at # NoCommit)
  <2>1. Abandoned(t) /\ UNCHANGED strayed
    BY <1>4, Zenon DEF ReadHead
  <2>2. strayed
    BY <1>1, <1>4, Zenon DEF WorkspacesInv, TreeInv
  <2> QED BY <1>1, <2>1, <2>2, EndsQuietly, Zenon
<1> QED BY <1>3, <1>4, Zenon

\* SaveFetched.
LEMMA SaveStep ==
  ASSUME WorkspacesInv, NEW t \in Tasks, SaveFetched(t)
  PROVE  WorkspacesInv'
<1>1. task[t].at = "save" /\ UNCHANGED <<disk, head, entry, stacked, ticking, haunted>>
  BY Zenon DEF SaveFetched
<1>2. /\ Writes(t) /\ task[t].kind \in Fetches \cup Syncs /\ task \in [Tasks -> TaskRows] /\ task[t].lock = 0
      /\ record \in RecordRows /\ disk \in DiskRows /\ Placed(task[t]) /\ strayed \in BOOLEAN
  BY <1>1, WorkFacts, Zenon
<1>3. ~(entry = 1 /\ ~haunted)
  BY <1>1, PlaceFacts, Zenon
<1>4. CASE UNCHANGED record /\ strayed' = TRUE /\ Abandoned(t)
  <2>1. /\ task' \in [Tasks -> TaskRows] /\ \A u \in Tasks \ {t} : task'[u] = task[u]
        /\ task'[t].at = "idle" /\ task'[t].kind = "none" /\ Placed(task'[t])
    BY <1>2, <1>4, AbandonStep, Zenon
  <2>2. TreeInv' /\ strayed' \in BOOLEAN
    BY <1>4, Zenon DEF TreeInv
  <2> QED BY <1>1, <1>2, <1>3, <1>4, <2>1, <2>2, TreeStep, Zenon
<1>5. CASE /\ record.exists /\ record' = [record EXCEPT !.sha = task[t].sha]
           /\ LockReleased(t) /\ UNCHANGED strayed
  <2>1. task[t].sha \in Commits /\ entry = 0
    BY <1>2, <1>5, Zenon DEF TaskRows, WorkspacesInv, LifeInv
  <2>2. /\ record' \in RecordRows /\ record'.sha = task[t].sha
        /\ record'.exists = record.exists /\ record'.edits = record.edits
    BY <1>2, <1>5, <2>1, Zenon DEF RecordRows
  <2>3. PICK g : g = IF task[t].kind \in Syncs
                     THEN [Resting EXCEPT !.kind = task[t].kind, !.at = "rlock", !.lock = entry] ELSE Resting
    BY Zenon
  <2>4. /\ g \in TaskRows /\ g.lock = 0
        /\ \/ g.kind = "none" /\ g.at = "idle"
           \/ g.kind = task[t].kind /\ g.kind \in Syncs /\ g.at = "rlock"
    <3>1. CASE task[t].kind \in Syncs
      <4>1. PICK r \in TaskRows : r = Resting
        BY CommitFacts, Zenon
      <4>2. PICK k \in Kinds : k = task[t].kind
        BY <1>2, Zenon DEF TaskRows
      <4>3. g = [r EXCEPT !.kind = k, !.at = "rlock", !.lock = 0]
        BY <2>1, <2>3, <3>1, <4>1, <4>2, Zenon
      <4>4. 0 \in 0 .. 1 /\ "rlock" \in Places
        BY DEF Places
      <4>5. g \in TaskRows /\ g.lock = 0 /\ g.kind = k /\ g.at = "rlock"
        BY <4>3, <4>4, Zenon DEF TaskRows
      <4> QED BY <3>1, <4>2, <4>5, Zenon
    <3>2. CASE task[t].kind \notin Syncs
      BY <2>3, <3>2, CommitFacts, Zenon
    <3> QED BY <3>1, <3>2, Zenon
  <2>5. task' = [task EXCEPT ![t] = g]
    BY <1>2, <1>5, <2>3, Zenon DEF LockReleased
  <2>6. task' \in [Tasks -> TaskRows] /\ task'[t] = g /\ \A u \in Tasks \ {t} : task'[u] = task[u]
    BY <1>2, <2>4, <2>5, RowStep, Zenon
  <2>7. Placed(g)
    BY <2>4, Zenon DEF Placed, Unlocked, FetchPlaces, Fetches, Syncs
  <2>8. TreeInv'
    <3>1. ~strayed => disk.at = task[t].sha
      BY <1>1, Zenon DEF WorkspacesInv, TreeInv
    <3> QED BY <1>1, <1>2, <1>5, <2>2, <2>4, <2>6, <3>1, WriterTree, Zenon
  <2>9. task'[t].kind \in {task[t].kind, "none"} /\ task'[t].at # "reading"
    BY <2>4, <2>6, Zenon
  <2> QED BY <1>1, <1>2, <1>3, <1>5, <2>2, <2>6, <2>7, <2>8, <2>9, TreeStep, Zenon
<1> QED BY <1>4, <1>5, Zenon DEF SaveFetched

\* RemoveTree: it holds the lock, so everybody else waits or takes none.
LEMMA RemoveStep ==
  ASSUME WorkspacesInv, NEW t \in Tasks, RemoveTree(t)
  PROVE  WorkspacesInv'
<1>1. /\ task[t].at = "remove" /\ disk' = Gone /\ entry' = entry + 1 /\ Abandoned(t)
      /\ haunted' = (Background # {}) /\ UNCHANGED <<record, head, stacked, ticking, strayed>>
  BY Zenon DEF RemoveTree
<1>2. /\ task[t].kind = "remove" /\ task \in [Tasks -> TaskRows]
  BY <1>1, PlaceFacts, Zenon DEF Placed, Kinds, UnlockedPlaces, FetchPlaces
<1>3. Writes(t)
  BY <1>1, <1>2, Zenon DEF Writes, Exclusive, Unlocked
<1>4. /\ ~record.exists /\ entry = 0 /\ record.edits # 0 /\ \A u \in Tasks \ {t} : task[u].kind # "remove"
  BY <1>2, Zenon DEF WorkspacesInv, LifeInv
<1>5. /\ task' \in [Tasks -> TaskRows] /\ \A u \in Tasks \ {t} : task'[u] = task[u]
      /\ task'[t].at = "idle" /\ task'[t].kind = "none" /\ Placed(task'[t])
  BY <1>1, <1>2, AbandonStep, Zenon
<1>6. WorkspaceTypes'
  <2>1. disk' \in DiskRows /\ entry' \in 0 .. 1
    BY <1>1, <1>4, CommitFacts
  <2>2. haunted' \in BOOLEAN
    BY <1>1, Zenon
  <2> QED BY <1>1, <1>5, <2>1, <2>2, Zenon DEF WorkspacesInv, WorkspaceTypes
<1>7. PlacesInv'
  BY <1>5, Zenon DEF WorkspacesInv, PlacesInv
<1>8. LifeInv'
  <2>1. \A u \in Tasks : task'[u].kind # "remove"
    BY <1>4, <1>5, Zenon
  <2>2. ~(ticking' \/ stacked')
    BY <1>1, <1>4, Zenon DEF WorkspacesInv, LifeInv
  <2> QED BY <1>1, <1>4, <2>1, <2>2, Zenon DEF LifeInv
<1>9. MutexInv'
  <2>1. ~Writes(t)' /\ ~Reads(t)'
    BY <1>5, Zenon DEF Writes, Reads, Exclusive
  <2> QED BY <1>5, <2>1, LockStep, Zenon DEF WorkspacesInv
<1>10. TreeInv'
  <2>1. disk'.git = FALSE
    BY <1>1, CommitFacts, Zenon
  <2> QED BY <1>1, <1>3, <1>5, <2>1, WriterTree, Zenon
<1>11. RemovedInv'
  <2> SUFFICES ASSUME Background = {}
               PROVE  /\ ~disk'.git
                      /\ \A u \in Tasks : /\ task'[u].kind \notin Unlocked
                                          /\ task'[u].at \in {"idle", "lock", "rlock", "load"}
    BY <1>1, Zenon DEF RemovedInv
  <2>1. ~disk'.git
    BY <1>1, CommitFacts, Zenon
  <2>2. ASSUME NEW u \in Tasks
        PROVE  task'[u].kind \notin Unlocked /\ task'[u].at \in {"idle", "lock", "rlock", "load"}
    <3>1. CASE u = t
      BY <1>5, <3>1, Zenon DEF Unlocked
    <3>2. CASE u # t
      <4>1. ~Writes(u) /\ ~Reads(u) /\ task[u].kind \notin Unlocked /\ task[u].at \in Places
        BY <1>3, <3>2, PlaceFacts, Zenon DEF WorkspacesInv, MutexInv, Background
      <4>2. task[u].at \in {"idle", "lock", "rlock"}
        BY <4>1, Zenon DEF Writes, Reads, Places
      <4> QED BY <1>5, <3>2, <4>1, <4>2, Zenon
    <3> QED BY <3>1, <3>2, Zenon
  <2> QED BY <2>1, <2>2, Zenon
<1> QED BY <1>6, <1>7, <1>8, <1>9, <1>10, <1>11, Zenon DEF WorkspacesInv

\* The working tree of a repository has one writer among those that use the lock,
\* a sync renders the commit it reports, and a deleted tree stays deleted, for any
\* number of goroutines, sources, pushes, edits and attempts.
THEOREM WorkspacesCorrect == WorkspacesSpec => []WorkspacesSafety
<1>1. WorkspacesInit => WorkspacesInv
  <2> SUFFICES ASSUME WorkspacesInit PROVE WorkspacesInv
    BY Zenon
  <2>1. /\ disk = Gone /\ head = 1 /\ entry = 0 /\ stacked = FALSE /\ ticking = FALSE /\ strayed = FALSE
        /\ haunted = FALSE
    BY Zenon DEF WorkspacesInit
  <2>2. task \in [Tasks -> TaskRows] /\ \A t \in Tasks : task[t] = Resting
    BY CommitFacts, Zenon DEF WorkspacesInit
  <2>3. record \in RecordRows /\ record.exists = FALSE /\ record.sha = NoCommit /\ record.edits = 0
    <3>1. 0 \in 0 .. MaxEdits + 1 /\ First \in Sources
      BY WorkspacesAssumption
    <3> QED BY <3>1, CommitFacts, Zenon DEF WorkspacesInit, RecordRows
  <2>4. head \in 1 .. MaxPushes + 1 /\ entry \in 0 .. 1
    BY <2>1, WorkspacesAssumption
  <2>5. WorkspaceTypes
    BY <2>1, <2>2, <2>3, <2>4, CommitFacts, Zenon DEF WorkspaceTypes
  <2>6. Placed(Resting)
    BY CommitFacts, Zenon DEF Placed, Unlocked, Fetches, Syncs
  <2>7. PlacesInv /\ LifeInv
    BY <2>1, <2>2, <2>3, <2>6, CommitFacts, Zenon DEF PlacesInv, LifeInv
  <2>8. MutexInv /\ TreeInv
    BY <2>1, <2>2, CommitFacts, Zenon DEF MutexInv, TreeInv, Writes, TornBy, Exclusive
  <2>9. RemovedInv
    BY <2>1 DEF RemovedInv
  <2> QED BY <2>5, <2>7, <2>8, <2>9, Zenon DEF WorkspacesInv
<1>2. WorkspacesInv /\ [WorkspacesNext]_workspaceVars => WorkspacesInv'
  <2> SUFFICES ASSUME WorkspacesInv, [WorkspacesNext]_workspaceVars PROVE WorkspacesInv'
    BY Zenon
  <2>1. ASSUME NEW t \in Tasks, CreateRepository(t) \/ DeleteRepository(t) PROVE WorkspacesInv'
    BY <2>1, RecordSteps, Zenon
  <2>2. ASSUME NEW t \in Tasks,
               \/ Tick(t) \/ FetchByHand(t) \/ BeginSync(t) \/ BeginRollback(t)
               \/ BrowseFiles(t) \/ EditRepository(t)
        PROVE  WorkspacesInv'
    BY <2>2, StartSteps, Zenon
  <2>3. ASSUME NEW t \in Tasks, LockRepository(t) \/ TickSkips(t) \/ ReadDone(t) PROVE WorkspacesInv'
    BY <2>3, LockSteps, Zenon
  <2>4. ASSUME NEW t \in Tasks, ReadLock(t) PROVE WorkspacesInv'
    BY <2>4, ReadLockStep, Zenon
  <2>5. ASSUME NEW t \in Tasks, LoadRecord(t) \/ StatTree(t) \/ CloneOrFetch(t) \/ FetchRemote(t)
        PROVE  WorkspacesInv'
    BY <2>5, LookSteps, Zenon
  <2>6. ASSUME NEW t \in Tasks, ClearTree(t) PROVE WorkspacesInv'
    BY <2>6, ClearStep, Zenon
  <2>7. ASSUME NEW t \in Tasks, CloneStarts(t) \/ CloneEnds(t) PROVE WorkspacesInv'
    BY <2>7, CloneStartsStep, CloneEndsStep, Zenon
  <2>8. ASSUME NEW t \in Tasks, ResetStarts(t) \/ ResetEnds(t) PROVE WorkspacesInv'
    BY <2>8, ResetStartsStep, ResetEndsStep, Zenon
  <2>9. ASSUME NEW t \in Tasks, ReadHead(t) \/ SaveFetched(t) PROVE WorkspacesInv'
    BY <2>9, ReadHeadStep, SaveStep, Zenon
  <2>10. ASSUME NEW t \in Tasks, RemoveTree(t) PROVE WorkspacesInv'
    BY <2>10, RemoveStep, Zenon
  <2>11. CASE AddRepoStack \/ DeleteRepoStack \/ Push \/ UNCHANGED workspaceVars
    <3>1. UNCHANGED <<record, disk, task, entry, ticking, strayed, haunted>>
          /\ (stacked' => stacked \/ record.exists)
      BY <2>11 DEF AddRepoStack, DeleteRepoStack, Push, workspaceVars
    <3>2. stacked' \in BOOLEAN
      BY <2>11, Zenon DEF AddRepoStack, DeleteRepoStack, Push, workspaceVars, WorkspacesInv, WorkspaceTypes
    <3>3. head' \in 1 .. MaxPushes + 1
      <4>1. head \in 1 .. MaxPushes + 1
        BY Zenon DEF WorkspacesInv, WorkspaceTypes
      <4> QED BY <2>11, <4>1, WorkspacesAssumption DEF AddRepoStack, DeleteRepoStack, Push, workspaceVars
    <3>4. WorkspaceTypes'
      BY <3>1, <3>2, <3>3, Zenon DEF WorkspacesInv, WorkspaceTypes
    <3>5. PlacesInv' /\ LifeInv'
      BY <3>1, Zenon DEF WorkspacesInv, PlacesInv, LifeInv
    <3>6. MutexInv' /\ TreeInv' /\ RemovedInv'
      BY <3>1, Zenon DEF WorkspacesInv, MutexInv, TreeInv, RemovedInv, Writes, Reads, TornBy
    <3> QED BY <3>4, <3>5, <3>6, Zenon DEF WorkspacesInv
  <2> QED BY <2>1, <2>2, <2>3, <2>4, <2>5, <2>6, <2>7, <2>8, <2>9, <2>10, <2>11, Zenon DEF WorkspacesNext
<1>3. WorkspacesInv => WorkspacesSafety
  <2> SUFFICES ASSUME WorkspacesInv PROVE WorkspacesSafety
    BY Zenon
  <2>1. WorkspacesTypeOK
    BY Zenon DEF WorkspacesInv, WorkspaceTypes, WorkspacesTypeOK, TaskRows, RecordRows, DiskRows
  <2>2. TreeHasOneWriter
    BY Zenon DEF WorkspacesInv, MutexInv, TreeHasOneWriter
  <2>3. RenderedIsTheRecordedCommit
    <3> SUFFICES ASSUME NEW t \in Tasks, Reads(t), ~strayed
                 PROVE  disk.git /\ disk.at = task[t].sha /\ \A u \in Tasks : ~TornBy(u)
      BY Zenon DEF RenderedIsTheRecordedCommit
    <3>1. disk.git /\ disk.at = task[t].sha
      BY Zenon DEF WorkspacesInv, TreeInv, Reads
    <3>2. ASSUME NEW u \in Tasks, TornBy(u) PROVE FALSE
      <4>1. task[u].kind \in Fetches \cup Syncs
        BY <3>2, Zenon DEF WorkspacesInv, TreeInv
      <4>2. Writes(u) /\ u # t
        BY <3>2, <4>1, Zenon DEF TornBy, Writes, Reads, Exclusive, Unlocked, Fetches, Syncs
      <4> QED BY <4>2, Zenon DEF WorkspacesInv, MutexInv
    <3> QED BY <3>1, <3>2, Zenon
  <2>4. RemovedStaysRemoved
    BY Zenon DEF WorkspacesInv, RemovedInv, RemovedStaysRemoved
  <2> QED BY <2>1, <2>2, <2>3, <2>4, Zenon DEF WorkspacesSafety
<1> QED BY <1>1, <1>2, <1>3, PTL DEF WorkspacesSpec

(***************************************************************************)
(* A stack imported from a compose file on a worker host, for any number   *)
(* of edits, requests and faults. The property speaks of a row with a raw  *)
(* checksum. It is kept because such a row names the revision it was       *)
(* deployed from, because that revision stays on disk while later ones are *)
(* written beside it, and because a command that may still reach the host  *)
(* is one of an attempt that had replaced the checksum before. The bound   *)
(* on versions needs an account of what pays for each: an edit or a        *)
(* request that is rendered once.                                          *)
(***************************************************************************)

\* What is known of a row with a checksum: the revision it names is on disk.
Rev == revisionOf[localRow.version]
Raw == localRow.sum = RawSum(Rev.file)

\* The syncs an operator asked for and whose rendering is not behind them.
Unrendered == {"queue", "read", "compare", "env", "render"}
OwedQueued == IF "manual" \in queued THEN 1 ELSE 0
OwedSync == IF sync.trigger = "manual" /\ sync.at \in Unrendered THEN 1 ELSE 0
Spent == asks - OwedQueued - OwedSync

LocalTypes ==
  /\ file \in 1..MaxFile /\ env \in 1..MaxEnv
  /\ localRow \in StackRows
  /\ DOMAIN revisionOf \subseteq 1..MaxVersion
  /\ \A v \in DOMAIN revisionOf : revisionOf[v] \in Contents
  /\ hostRuns \subseteq Contents /\ late \subseteq Contents
  /\ sync \in [at : Stages, trigger : LocalTriggers, row : StackRows,
               prev : LocalStatuses, file : 1..MaxFile, env : 1..MaxEnv,
               version : 0..MaxVersion]
  /\ queued = {} \/ \E t \in LocalTriggers : queued = {t}
  /\ linked \in BOOLEAN /\ arrived \in BOOLEAN /\ overtaken \in BOOLEAN
  /\ asks \in 0..MaxManual /\ localFaults \in 0..MaxLocalFaults

\* A version is paid for: by the first contents of the file and the variables, by
\* each edit of one that has been rendered, and by each sync an operator asked for.
RowInv ==
  /\ localRow.sum = NoSum => localRow.version = 0 /\ ~localRow.synced
  /\ localRow.sum # NoSum =>
       /\ localRow.version \in DOMAIN revisionOf
       /\ localRow.sum = RenderSum(Rev) \/ Raw
       /\ Rev.file <= file /\ Rev.env <= env
       /\ localRow.version <= Rev.file + Rev.env - 1 + Spent
       /\ Raw => localRow.deployed = localRow.version /\ localRow.synced

\* A recorded sync left the host with its revision and nothing outstanding.
HostInv ==
  localRow.sum # NoSum /\ Raw /\ ~overtaken => late = {} /\ hostRuns = {Rev}

\* The copy of the row a sync works on, and what it has read, written or shipped.
SyncInv ==
  sync.at # "idle" =>
    /\ sync.row.sum = localRow.sum /\ sync.row.version = localRow.version
    /\ sync.row.deployed = localRow.deployed /\ sync.row.synced = localRow.synced
    /\ sync.at \in {"compare", "env", "render", "written"} =>
         sync.file <= file /\ (localRow.sum # NoSum => Rev.file <= sync.file)
    /\ sync.at \in {"env", "render"} => ~Unchanged(sync)
    /\ sync.at \in {"render", "written"} =>
         sync.env <= env /\ (localRow.sum # NoSum => Rev.env <= sync.env)
    /\ sync.at = "written" =>
         /\ sync.version \in DOMAIN revisionOf /\ revisionOf[sync.version] = Desired
         /\ sync.version <= sync.file + sync.env - 1 + Spent
    /\ sync.at \in {"log", "dispatch", "check"} =>
         sync.row.sum = RenderSum(Desired) /\ sync.version = sync.row.version
    /\ sync.at = "check" /\ ~overtaken => late = {} /\ hostRuns = {Desired}

LocalInv == LocalTypes /\ 0 <= Spent /\ RowInv /\ HostInv /\ SyncInv

\* Two rows that agree in what the invariant says of a row.
Alike(r, q) ==
  /\ r.sum = q.sum /\ r.version = q.version
  /\ r.deployed = q.deployed /\ r.synced = q.synced

\* The revision the row names stays on disk as it is.
DiskKept ==
  /\ DOMAIN revisionOf' \subseteq 1..MaxVersion
  /\ \A v \in DOMAIN revisionOf' : revisionOf'[v] \in Contents
  /\ localRow.sum # NoSum => /\ localRow.version \in DOMAIN revisionOf'
                              /\ revisionOf'[localRow.version] = Rev

HostTyped == hostRuns \subseteq Contents /\ late \subseteq Contents /\ overtaken \in BOOLEAN

\* Nothing reaches the host, or nothing is claimed of it.
HostKept ==
  UNCHANGED <<hostRuns, late, overtaken>> \/ (localRow.sum # NoSum => ~Raw) \/ overtaken'

SyncRows == [at : Stages, trigger : LocalTriggers, row : StackRows,
             prev : LocalStatuses, file : 1..MaxFile, env : 1..MaxEnv,
             version : 0..MaxVersion]

-----------------------------------------------------------------------------
(* The two hashes that share the column "checksum" never coincide, and each  *)
(* stands for what it was computed from (RawSum, RenderSum).                 *)
LEMMA RenderIsSum ==
  ASSUME NEW c \in Contents
  PROVE  RenderSum(c) # NoSum
BY SMT DEF RenderSum, NoSum

(* The raw hash of a file is a checksum, too. *)
LEMMA RawIsSum ==
  ASSUME NEW f \in 1..MaxFile
  PROVE  RawSum(f) # NoSum
BY SMT DEF RawSum, NoSum

(* A rendering's hash is no raw hash. *)
LEMMA SumsDiffer ==
  ASSUME NEW c \in Contents, NEW f \in 1..MaxFile
  PROVE  RenderSum(c) # RawSum(f)
<1>1. RenderSum(c)[1] = "render" /\ RawSum(f)[1] = "raw"
  BY SMT DEF RenderSum, RawSum
<1> QED BY <1>1, Zenon

(* The hash of a rendering tells the contents. *)
LEMMA RenderTells ==
  ASSUME NEW c \in Contents, NEW d \in Contents, RenderSum(c) = RenderSum(d)
  PROVE  c = d
<1>1. RenderSum(c)[2] = c.file /\ RenderSum(c)[3] = c.env
  BY SMT DEF RenderSum
<1>2. RenderSum(d)[2] = d.file /\ RenderSum(d)[3] = d.env
  BY SMT DEF RenderSum
<1>3. c.file = d.file /\ c.env = d.env => c = d
  BY SMT DEF Contents
<1> QED BY <1>1, <1>2, <1>3, Zenon

(* A raw hash tells the file. *)
LEMMA RawTells ==
  ASSUME NEW f \in 1..MaxFile, NEW g \in 1..MaxFile, RawSum(f) = RawSum(g)
  PROVE  f = g
BY SMT DEF RawSum

(* The bounds of the model are numbers. *)
LEMMA LocalBounds ==
  /\ MaxVersion \in Nat /\ MaxVersion = MaxFile + MaxEnv + MaxManual
  /\ 1 \in 1..MaxFile /\ 1 \in 1..MaxEnv /\ 0 \in 0..MaxVersion
BY LocalAssumption, SMT DEF MaxVersion

(* What an operator asked for is counted once: as queued or as in progress. *)
LEMMA SpentTyped ==
  ASSUME LocalTypes
  PROVE  OwedQueued \in 0..1 /\ OwedSync \in 0..1 /\ Spent \in Int /\ Spent <= asks
BY LocalAssumption, SMT DEF LocalTypes, OwedQueued, OwedSync, Spent

(* A request that is counted before it becomes a sync is not counted twice. *)
LEMMA Balance ==
  ASSUME NEW a \in Int, NEW q \in Int, NEW o \in Int, NEW b \in Int, NEW p \in Int,
         NEW u \in Int, NEW n \in Int,
         0 <= a - q - o, o = 0, u <= n, a - q + n <= b - p
  PROVE  a - q - o <= b - p - u /\ 0 <= b - p - u
OBVIOUS

(* Nothing owed adds nothing. *)
LEMMA PlusNothing ==
  ASSUME NEW n \in Int
  PROVE  n + 0 = n
OBVIOUS

(* The same after a step. *)
LEMMA SpentTypedNext ==
  ASSUME LocalTypes'
  PROVE  OwedQueued' \in 0..1 /\ OwedSync' \in 0..1 /\ Spent' \in Int /\ asks' \in Int
BY LocalAssumption, SMT DEF LocalTypes, OwedQueued, OwedSync, Spent

(* A row with a checksum names one of the contents. *)
LEMMA RevTyped ==
  ASSUME LocalTypes, RowInv, localRow.sum # NoSum
  PROVE  /\ Rev \in Contents /\ Rev.file \in 1..MaxFile /\ Rev.env \in 1..MaxEnv
         /\ localRow.version \in 1..MaxVersion
<1>1. localRow.version \in DOMAIN revisionOf
  BY Zenon DEF RowInv
<1>2. Rev \in Contents /\ localRow.version \in 1..MaxVersion
  BY <1>1, Zenon DEF LocalTypes, Rev
<1>3. Rev.file \in 1..MaxFile /\ Rev.env \in 1..MaxEnv
  BY <1>2, SMT DEF Contents
<1> QED BY <1>2, <1>3, Zenon

(* A step that leaves the checksum and the versions alone, and forgets no   *)
(* request of an operator, keeps what is known of the row; the host as      *)
(* well, unless the row says that a deploy is due.                          *)
LEMMA RowKept ==
  ASSUME LocalTypes, RowInv, HostInv,
         Alike(localRow', localRow), DiskKept, HostKept,
         file' \in Int, env' \in Int, file <= file', env <= env',
         Spent' \in Int, Spent <= Spent'
  PROVE  RowInv' /\ HostInv' /\ (localRow.sum # NoSum => Rev' = Rev)
<1>1. localRow.sum # NoSum => Rev' = Rev /\ (Raw <=> Raw')
  BY Zenon DEF Alike, Rev, Raw, DiskKept
<1>2. HostInv'
  BY <1>1, Zenon DEF HostInv, Alike, HostKept
<1>3. localRow'.sum = NoSum => localRow'.version = 0 /\ ~localRow'.synced
  BY Zenon DEF RowInv, Alike
<1>4. ASSUME localRow'.sum # NoSum
      PROVE  /\ localRow'.version \in DOMAIN revisionOf'
             /\ localRow'.sum = RenderSum(Rev') \/ Raw'
             /\ Rev'.file <= file' /\ Rev'.env <= env'
             /\ localRow'.version <= Rev'.file + Rev'.env - 1 + Spent'
             /\ Raw' => localRow'.deployed = localRow'.version /\ localRow'.synced
  <2>1. localRow.sum # NoSum
    BY <1>4, Zenon DEF Alike
  <2>2. Rev.file \in Int /\ Rev.env \in Int /\ localRow.version \in Int
    BY <2>1, RevTyped, LocalBounds, SMT
  <2>3. localRow'.version \in DOMAIN revisionOf' /\ (localRow'.sum = RenderSum(Rev') \/ Raw')
    BY <1>1, <2>1, Zenon DEF RowInv, Alike, DiskKept
  <2>4. Raw' => localRow'.deployed = localRow'.version /\ localRow'.synced
    BY <1>1, <2>1, Zenon DEF RowInv, Alike
  <2>5. Rev.file <= file /\ Rev.env <= env /\ localRow.version <= Rev.file + Rev.env - 1 + Spent
    BY <2>1, Zenon DEF RowInv
  <2>6. Spent \in Int /\ file \in Int /\ env \in Int
    BY SpentTyped, SMT DEF LocalTypes
  <2>7. Rev.file <= file' /\ Rev.env <= env' /\ localRow.version <= Rev.file + Rev.env - 1 + Spent'
    BY <2>2, <2>5, <2>6, SMT
  <2> QED BY <2>1, <2>3, <2>4, <2>7, <1>1, Zenon DEF Alike
<1> QED BY <1>1, <1>2, <1>3, <1>4, Zenon DEF RowInv

(* A step that writes no revision keeps the one the row names. *)
LEMMA DiskUnchanged ==
  ASSUME LocalTypes, RowInv, revisionOf' = revisionOf
  PROVE  DiskKept
BY Zenon DEF LocalTypes, RowInv, DiskKept, Rev

(* markSyncError and its like write a status and the copy they are given, or *)
(* nothing.                                                                  *)
LEMMA Marked ==
  ASSUME LocalTypes, NEW r \in StackRows, NEW cause \in 0..1, MarkError(r, cause)
  PROVE  /\ localRow' \in StackRows /\ localFaults' \in 0..MaxLocalFaults
         /\ Alike(localRow', r) \/ localRow' = localRow
<1>1. localFaults' \in 0..MaxLocalFaults
  BY LocalAssumption, SMT DEF MarkError, Faults, LocalTypes
<1>2. [r EXCEPT !.status = "error"] \in StackRows /\ Alike([r EXCEPT !.status = "error"], r)
  BY SMT DEF StackRows, LocalStatuses, Alike
<1>3. localRow \in StackRows
  BY Zenon DEF LocalTypes
<1> QED BY <1>1, <1>2, <1>3, Zenon DEF MarkError

(* A save writes the copy, a save that fails nothing. *)
LEMMA SavedOrNot ==
  ASSUME LocalTypes, NEW r \in StackRows, SaveRow(r) \/ SaveFails
  PROVE  /\ localRow' \in StackRows /\ localFaults' \in 0..MaxLocalFaults
         /\ localRow' = r \/ localRow' = localRow
BY LocalAssumption, SMT DEF SaveRow, SaveFails, Faults, NoFault, LocalTypes

(* No sync: every clause about one is empty. *)
LEMMA SyncRests ==
  ASSUME sync' = NoSync
  PROVE  sync' \in SyncRows /\ SyncInv' /\ sync'.at = "idle"
<1>1. sync'.at = "idle"
  BY SMT DEF NoSync
<1>2. NewRow \in StackRows
  BY LocalBounds, SMT DEF NewRow, StackRows, Checksums, LocalStatuses
<1>3. NoSync \in SyncRows
  BY <1>2, LocalBounds, SMT DEF NoSync, SyncRows, Stages, LocalTriggers, LocalStatuses
<1> QED BY <1>1, <1>3, Zenon DEF SyncInv

-----------------------------------------------------------------------------
(* What the entry of ReconcileStack does to the row and which sync it leaves: *)
(* none, one that will be queued, or one that will read the file.             *)
LEMMA StartRow ==
  ASSUME LocalTypes, NEW t \in LocalTriggers, Start(t), sync.at = "idle"
  PROVE  /\ localRow' \in StackRows /\ localFaults' \in 0..MaxLocalFaults
         /\ Alike(localRow', localRow)
         /\ \/ sync' = sync
            \/ sync' = NoSync
            \/ /\ sync' \in SyncRows /\ sync'.at \in {"queue", "read"}
               /\ sync'.trigger = t /\ Alike(sync'.row, localRow')
<1> DEFINE begun == [NoSync EXCEPT !.trigger = t, !.row = localRow]
           syncing == [localRow EXCEPT !.status = "syncing"]
           waits == [begun EXCEPT !.at = "queue"]
           reads == [begun EXCEPT !.at = "read", !.row = syncing, !.prev = PrevStatus(localRow)]
<1>r. localRow \in StackRows /\ Alike(localRow, localRow)
  BY Zenon DEF LocalTypes, Alike
<1>s. syncing \in StackRows /\ Alike(syncing, localRow) /\ Alike(syncing, syncing)
  BY <1>r, SMT DEF StackRows, LocalStatuses, Alike
<1>e. /\ [localRow EXCEPT !.secretErr = TRUE] \in StackRows
      /\ Alike([localRow EXCEPT !.secretErr = TRUE], localRow)
  <2>1. TRUE \in BOOLEAN
    BY Zenon
  <2> QED BY <1>r, <2>1, Zenon DEF StackRows, Alike
<1>p. PrevStatus(localRow) \in LocalStatuses
  <2>1. localRow.status \in LocalStatuses /\ "active" \in LocalStatuses
    BY <1>r, SMT DEF StackRows, LocalStatuses
  <2> QED BY <2>1, Zenon DEF PrevStatus
<1>n. NoSync \in SyncRows
  <2>1. NewRow \in StackRows
    BY LocalBounds, SMT DEF NewRow, StackRows, Checksums, LocalStatuses
  <2> QED BY <2>1, LocalBounds, SMT DEF NoSync, SyncRows, Stages, LocalTriggers, LocalStatuses
<1>b. begun \in SyncRows /\ begun.trigger = t /\ begun.row = localRow
  BY <1>n, <1>r, Zenon DEF SyncRows
<1>w. waits \in SyncRows /\ waits.at = "queue" /\ waits.trigger = t /\ waits.row = localRow
  <2>1. "queue" \in Stages
    BY SMT DEF Stages
  <2> HIDE DEF begun
  <2> QED BY <2>1, <1>b, Zenon DEF SyncRows, waits
<1>q. reads \in SyncRows /\ reads.at = "read" /\ reads.trigger = t /\ reads.row = syncing
  <2>1. "read" \in Stages
    BY SMT DEF Stages
  <2> HIDE DEF begun, syncing
  <2> QED BY <2>1, <1>b, <1>s, <1>p, Zenon DEF SyncRows, reads
<1> HIDE DEF begun, syncing, waits, reads
<1>1. CASE NoFault /\ UNCHANGED <<localRow, sync>>
  <2>1. localFaults' \in 0..MaxLocalFaults
    BY <1>1, Zenon DEF NoFault, LocalTypes
  <2> QED BY <1>1, <1>r, <2>1, Zenon
<1>2. CASE MarkError([localRow EXCEPT !.secretErr = TRUE], 1) /\ EndSync
  <2>1. /\ localRow' \in StackRows /\ localFaults' \in 0..MaxLocalFaults
        /\ Alike(localRow', [localRow EXCEPT !.secretErr = TRUE]) \/ localRow' = localRow
    BY <1>2, <1>e, Marked, SMT
  <2>2. Alike(localRow', localRow)
    BY <2>1, <1>e, <1>r, Zenon DEF Alike
  <2> QED BY <1>2, <2>1, <2>2, Zenon DEF EndSync
<1>3. CASE MarkError(localRow, 1) /\ EndSync
  <2>1. /\ localRow' \in StackRows /\ localFaults' \in 0..MaxLocalFaults
        /\ Alike(localRow', localRow) \/ localRow' = localRow
    BY <1>3, <1>r, Marked, SMT
  <2>2. Alike(localRow', localRow)
    BY <2>1, <1>r, Zenon
  <2> QED BY <1>3, <2>1, <2>2, Zenon DEF EndSync
<1>4. CASE NoFault /\ UNCHANGED localRow /\ sync' = waits
  <2>1. localFaults' \in 0..MaxLocalFaults
    BY <1>4, Zenon DEF NoFault, LocalTypes
  <2>2. sync'.at \in {"queue", "read"} /\ Alike(sync'.row, localRow')
    BY <1>4, <1>w, <1>r, Zenon
  <2> QED BY <1>4, <1>w, <1>r, <2>1, <2>2, Zenon
<1>5. CASE SaveRow(syncing) /\ sync' = reads
  <2>1. localFaults' \in 0..MaxLocalFaults /\ localRow' = syncing
    BY <1>5, Zenon DEF NoFault, SaveRow, LocalTypes
  <2>2. sync'.at \in {"queue", "read"} /\ Alike(sync'.row, localRow')
    BY <1>5, <1>q, <1>s, <2>1, Zenon
  <2> QED BY <1>5, <1>q, <1>s, <2>1, <2>2, Zenon
<1>6. CASE SaveFails /\ EndSync
  <2>1. localFaults' \in 0..MaxLocalFaults /\ localRow' = localRow
    BY <1>6, <1>r, SavedOrNot, LocalAssumption, SMT DEF SaveFails, Faults, LocalTypes
  <2> QED BY <1>6, <1>r, <2>1, Zenon DEF EndSync
<1> QED BY <1>1, <1>2, <1>3, <1>4, <1>5, <1>6, Zenon DEF Start, begun, syncing, waits, reads

(* A sync that begins keeps the invariant, if the request it stands for was  *)
(* counted before (ReconcileStack, TriggerPendingReconciles).                *)
LEMMA StartKeeps ==
  ASSUME LocalInv, NEW t \in LocalTriggers, Start(t), sync.at = "idle",
         UNCHANGED <<file, env, linked, revisionOf, hostRuns, late, overtaken>>,
         arrived' \in BOOLEAN, asks' \in 0..MaxManual,
         queued' = {} \/ \E u \in LocalTriggers : queued' = {u},
         asks - OwedQueued + (IF t = "manual" THEN 1 ELSE 0) <= asks' - OwedQueued'
  PROVE  LocalInv'
<1> USE DEF LocalInv
<1>1. /\ localRow' \in StackRows /\ localFaults' \in 0..MaxLocalFaults
      /\ Alike(localRow', localRow)
      /\ \/ sync' = sync
         \/ sync' = NoSync
         \/ /\ sync' \in SyncRows /\ sync'.at \in {"queue", "read"}
            /\ sync'.trigger = t /\ Alike(sync'.row, localRow')
  BY StartRow, Zenon
<1>2. sync' \in SyncRows
  BY <1>1, SyncRests, Zenon DEF LocalTypes, SyncRows
<1>3. LocalTypes'
  BY <1>1, <1>2, Zenon DEF LocalTypes, SyncRows
<1>4. OwedSync' <= IF t = "manual" THEN 1 ELSE 0
  <2>1. sync'.at = "idle" \/ sync'.trigger = t
    BY <1>1, SyncRests, Zenon
  <2> QED BY <2>1, SMT DEF OwedSync, Unrendered
<1>5. OwedSync = 0
  BY SMT DEF OwedSync, Unrendered
<1>6. Spent \in Int /\ OwedQueued \in 0..1 /\ asks \in Int
  BY SpentTyped, LocalAssumption, SMT DEF LocalTypes
<1>7. Spent' \in Int /\ OwedQueued' \in 0..1 /\ OwedSync' \in 0..1 /\ asks' \in Int
  BY <1>3, SpentTypedNext, Zenon
<1>8. Spent <= Spent' /\ 0 <= Spent'
  <2>1. 0 <= Spent /\ asks - OwedQueued + (IF t = "manual" THEN 1 ELSE 0) <= asks' - OwedQueued'
    BY Zenon
  <2> DEFINE one == IF t = "manual" THEN 1 ELSE 0
  <2>2. one \in Int
    OBVIOUS
  <2> HIDE DEF one
  <2>3. 0 <= Spent /\ asks - OwedQueued + one <= asks' - OwedQueued' /\ OwedSync' <= one
    BY <2>1, <1>4, Zenon DEF one
  <2>4. Spent = asks - OwedQueued - OwedSync /\ Spent' = asks' - OwedQueued' - OwedSync'
    BY Zenon DEF Spent
  <2>5. {asks, OwedQueued, OwedSync, asks', OwedQueued', OwedSync', one} \subseteq Int
    <3>1. 0..1 \subseteq Int /\ 0 \in Int
      OBVIOUS
    <3> QED BY <3>1, <2>2, <1>5, <1>6, <1>7, Zenon
  <2> QED BY <2>3, <2>4, <2>5, <1>5, Balance, Zenon
<1>9. RowInv' /\ HostInv'
  <2>1. file' \in Int /\ env' \in Int /\ file <= file' /\ env <= env'
    BY SMT DEF LocalTypes
  <2>2. HostKept
    BY Zenon DEF HostKept
  <2> QED BY <2>1, <2>2, <1>1, <1>6, <1>7, <1>8, DiskUnchanged, RowKept, Zenon
<1>10. SyncInv'
  <2>1. CASE sync'.at = "idle"
    BY <2>1, Zenon DEF SyncInv
  <2>2. CASE sync'.at \in {"queue", "read"} /\ Alike(sync'.row, localRow')
    BY <2>2, SMT DEF SyncInv, Alike
  <2>3. sync' = sync \/ sync' = NoSync => sync'.at = "idle"
    BY SyncRests, Zenon
  <2> QED BY <2>1, <2>2, <2>3, <1>1, Zenon
<1> QED BY <1>3, <1>8, <1>9, <1>10, Zenon

(* A sync that goes on without touching the disk or the host, and one whose  *)
(* row changes only in its status, keep what is known of the row.            *)
LEMMA MoveKeeps ==
  ASSUME LocalInv, sync' \in SyncRows, localRow' \in StackRows,
         Alike(localRow', localRow), localFaults' \in 0..MaxLocalFaults,
         UNCHANGED <<file, env, asks>>, DiskKept, HostKept, HostTyped',
         linked' \in BOOLEAN, arrived' \in BOOLEAN,
         queued' = {} \/ \E t \in LocalTriggers : queued' = {t},
         OwedQueued' + OwedSync' <= OwedQueued + OwedSync
  PROVE  /\ LocalTypes' /\ 0 <= Spent' /\ RowInv' /\ HostInv'
         /\ localRow.sum # NoSum => Rev' = Rev
         /\ Spent' \in Int /\ Spent <= Spent'
<1> USE DEF LocalInv
<1>1. LocalTypes'
  BY Zenon DEF LocalTypes, SyncRows, DiskKept, HostTyped
<1>2. OwedQueued \in 0..1 /\ OwedSync \in 0..1 /\ Spent \in Int /\ asks \in Int
  BY SpentTyped, LocalAssumption, SMT DEF LocalTypes
<1>3. OwedQueued' \in 0..1 /\ OwedSync' \in 0..1 /\ Spent' \in Int
  BY <1>1, SpentTypedNext, Zenon
<1>4. Spent <= Spent' /\ 0 <= Spent'
  <2>1. asks' = asks /\ OwedQueued' + OwedSync' <= OwedQueued + OwedSync /\ 0 <= Spent
    BY Zenon
  <2>2. {asks, OwedQueued, OwedSync, OwedQueued', OwedSync'} \subseteq Int
    <3>1. 0..1 \subseteq Int
      OBVIOUS
    <3> QED BY <3>1, <1>2, <1>3, Zenon
  <2>3. Spent = asks - OwedQueued - OwedSync /\ Spent' = asks' - OwedQueued' - OwedSync'
    BY Zenon DEF Spent
  <2> QED BY <2>1, <2>2, <2>3, SMT
<1>5. file' \in Int /\ env' \in Int /\ file <= file' /\ env <= env'
  BY SMT DEF LocalTypes
<1>6. RowInv' /\ HostInv' /\ (localRow.sum # NoSum => Rev' = Rev)
  BY <1>3, <1>4, <1>5, RowKept, Zenon
<1> QED BY <1>1, <1>3, <1>4, <1>6, Zenon

(* A sync that ends owes nothing. *)
LEMMA EndOwes ==
  ASSUME LocalTypes, sync' = NoSync
  PROVE  /\ OwedSync' = 0
         /\ queued' = queued => OwedQueued' + OwedSync' <= OwedQueued + OwedSync
<1>1. OwedSync' = 0
  BY SMT DEF OwedSync, NoSync, Unrendered
<1>2. queued' = queued => OwedQueued' = OwedQueued
  BY Zenon DEF OwedQueued
<1>3. OwedQueued \in 0..1 /\ OwedSync \in 0..1
  BY SpentTyped, Zenon
<1> QED BY <1>1, <1>2, <1>3, SMT

(* An attempt that ends without a deploy, with a status and a copy that      *)
(* agree with the row, keeps the invariant.                                  *)
LEMMA EndKeeps ==
  ASSUME LocalInv, sync' = NoSync, localRow' \in StackRows,
         Alike(localRow', localRow), localFaults' \in 0..MaxLocalFaults,
         UNCHANGED <<file, env, asks>>, DiskKept, HostKept, HostTyped',
         linked' \in BOOLEAN, arrived' \in BOOLEAN,
         queued' = {} \/ \E t \in LocalTriggers : queued' = {t},
         OwedQueued' <= OwedQueued + OwedSync
  PROVE  LocalInv'
<1>1. OwedSync' = 0
  BY EndOwes, Zenon DEF LocalInv
<1>2. OwedQueued' + OwedSync' <= OwedQueued + OwedSync
  <2>1. OwedQueued' \in Int
    BY SMT DEF OwedQueued
  <2>2. OwedQueued' + 0 = OwedQueued'
    BY <2>1, PlusNothing, Zenon
  <2> QED BY <2>2, <1>1, Zenon
<1>3. sync' \in SyncRows /\ SyncInv'
  BY SyncRests, Zenon
<1>4. LocalTypes' /\ 0 <= Spent' /\ RowInv' /\ HostInv'
  BY <1>2, <1>3, MoveKeeps, Zenon
<1> QED BY <1>3, <1>4, Zenon DEF LocalInv

-----------------------------------------------------------------------------
(* The copy a sync carries agrees with the row while it is in progress. *)
LEMMA CopyOf ==
  ASSUME LocalInv, sync.at # "idle"
  PROVE  /\ Alike(sync.row, localRow) /\ sync.row \in StackRows /\ sync \in SyncRows
         /\ localRow \in StackRows /\ Alike(localRow, localRow)
         /\ \A r : Alike(r, sync.row) => Alike(r, localRow)
<1>1. Alike(sync.row, localRow)
  BY Zenon DEF LocalInv, SyncInv, Alike
<1>2. sync \in SyncRows
  BY Zenon DEF LocalInv, LocalTypes, SyncRows
<1>3. sync.row \in StackRows
  BY <1>2, Zenon DEF SyncRows
<1> QED BY <1>1, <1>2, <1>3, Zenon DEF LocalInv, LocalTypes, Alike

(* A sync that fails or finds nothing to do: its copy is marked, saved or     *)
(* dropped and the attempt ends (markSyncError, saveRecord).                  *)
LEMMA AttemptEnds ==
  ASSUME LocalInv, sync.at # "idle", sync' = NoSync,
         NEW r \in StackRows, Alike(r, sync.row),
         NEW cause \in 0..1, MarkError(r, cause) \/ SaveRow(r) \/ SaveFails,
         UNCHANGED <<file, env, asks, linked, arrived, queued>>,
         DiskKept, HostKept, HostTyped'
  PROVE  LocalInv'
<1>1. LocalTypes
  BY Zenon DEF LocalInv
<1>2. /\ localRow' \in StackRows /\ localFaults' \in 0..MaxLocalFaults
      /\ Alike(localRow', r) \/ localRow' = localRow
  <2>1. CASE MarkError(r, cause)
    BY <2>1, <1>1, Marked, Zenon
  <2>2. CASE SaveRow(r) \/ SaveFails
    BY <2>2, <1>1, SavedOrNot, Zenon DEF Alike
  <2> QED BY <2>1, <2>2, Zenon
<1>3. Alike(localRow', localRow)
  BY <1>2, CopyOf, Zenon DEF Alike
<1>4. linked' \in BOOLEAN /\ arrived' \in BOOLEAN /\ (queued' = {} \/ \E t \in LocalTriggers : queued' = {t})
  BY <1>1, Zenon DEF LocalTypes
<1>5. OwedQueued' <= OwedQueued + OwedSync
  <2>1. OwedQueued' = OwedQueued
    BY Zenon DEF OwedQueued
  <2>2. \A q, o \in 0..1 : q <= q + o
    BY SMT
  <2>3. OwedQueued \in 0..1 /\ OwedSync \in 0..1
    BY <1>1, SpentTyped, Zenon
  <2> QED BY <2>1, <2>2, <2>3, Zenon
<1> QED BY <1>2, <1>3, <1>4, <1>5, EndKeeps, Zenon

(* What the frame of a sync's step leaves alone, spelled out. *)
LEMMA FrameTyped ==
  ASSUME LocalInv
  PROVE  /\ revisionOf' = revisionOf => DiskKept
         /\ linked \in BOOLEAN /\ arrived \in BOOLEAN
         /\ queued = {} \/ \E t \in LocalTriggers : queued = {t}
         /\ UNCHANGED <<hostRuns, late, overtaken>> => HostKept /\ HostTyped'
         /\ localFaults \in 0..MaxLocalFaults
BY DiskUnchanged, Zenon DEF LocalInv, LocalTypes, HostKept, HostTyped

(* queuePendingReconcile turns a request in progress into a queued one. *)
LEMMA QueueKeeps ==
  ASSUME LocalInv, Queue
  PROVE  LocalInv'
<1>0. sync.at = "queue" /\ sync.at # "idle" /\ sync' = NoSync /\ LocalTypes
  BY SMT DEF Queue, EndSync, LocalInv
<1>1. UNCHANGED <<file, env, asks, revisionOf, overtaken, linked, arrived, hostRuns, late>>
  BY Zenon DEF Queue, World, Host
<1>2. sync.trigger \in LocalTriggers
  BY <1>0, CopyOf, Zenon DEF SyncRows
<1>3. \A q, o \in 0..1 : q <= q + o /\ o <= q + o /\ 0 <= q + o
  BY SMT
<1>4. OwedQueued \in 0..1 /\ OwedSync \in 0..1
  BY <1>0, SpentTyped, Zenon
<1>5. CASE queued' = Enqueued(sync.trigger) /\ (SaveRow(PendingOnQueue(sync.row)) \/ SaveFails)
  <2>1. PendingOnQueue(sync.row) \in StackRows /\ Alike(PendingOnQueue(sync.row), sync.row)
    <3>1. sync.row \in StackRows
      BY <1>0, CopyOf, Zenon
    <3>2. \A r \in StackRows : [r EXCEPT !.status = "pending"] \in StackRows
                               /\ Alike([r EXCEPT !.status = "pending"], r) /\ Alike(r, r)
      BY SMT DEF StackRows, LocalStatuses, Alike
    <3> QED BY <3>1, <3>2, Zenon DEF PendingOnQueue
  <2>2. /\ localRow' \in StackRows /\ localFaults' \in 0..MaxLocalFaults
        /\ localRow' = PendingOnQueue(sync.row) \/ localRow' = localRow
    BY <1>0, <1>5, <2>1, SavedOrNot, Zenon
  <2>3. Alike(localRow', localRow)
    BY <2>1, <2>2, <1>0, CopyOf, Zenon
  <2>4. OwedQueued' <= OwedQueued + OwedSync
    <3>1. OwedQueued' = OwedSync
      BY <1>0, <1>5, SMT DEF OwedQueued, OwedSync, Enqueued, Unrendered
    <3> QED BY <3>1, <1>3, <1>4, Zenon
  <2>5. \E t \in LocalTriggers : queued' = {t}
    BY <1>2, <1>5, Zenon DEF Enqueued
  <2> QED BY <1>0, <1>1, <2>2, <2>3, <2>4, <2>5, FrameTyped, EndKeeps, Zenon
<1>6. CASE queued' \in {queued, {}} /\ MarkError(sync.row, 1)
  <2>1. 1 \in 0..1
    OBVIOUS
  <2>2. /\ localRow' \in StackRows /\ localFaults' \in 0..MaxLocalFaults
        /\ Alike(localRow', sync.row) \/ localRow' = localRow
    BY <1>0, <1>6, <2>1, CopyOf, Marked, Zenon
  <2>3. Alike(localRow', localRow)
    BY <2>2, <1>0, CopyOf, Zenon
  <2>4. OwedQueued' <= OwedQueued + OwedSync
    <3>1. OwedQueued' = OwedQueued \/ OwedQueued' = 0
      BY <1>6, Zenon DEF OwedQueued
    <3> QED BY <3>1, <1>3, <1>4, Zenon
  <2>5. queued' = {} \/ \E t \in LocalTriggers : queued' = {t}
    BY <1>6, FrameTyped, Zenon
  <2> QED BY <1>0, <1>1, <2>2, <2>3, <2>4, <2>5, FrameTyped, EndKeeps, Zenon
<1> QED BY <1>5, <1>6, Zenon DEF Queue

(* A sync that goes on to another stage before it renders owes what it owed. *)
LEMMA GoesOwes ==
  ASSUME LocalTypes, sync'.trigger = sync.trigger, queued' = queued,
         sync.at \in Unrendered \/ sync'.at \notin Unrendered
  PROVE  OwedQueued' + OwedSync' <= OwedQueued + OwedSync
<1>1. OwedQueued' = OwedQueued
  BY Zenon DEF OwedQueued
<1>2. OwedSync' = OwedSync \/ OwedSync' = 0
  BY SMT DEF OwedSync
<1>3. OwedQueued \in 0..1 /\ OwedSync \in 0..1
  BY SpentTyped, Zenon
<1>4. \A q, o \in 0..1 : q + o <= q + o /\ q + 0 <= q + o
  BY SMT
<1> QED BY <1>1, <1>2, <1>3, <1>4, Zenon

(* ReadFileCommand: what is read is the file, no older than what was         *)
(* rendered before.                                                          *)
LEMMA ReadFileKeeps ==
  ASSUME LocalInv, ReadFile
  PROVE  LocalInv'
<1>0. sync.at = "read" /\ sync.at # "idle" /\ LocalTypes
  BY SMT DEF ReadFile, LocalInv
<1>1. UNCHANGED <<file, env, asks, revisionOf, overtaken, linked, arrived, hostRuns, late, queued>>
  BY Zenon DEF ReadFile, World, Host
<1>2. CASE NoFault /\ UNCHANGED localRow /\ sync' = [sync EXCEPT !.at = "compare", !.file = file]
  <2>1. sync \in SyncRows /\ file \in 1..MaxFile /\ "compare" \in Stages
    BY <1>0, CopyOf, SMT DEF LocalTypes, Stages
  <2>2. sync' \in SyncRows
    BY <1>2, <2>1, Zenon DEF SyncRows
  <2>3. sync'.at = "compare" /\ sync'.trigger = sync.trigger /\ sync'.row = sync.row /\ sync'.file = file
    BY <1>2, <2>1, Zenon DEF SyncRows
  <2>4. localRow' \in StackRows /\ Alike(localRow', localRow) /\ localFaults' \in 0..MaxLocalFaults
    BY <1>0, <1>2, CopyOf, FrameTyped, Zenon DEF NoFault
  <2>5. OwedQueued' + OwedSync' <= OwedQueued + OwedSync
    <3>1. sync.at \in Unrendered
      BY <1>0, SMT DEF Unrendered
    <3> QED BY <3>1, <1>0, <1>1, <2>3, GoesOwes, Zenon
  <2>6. LocalTypes' /\ 0 <= Spent' /\ RowInv' /\ HostInv' /\ (localRow.sum # NoSum => Rev' = Rev)
    BY <1>1, <2>2, <2>4, <2>5, FrameTyped, MoveKeeps, Zenon
  <2>7. Alike(sync'.row, localRow')
    BY <2>3, <1>0, <1>2, CopyOf, Zenon
  <2>8. sync'.file <= file' /\ (localRow'.sum # NoSum => Rev'.file <= sync'.file)
    <3>1. file <= file
      BY <2>1, SMT
    <3>2. localRow.sum # NoSum => Rev.file <= file
      BY Zenon DEF LocalInv, RowInv
    <3> QED BY <3>1, <3>2, <1>1, <1>2, <2>3, <2>6, Zenon
  <2>9. SyncInv'
    BY <2>3, <2>7, <2>8, SMT DEF SyncInv, Alike
  <2> QED BY <2>6, <2>9, Zenon DEF LocalInv
<1>3. CASE MarkError(sync.row, IF linked THEN 1 ELSE 0) /\ EndSync
  <2>1. (IF linked THEN 1 ELSE 0) \in 0..1
    OBVIOUS
  <2> QED BY <1>0, <1>1, <1>3, <2>1, CopyOf, FrameTyped, AttemptEnds, Zenon DEF Alike, EndSync
<1> QED BY <1>2, <1>3, Zenon DEF ReadFile

(* A step that only moves a sync from one stage to the next. *)
LEMMA Moves ==
  ASSUME LocalInv, sync.at # "idle", sync' \in SyncRows, localRow' \in StackRows,
         Alike(localRow', localRow), localFaults' \in 0..MaxLocalFaults,
         UNCHANGED <<file, env, asks, overtaken, linked, arrived, hostRuns, late, queued>>,
         DiskKept, sync'.trigger = sync.trigger,
         sync.at \in Unrendered \/ sync'.at \notin Unrendered
  PROVE  /\ LocalTypes' /\ 0 <= Spent' /\ RowInv' /\ HostInv'
         /\ localRow.sum # NoSum => Rev' = Rev
<1>1. OwedQueued' + OwedSync' <= OwedQueued + OwedSync
  BY GoesOwes, Zenon DEF LocalInv
<1> QED BY <1>1, FrameTyped, MoveKeeps, Zenon

(* The change detection: a sync that goes on has something to do. *)
LEMMA CompareKeeps ==
  ASSUME LocalInv, Compare
  PROVE  LocalInv'
<1>0. sync.at = "compare" /\ sync.at # "idle" /\ LocalTypes
  BY SMT DEF Compare, LocalInv
<1>1. UNCHANGED <<file, env, asks, revisionOf, overtaken, linked, arrived, hostRuns, late, queued>>
  BY Zenon DEF Compare, World, Host
<1>2. CASE EndSync /\ (SaveRow([sync.row EXCEPT !.status = sync.prev]) \/ SaveFails)
  <2> DEFINE r == [sync.row EXCEPT !.status = sync.prev]
  <2>1. r \in StackRows /\ Alike(r, sync.row)
    <3>1. sync.row \in StackRows /\ sync.prev \in LocalStatuses
      BY <1>0, CopyOf, Zenon DEF SyncRows
    <3>2. \A q \in StackRows, p \in LocalStatuses :
            [q EXCEPT !.status = p] \in StackRows /\ Alike([q EXCEPT !.status = p], q)
      BY SMT DEF StackRows, Alike
    <3> QED BY <3>1, <3>2, Zenon
  <2>2. 1 \in 0..1
    OBVIOUS
  <2>3. SaveRow(r) \/ SaveFails
    BY <1>2, Zenon
  <2> HIDE DEF r
  <2> QED BY <1>0, <1>1, <1>2, <2>1, <2>2, <2>3, FrameTyped, AttemptEnds, Zenon DEF EndSync
<1>3. CASE ~Unchanged(sync) /\ Goes("env") /\ SaveRow(localRow)
  <2>1. sync \in SyncRows /\ "env" \in Stages
    BY <1>0, CopyOf, SMT DEF Stages
  <2>2. sync' \in SyncRows
    BY <1>3, <2>1, Zenon DEF SyncRows, Goes
  <2>3. sync'.at = "env" /\ sync'.trigger = sync.trigger /\ sync'.row = sync.row /\ sync'.file = sync.file
    BY <1>3, <2>1, Zenon DEF SyncRows, Goes
  <2>4. localRow' = localRow /\ localFaults' \in 0..MaxLocalFaults
    BY <1>3, FrameTyped, Zenon DEF SaveRow, NoFault
  <2>5. sync.at \in Unrendered
    BY <1>0, SMT DEF Unrendered
  <2>6. LocalTypes' /\ 0 <= Spent' /\ RowInv' /\ HostInv' /\ (localRow.sum # NoSum => Rev' = Rev)
    BY <1>0, <1>1, <2>2, <2>3, <2>4, <2>5, CopyOf, FrameTyped, Moves, Zenon
  <2>7. Alike(sync'.row, localRow')
    BY <2>3, <2>4, <1>0, CopyOf, Zenon
  <2>8. sync'.file <= file' /\ (localRow'.sum # NoSum => Rev'.file <= sync'.file)
    <3>1. sync.file <= file /\ (localRow.sum # NoSum => Rev.file <= sync.file)
      BY <1>0, Zenon DEF LocalInv, SyncInv
    <3> QED BY <3>1, <1>1, <2>3, <2>4, <2>6, Zenon
  <2>9. ~Unchanged(sync')
    BY <1>3, <2>3, Zenon DEF Unchanged
  <2>10. SyncInv'
    BY <2>3, <2>7, <2>8, <2>9, SMT DEF SyncInv, Alike
  <2> QED BY <2>6, <2>10, Zenon DEF LocalInv
<1> QED BY <1>2, <1>3, Zenon DEF Compare

(* loadEnvVars and clearSecretError: the variables read are no older than    *)
(* those that were rendered before.                                          *)
LEMMA LoadEnvKeeps ==
  ASSUME LocalInv, LoadEnv
  PROVE  LocalInv'
<1>0. sync.at = "env" /\ sync.at # "idle" /\ LocalTypes
  BY SMT DEF LoadEnv, LocalInv
<1>1. UNCHANGED <<file, env, asks, revisionOf, overtaken, linked, arrived, hostRuns, late, queued>>
  BY Zenon DEF LoadEnv, World, Host
<1> DEFINE cleared == [sync.row EXCEPT !.secretErr = FALSE]
           failed == [sync.row EXCEPT !.secretErr = TRUE]
<1>s. /\ cleared \in StackRows /\ Alike(cleared, sync.row)
      /\ failed \in StackRows /\ Alike(failed, sync.row)
  <2>1. TRUE \in BOOLEAN /\ FALSE \in BOOLEAN /\ sync.row \in StackRows
    BY <1>0, CopyOf, Zenon
  <2> QED BY <2>1, Zenon DEF StackRows, Alike
<1>2. CASE MarkError(failed, 1) /\ EndSync
  <2>1. 1 \in 0..1
    OBVIOUS
  <2> HIDE DEF failed
  <2> QED BY <1>0, <1>1, <1>2, <1>s, <2>1, FrameTyped, AttemptEnds, Zenon DEF EndSync
<1>3. CASE /\ SaveRow(cleared) \/ SaveFails
           /\ sync' = [sync EXCEPT !.at = "render", !.env = env, !.row = cleared]
  <2> HIDE DEF cleared
  <2>1. sync \in SyncRows /\ "render" \in Stages /\ env \in 1..MaxEnv
    BY <1>0, CopyOf, SMT DEF Stages, LocalTypes
  <2>2. sync' \in SyncRows
    BY <1>3, <1>s, <2>1, Zenon DEF SyncRows
  <2>3. /\ sync'.at = "render" /\ sync'.trigger = sync.trigger /\ sync'.row = cleared
        /\ sync'.file = sync.file /\ sync'.env = env
    BY <1>3, <2>1, Zenon DEF SyncRows
  <2>4. /\ localRow' \in StackRows /\ localFaults' \in 0..MaxLocalFaults
        /\ localRow' = cleared \/ localRow' = localRow
    BY <1>0, <1>3, <1>s, SavedOrNot, Zenon
  <2>5. Alike(localRow', localRow) /\ Alike(sync'.row, localRow')
    BY <1>0, <1>s, <2>3, <2>4, CopyOf, Zenon DEF Alike
  <2>6. sync.at \in Unrendered
    BY <1>0, SMT DEF Unrendered
  <2>7. LocalTypes' /\ 0 <= Spent' /\ RowInv' /\ HostInv' /\ (localRow.sum # NoSum => Rev' = Rev)
    BY <1>0, <1>1, <2>2, <2>3, <2>4, <2>5, <2>6, FrameTyped, Moves, Zenon
  <2>8. sync'.file <= file' /\ (localRow'.sum # NoSum => Rev'.file <= sync'.file)
    <3>1. sync.file <= file /\ (localRow.sum # NoSum => Rev.file <= sync.file)
      BY <1>0, Zenon DEF LocalInv, SyncInv
    <3> QED BY <3>1, <1>1, <2>3, <2>5, <2>7, Zenon DEF Alike
  <2>9. sync'.env <= env' /\ (localRow'.sum # NoSum => Rev'.env <= sync'.env)
    <3>1. env <= env
      BY <2>1, SMT
    <3>2. localRow.sum # NoSum => Rev.env <= env
      BY Zenon DEF LocalInv, RowInv
    <3> QED BY <3>1, <3>2, <1>1, <2>3, <2>5, <2>7, Zenon DEF Alike
  <2>10. ~Unchanged(sync')
    <3>1. ~Unchanged(sync)
      BY <1>0, Zenon DEF LocalInv, SyncInv
    <3> QED BY <3>1, <2>3, <1>s, Zenon DEF Unchanged, Alike
  <2>11. SyncInv'
    BY <2>3, <2>5, <2>8, <2>9, <2>10, SMT DEF SyncInv, Alike
  <2> QED BY <2>7, <2>11, Zenon DEF LocalInv
<1> QED BY <1>2, <1>3, Zenon DEF LoadEnv

(* A rendering that is rejected marks the row. *)
LEMMA RejectedKeeps ==
  ASSUME LocalInv, Rejected
  PROVE  LocalInv'
<1>0. sync.at # "idle" /\ sync' = NoSync
  BY SMT DEF Rejected, EndSync
<1>1. UNCHANGED <<file, env, asks, revisionOf, overtaken, linked, arrived, hostRuns, late, queued>>
  BY Zenon DEF Rejected, World, Host
<1>2. 1 \in 0..1 /\ Alike(sync.row, sync.row)
  BY SMT DEF Alike
<1> QED BY <1>0, <1>1, <1>2, CopyOf, FrameTyped, AttemptEnds, Zenon DEF Rejected

(* GenerateRevision, when the stored checksum is that of the rendering: the  *)
(* version stays, and its file is on disk.                                   *)
LEMMA KeepVersionKeeps ==
  ASSUME LocalInv, KeepVersion
  PROVE  LocalInv'
<1>0. sync.at = "render" /\ sync.at # "idle" /\ LocalTypes /\ RowInv
  BY SMT DEF KeepVersion, LocalInv
<1>1. UNCHANGED <<file, env, asks, overtaken, linked, arrived, hostRuns, late, queued, localRow, localFaults>>
  BY Zenon DEF KeepVersion, World, Host
<1>2. Desired \in Contents
  <2>1. sync.file \in 1..MaxFile /\ sync.env \in 1..MaxEnv
    BY <1>0, CopyOf, Zenon DEF SyncRows
  <2> QED BY <2>1, Zenon DEF Desired, Contents
<1>3. sync.row.sum = RenderSum(Desired) /\ localRow.sum = RenderSum(Desired) /\ localRow.sum # NoSum
  <2>1. RenderSum(Desired) # NoSum
    BY <1>2, RenderIsSum, Zenon
  <2> QED BY <1>0, <2>1, CopyOf, Zenon DEF KeepVersion, Alike
<1>4. localRow.version \in DOMAIN revisionOf /\ localRow.version # 0 /\ sync.row.version = localRow.version
  <2>1. localRow.version \in 1..MaxVersion
    BY <1>0, <1>3, RevTyped, Zenon
  <2>2. localRow.version # 0
    BY <2>1, LocalBounds, SMT
  <2> QED BY <1>0, <1>3, <2>2, CopyOf, Zenon DEF RowInv, Alike
<1>5. Current(sync.row) = localRow.version
  BY <1>4, Zenon DEF Current
<1>6. revisionOf' = revisionOf /\ sync' = [sync EXCEPT !.at = "log", !.version = localRow.version]
  BY <1>4, <1>5, Zenon DEF KeepVersion
<1>7. sync \in SyncRows /\ "log" \in Stages /\ localRow.version \in 0..MaxVersion
  BY <1>0, CopyOf, SMT DEF Stages, StackRows
<1>8. sync' \in SyncRows
  BY <1>6, <1>7, Zenon DEF SyncRows
<1>9. /\ sync'.at = "log" /\ sync'.trigger = sync.trigger /\ sync'.row = sync.row
      /\ sync'.file = sync.file /\ sync'.env = sync.env /\ sync'.version = localRow.version
  BY <1>6, <1>7, Zenon DEF SyncRows
<1>10. sync'.at \notin Unrendered
  BY <1>9, SMT DEF Unrendered
<1>11. LocalTypes' /\ 0 <= Spent' /\ RowInv' /\ HostInv'
  BY <1>0, <1>1, <1>6, <1>8, <1>9, <1>10, CopyOf, FrameTyped, Moves, Zenon
<1>12. /\ Alike(sync'.row, localRow') /\ sync'.row.sum = RenderSum(Desired')
       /\ sync'.version = sync'.row.version
  BY <1>0, <1>1, <1>3, <1>4, <1>9, CopyOf, Zenon DEF Desired
<1>13. SyncInv'
  BY <1>9, <1>12, SMT DEF SyncInv, Alike
<1> QED BY <1>11, <1>13, Zenon DEF LocalInv

(* createSyncLog goes on to the deploy or leaves the row as it is. *)
LEMMA CreateSyncLogKeeps ==
  ASSUME LocalInv, CreateSyncLog
  PROVE  LocalInv'
<1>0. sync.at = "log" /\ sync.at # "idle" /\ LocalTypes
  BY SMT DEF CreateSyncLog, LocalInv
<1>1. UNCHANGED <<file, env, asks, revisionOf, overtaken, linked, arrived, hostRuns, late, queued>>
  BY Zenon DEF CreateSyncLog, World, Host
<1>2. CASE EndSync /\ SaveFails
  <2>1. 1 \in 0..1 /\ Alike(sync.row, sync.row)
    BY SMT DEF Alike
  <2> QED BY <1>0, <1>1, <1>2, <2>1, CopyOf, FrameTyped, AttemptEnds, Zenon DEF EndSync
<1>3. CASE Goes("dispatch") /\ SaveRow(localRow)
  <2>1. sync \in SyncRows /\ "dispatch" \in Stages
    BY <1>0, CopyOf, SMT DEF Stages
  <2>2. sync' \in SyncRows
    BY <1>3, <2>1, Zenon DEF SyncRows, Goes
  <2>3. /\ sync'.at = "dispatch" /\ sync'.trigger = sync.trigger /\ sync'.row = sync.row
        /\ sync'.file = sync.file /\ sync'.env = sync.env /\ sync'.version = sync.version
    BY <1>3, <2>1, Zenon DEF SyncRows, Goes
  <2>4. localRow' = localRow /\ localFaults' \in 0..MaxLocalFaults
    BY <1>3, FrameTyped, Zenon DEF SaveRow, NoFault
  <2>5. sync'.at \notin Unrendered
    BY <2>3, SMT DEF Unrendered
  <2>6. LocalTypes' /\ 0 <= Spent' /\ RowInv' /\ HostInv'
    BY <1>0, <1>1, <2>2, <2>3, <2>4, <2>5, CopyOf, FrameTyped, Moves, Zenon
  <2>7. sync.row.sum = RenderSum(Desired) /\ sync.version = sync.row.version
    BY <1>0, Zenon DEF LocalInv, SyncInv
  <2>8. /\ Alike(sync'.row, localRow') /\ sync'.row.sum = RenderSum(Desired')
        /\ sync'.version = sync'.row.version
    BY <1>0, <2>3, <2>4, <2>7, CopyOf, Zenon DEF Desired
  <2>9. SyncInv'
    BY <2>3, <2>8, SMT DEF SyncInv, Alike
  <2> QED BY <2>6, <2>9, Zenon DEF LocalInv
<1> QED BY <1>2, <1>3, Zenon DEF CreateSyncLog

-----------------------------------------------------------------------------
(* A version is paid for by an edit of what was rendered before or by the    *)
(* request of an operator.                                                   *)
LEMMA VersionPaid ==
  ASSUME NEW cur \in Int, NEW rf \in Int, NEW re \in Int, NEW f \in Int, NEW e \in Int,
         NEW n \in Int, NEW o \in 0..1,
         cur <= rf + re - 1 + n, rf <= f, re <= e, o = 1 \/ rf # f \/ re # e
  PROVE  cur + 1 <= f + e - 1 + (n + o)
OBVIOUS

(* The version GenerateRevision gives a new rendering: it is not the one the  *)
(* row names, and it stays within what edits and requests pay for.            *)
LEMMA NewVersion ==
  ASSUME LocalInv, sync.at = "render", sync.row.sum # RenderSum(Desired)
  PROVE  /\ NextVersion(sync.row) \in 1..MaxVersion
         /\ localRow.sum # NoSum => NextVersion(sync.row) # localRow.version
         /\ NextVersion(sync.row) <= sync.file + sync.env - 1 + (Spent + OwedSync)
         /\ Desired \in Contents
<1> DEFINE v == NextVersion(sync.row)
<1>0. LocalTypes /\ RowInv /\ SyncInv /\ 0 <= Spent /\ sync.at # "idle"
  BY SMT DEF LocalInv
<1>1. sync.file \in 1..MaxFile /\ sync.env \in 1..MaxEnv /\ sync.trigger \in LocalTriggers
  BY <1>0, CopyOf, Zenon DEF SyncRows
<1>2. Desired \in Contents /\ Desired.file = sync.file /\ Desired.env = sync.env
  BY <1>1, Zenon DEF Desired, Contents
<1>3. sync.row.sum = localRow.sum /\ sync.row.version = localRow.version /\ sync.row.synced = localRow.synced
  BY <1>0, CopyOf, Zenon DEF Alike
<1>4. OwedSync \in 0..1 /\ OwedQueued \in 0..1 /\ Spent \in Int /\ asks \in 0..MaxManual
  BY <1>0, SpentTyped, Zenon DEF LocalTypes
<1>5. v <= sync.file + sync.env - 1 + (Spent + OwedSync) /\ v >= 1 /\ v \in Int
      /\ (localRow.sum # NoSum => v # localRow.version)
  <2>1. CASE localRow.sum = NoSum
    <3>1. v = 1
      <4>1. localRow.version = 0
        BY <1>0, <2>1, Zenon DEF RowInv
      <4> QED BY <4>1, <1>3, <2>1, Zenon DEF NextVersion, Current
    <3>2. \A f \in 1..MaxFile, e \in 1..MaxEnv, n \in Int, o \in 0..1 :
            0 <= n => 1 <= f + e - 1 + (n + o)
      BY LocalAssumption, SMT
    <3> HIDE DEF v
    <3>3. 1 <= sync.file + sync.env - 1 + (Spent + OwedSync)
      BY <1>0, <1>1, <1>4, <3>2, Zenon
    <3>4. 1 >= 1 /\ 1 \in Int
      OBVIOUS
    <3> QED BY <2>1, <3>1, <3>3, <3>4, Zenon
  <2>2. CASE localRow.sum # NoSum
    <3>1. localRow.version \in 1..MaxVersion /\ Rev \in Contents /\ Rev.file \in 1..MaxFile /\ Rev.env \in 1..MaxEnv
      BY <1>0, <2>2, RevTyped, Zenon
    <3>2. v = localRow.version + 1
      <4>1. localRow.version # 0
        BY <3>1, LocalBounds, SMT
      <4> QED BY <4>1, <1>3, <2>2, Zenon DEF NextVersion, Current
    <3>3. Rev.file <= sync.file /\ Rev.env <= sync.env
      <4>1. sync.at \in {"compare", "env", "render", "written"} /\ sync.at \in {"render", "written"}
        BY Zenon
      <4> QED BY <4>1, <1>0, <2>2, Zenon DEF SyncInv
    <3>4. OwedSync = 1 \/ Rev.file # sync.file \/ Rev.env # sync.env
      <4>1. CASE sync.trigger = "manual"
        BY <4>1, SMT DEF OwedSync, Unrendered
      <4>2. CASE sync.trigger = "cron" /\ localRow.sum = RenderSum(Rev)
        <5>1. Rev # Desired
          BY <4>2, <1>3, Zenon
        <5>2. \A c, d \in Contents : c.file = d.file /\ c.env = d.env => c = d
          BY SMT DEF Contents
        <5> QED BY <5>1, <5>2, <3>1, <1>2, Zenon
      <4>3. CASE sync.trigger = "cron" /\ Raw
        <5>1. localRow.synced
          BY <4>3, <1>0, <2>2, Zenon DEF RowInv
        <5>2. ~Unchanged(sync)
          <6>1. sync.at \in {"env", "render"}
            BY Zenon
          <6> QED BY <6>1, <1>0, Zenon DEF SyncInv
        <5> QED BY <5>1, <5>2, <4>3, <1>3, Zenon DEF Unchanged, Raw
      <4>4. localRow.sum = RenderSum(Rev) \/ Raw
        BY <1>0, <2>2, Zenon DEF RowInv
      <4> QED BY <4>1, <4>2, <4>3, <4>4, <1>1, Zenon DEF LocalTriggers
    <3>5. localRow.version <= Rev.file + Rev.env - 1 + Spent
      BY <1>0, <2>2, Zenon DEF RowInv
    <3>6. {localRow.version, Rev.file, Rev.env, sync.file, sync.env, Spent} \subseteq Int
      <4>1. 1..MaxVersion \subseteq Int /\ 1..MaxFile \subseteq Int /\ 1..MaxEnv \subseteq Int
        BY LocalBounds, LocalAssumption, SMT
      <4> QED BY <4>1, <3>1, <1>1, <1>4, Zenon
    <3>7. localRow.version + 1 <= sync.file + sync.env - 1 + (Spent + OwedSync)
      BY <3>3, <3>4, <3>5, <3>6, <1>4, VersionPaid, Zenon
    <3>8. \A k \in 1..MaxVersion : k + 1 \in Int /\ k + 1 >= 1 /\ k + 1 # k
      BY LocalBounds, SMT
    <3> HIDE DEF v
    <3> QED BY <3>1, <3>2, <3>7, <3>8, Zenon
  <2> QED BY <2>1, <2>2, Zenon
<1>6. v <= MaxVersion
  <2> HIDE DEF v
  <2>1. Spent + OwedSync = asks - OwedQueued
    <3>1. \A a, q, o \in Int : (a - q - o) + o = a - q
      BY SMT
    <3>2. asks \in Int /\ OwedQueued \in Int /\ OwedSync \in Int
      BY <1>4, LocalAssumption, SMT
    <3> QED BY <3>1, <3>2, Zenon DEF Spent
  <2>2. \A f \in 1..MaxFile, e \in 1..MaxEnv, a \in 0..MaxManual, q \in 0..1, k \in Int :
          k <= f + e - 1 + (a - q) => k <= MaxVersion
    BY LocalBounds, LocalAssumption, SMT
  <2> QED BY <1>1, <1>4, <1>5, <2>1, <2>2, Zenon
<1>7. v \in 1..MaxVersion
  <2> HIDE DEF v
  <2>1. \A k \in Int : k >= 1 /\ k <= MaxVersion => k \in 1..MaxVersion
    BY LocalBounds, SMT
  <2> QED BY <1>5, <1>6, <2>1, Zenon
<1> QED BY <1>2, <1>5, <1>7, Zenon

(* GenerateRevision writes the file of a version nobody names yet; when the  *)
(* record fails the file goes again.                                         *)
LEMMA WriteRevisionKeeps ==
  ASSUME LocalInv, WriteRevision
  PROVE  LocalInv'
<1> DEFINE v == NextVersion(sync.row)
<1>0. /\ sync.at = "render" /\ sync.at # "idle" /\ sync.row.sum # RenderSum(Desired)
      /\ LocalTypes /\ RowInv /\ SyncInv
  BY SMT DEF WriteRevision, LocalInv
<1>1. UNCHANGED <<file, env, asks, overtaken, linked, arrived, hostRuns, late, queued>>
  BY Zenon DEF WriteRevision, World, Host
<1>2. /\ v \in 1..MaxVersion /\ (localRow.sum # NoSum => v # localRow.version)
      /\ v <= sync.file + sync.env - 1 + (Spent + OwedSync) /\ Desired \in Contents
  BY <1>0, NewVersion, Zenon
<1>r. localRow.sum # NoSum => localRow.version \in DOMAIN revisionOf
  BY <1>0, Zenon DEF RowInv
<1>d. DOMAIN revisionOf \subseteq 1..MaxVersion /\ \A w \in DOMAIN revisionOf : revisionOf[w] \in Contents
  BY <1>0, Zenon DEF LocalTypes
<1>3. CASE /\ Write(v, Desired)
           /\ sync' = [sync EXCEPT !.at = "written", !.version = v]
           /\ UNCHANGED <<localRow, localFaults>>
  <2> HIDE DEF v
  <2>1. /\ DOMAIN revisionOf' = DOMAIN revisionOf \cup {v}
        /\ \A w \in DOMAIN revisionOf' : revisionOf'[w] = IF w = v THEN Desired ELSE revisionOf[w]
    BY <1>3, Zenon DEF Write
  <2>2. DiskKept
    BY <2>1, <1>2, <1>r, <1>d, Zenon DEF DiskKept, Rev
  <2>3. sync \in SyncRows /\ "written" \in Stages /\ v \in 0..MaxVersion
    BY <1>0, <1>2, CopyOf, LocalBounds, SMT DEF Stages
  <2>4. sync' \in SyncRows
    BY <1>3, <2>3, Zenon DEF SyncRows
  <2>5. /\ sync'.at = "written" /\ sync'.trigger = sync.trigger /\ sync'.row = sync.row
        /\ sync'.file = sync.file /\ sync'.env = sync.env /\ sync'.version = v
    BY <1>3, <2>3, Zenon DEF SyncRows
  <2>6. sync'.at \notin Unrendered /\ sync.at \in Unrendered
    BY <1>0, <2>5, SMT DEF Unrendered
  <2>7. LocalTypes' /\ 0 <= Spent' /\ RowInv' /\ HostInv' /\ (localRow.sum # NoSum => Rev' = Rev)
    BY <1>0, <1>1, <1>3, <2>2, <2>4, <2>5, <2>6, CopyOf, FrameTyped, Moves, Zenon
  <2>8. Spent' = Spent + OwedSync
    <3>1. OwedSync' = 0 /\ OwedQueued' = OwedQueued /\ asks' = asks
      BY <1>1, <2>6, Zenon DEF OwedSync, OwedQueued
    <3>2. \A a, q, o \in Int : (a - q - o) + o = a - q - 0
      BY SMT
    <3>3. asks \in Int /\ OwedQueued \in Int /\ OwedSync \in Int
      <4>1. OwedQueued \in 0..1 /\ OwedSync \in 0..1 /\ asks \in 0..MaxManual
        BY <1>0, SpentTyped, Zenon DEF LocalTypes
      <4> QED BY <4>1, LocalAssumption, SMT
    <3> QED BY <3>1, <3>2, <3>3, Zenon DEF Spent
  <2>9. /\ sync'.version \in DOMAIN revisionOf' /\ revisionOf'[sync'.version] = Desired'
        /\ sync'.version <= sync'.file + sync'.env - 1 + Spent'
    <3>1. Desired' = Desired
      BY <2>5, Zenon DEF Desired
    <3> QED BY <3>1, <1>2, <2>1, <2>5, <2>8, Zenon
  <2>10. /\ sync'.file <= file' /\ (localRow'.sum # NoSum => Rev'.file <= sync'.file)
         /\ sync'.env <= env' /\ (localRow'.sum # NoSum => Rev'.env <= sync'.env)
    <3>1. sync.at \in {"compare", "env", "render", "written"} /\ sync.at \in {"render", "written"}
      BY <1>0, Zenon
    <3>2. /\ sync.file <= file /\ (localRow.sum # NoSum => Rev.file <= sync.file)
          /\ sync.env <= env /\ (localRow.sum # NoSum => Rev.env <= sync.env)
      BY <3>1, <1>0, Zenon DEF SyncInv
    <3> QED BY <3>2, <1>1, <1>3, <2>5, <2>7, Zenon
  <2>11. Alike(sync'.row, localRow')
    BY <1>0, <1>3, <2>5, CopyOf, Zenon
  <2>12. SyncInv'
    BY <2>5, <2>9, <2>10, <2>11, SMT DEF SyncInv, Alike
  <2> QED BY <2>7, <2>12, Zenon DEF LocalInv
<1>4. CASE /\ revisionOf' = [w \in DOMAIN revisionOf \ {v} |-> revisionOf[w]]
           /\ MarkError(sync.row, 1) /\ EndSync
  <2> HIDE DEF v
  <2>1. DiskKept
    BY <1>4, <1>2, <1>r, <1>d, Zenon DEF DiskKept, Rev
  <2>2. 1 \in 0..1 /\ Alike(sync.row, sync.row)
    BY SMT DEF Alike
  <2> QED BY <1>0, <1>1, <1>4, <2>1, <2>2, CopyOf, FrameTyped, AttemptEnds, Zenon DEF EndSync
<1> QED BY <1>3, <1>4, Zenon DEF WriteRevision

(* The row after GenerateRevision names the new revision, which is on disk;  *)
(* its checksum is a rendering's, so nothing is claimed of the host.         *)
LEMMA RenderedRow ==
  ASSUME LocalInv, sync.at = "written", LocalTypes', OwedSync' = 0,
         localRow'.version = sync.version, localRow'.sum = RenderSum(Desired),
         UNCHANGED <<file, env, asks, queued, revisionOf>>
  PROVE  0 <= Spent' /\ RowInv' /\ HostInv'
<1>0. LocalTypes /\ SyncInv /\ sync.at # "idle" /\ 0 <= Spent
  BY SMT DEF LocalInv
<1>1. OwedSync = 0 /\ OwedQueued' = OwedQueued
  BY SMT DEF OwedSync, OwedQueued, Unrendered
<1>2. Spent' = Spent
  BY <1>1, Zenon DEF Spent
<1>3. /\ sync.version \in DOMAIN revisionOf /\ revisionOf[sync.version] = Desired
      /\ sync.version <= sync.file + sync.env - 1 + Spent
  BY <1>0, Zenon DEF SyncInv
<1>4. sync.file <= file /\ sync.env <= env
  <2>1. sync.at \in {"compare", "env", "render", "written"} /\ sync.at \in {"render", "written"}
    BY Zenon
  <2> QED BY <2>1, <1>0, Zenon DEF SyncInv
<1>5. Desired.file = sync.file /\ Desired.env = sync.env /\ Desired \in Contents
  <2>1. sync.file \in 1..MaxFile /\ sync.env \in 1..MaxEnv
    BY <1>0, CopyOf, Zenon DEF SyncRows
  <2> QED BY <2>1, Zenon DEF Desired, Contents
<1>6. Rev' = Desired
  BY <1>3, Zenon DEF Rev
<1>7. RenderSum(Desired) # NoSum /\ RenderSum(Desired) # RawSum(Desired.file)
  <2>1. Desired.file \in 1..MaxFile
    BY <1>5, Zenon DEF Contents
  <2> QED BY <1>5, <2>1, RenderIsSum, SumsDiffer, Zenon
<1>8. ~Raw'
  BY <1>6, <1>7, Zenon DEF Raw
<1>9. HostInv'
  BY <1>8, Zenon DEF HostInv
<1>10. RowInv'
  BY <1>2, <1>3, <1>4, <1>5, <1>6, <1>7, <1>8, Zenon DEF RowInv
<1> QED BY <1>0, <1>2, <1>9, <1>10, Zenon

(* The save after GenerateRevision: also when it fails, the copy that the    *)
(* caller marks carries the new version and checksum.                        *)
LEMMA SaveRevisionKeeps ==
  ASSUME LocalInv, SaveRevision
  PROVE  LocalInv'
<1> DEFINE rendered == [sync.row EXCEPT !.version = sync.version, !.sum = RenderSum(Desired)]
<1>0. sync.at = "written" /\ sync.at # "idle" /\ LocalTypes /\ SyncInv
  BY SMT DEF SaveRevision, LocalInv
<1>1. UNCHANGED <<file, env, asks, revisionOf, overtaken, linked, arrived, hostRuns, late, queued>>
  BY Zenon DEF SaveRevision, World, Host
<1>2. /\ sync \in SyncRows /\ sync.row \in StackRows /\ sync.version \in 0..MaxVersion
      /\ sync.file \in 1..MaxFile /\ sync.env \in 1..MaxEnv
  BY <1>0, CopyOf, Zenon DEF SyncRows
<1>3. RenderSum(Desired) \in Checksums
  <2>1. Desired \in Contents
    BY <1>2, Zenon DEF Desired, Contents
  <2> QED BY <2>1, Zenon DEF Checksums
<1>4. rendered \in StackRows /\ rendered.version = sync.version /\ rendered.sum = RenderSum(Desired)
  BY <1>2, <1>3, Zenon DEF StackRows
<1>5. CASE SaveRow(rendered) /\ sync' = [sync EXCEPT !.at = "log", !.row = rendered]
  <2> HIDE DEF rendered
  <2>1. localRow' = rendered /\ localFaults' \in 0..MaxLocalFaults
    BY <1>5, FrameTyped, Zenon DEF SaveRow, NoFault
  <2>2. "log" \in Stages
    BY SMT DEF Stages
  <2>3. sync' \in SyncRows
    BY <1>2, <1>4, <1>5, <2>2, Zenon DEF SyncRows
  <2>4. /\ sync'.at = "log" /\ sync'.row = rendered /\ sync'.file = sync.file
        /\ sync'.env = sync.env /\ sync'.version = sync.version
    BY <1>2, <1>5, Zenon DEF SyncRows
  <2>5. LocalTypes'
    BY <1>0, <1>1, <1>4, <2>1, <2>3, Zenon DEF LocalTypes, SyncRows
  <2>6. OwedSync' = 0
    BY <2>4, SMT DEF OwedSync, Unrendered
  <2>7. 0 <= Spent' /\ RowInv' /\ HostInv'
    BY <1>0, <1>1, <1>4, <2>1, <2>5, <2>6, RenderedRow, Zenon
  <2>8. Desired' = Desired
    BY <2>4, Zenon DEF Desired
  <2>9. SyncInv'
    BY <1>4, <2>1, <2>4, <2>8, SMT DEF SyncInv
  <2> QED BY <2>5, <2>7, <2>9, Zenon DEF LocalInv
<1>6. CASE MarkError(rendered, 1) /\ EndSync
  <2> HIDE DEF rendered
  <2>1. 1 \in 0..1
    OBVIOUS
  <2>2. /\ localRow' \in StackRows /\ localFaults' \in 0..MaxLocalFaults
        /\ Alike(localRow', rendered) \/ localRow' = localRow
    BY <1>0, <1>4, <1>6, <2>1, Marked, Zenon
  <2>3. sync' = NoSync
    BY <1>6, Zenon DEF EndSync
  <2>4. CASE Alike(localRow', rendered)
    <3>1. localRow'.version = sync.version /\ localRow'.sum = RenderSum(Desired)
      BY <1>4, <2>4, Zenon DEF Alike
    <3>2. sync' \in SyncRows /\ SyncInv'
      BY <2>3, SyncRests, Zenon
    <3>3. LocalTypes'
      BY <1>0, <1>1, <2>2, <3>2, Zenon DEF LocalTypes, SyncRows
    <3>4. OwedSync' = 0
      BY <1>0, <2>3, EndOwes, Zenon
    <3>5. 0 <= Spent' /\ RowInv' /\ HostInv'
      BY <1>0, <1>1, <3>1, <3>3, <3>4, RenderedRow, Zenon
    <3> QED BY <3>2, <3>3, <3>5, Zenon DEF LocalInv
  <2>5. CASE localRow' = localRow
    <3>2. OwedQueued' <= OwedQueued + OwedSync
      <4>1. OwedQueued' = OwedQueued
        BY <1>1, Zenon DEF OwedQueued
      <4>2. \A q, o \in 0..1 : q <= q + o
        BY SMT
      <4>3. OwedQueued \in 0..1 /\ OwedSync \in 0..1
        BY <1>0, SpentTyped, Zenon
      <4> QED BY <4>1, <4>2, <4>3, Zenon
    <3> QED BY <1>0, <1>1, <2>2, <2>3, <2>5, <3>2, CopyOf, FrameTyped, EndKeeps, Zenon
  <2> QED BY <2>2, <2>4, <2>5, Zenon
<1> QED BY <1>5, <1>6, Zenon DEF SaveRevision

-----------------------------------------------------------------------------
(* From the log on, the row names the revision that will be shipped: what it *)
(* holds is what was rendered.                                               *)
LEMMA AtDeploy ==
  ASSUME LocalInv, sync.at \in {"log", "dispatch", "check"}
  PROVE  /\ sync.at # "idle" /\ localRow.sum = RenderSum(Desired) /\ localRow.sum # NoSum
         /\ localRow.version = sync.version /\ Rev = Desired /\ ~Raw
         /\ Shipped = Desired /\ Desired \in Contents
         /\ Desired.file = sync.file /\ Desired.env = sync.env
<1>0. LocalTypes /\ RowInv /\ SyncInv /\ sync.at # "idle"
  BY SMT DEF LocalInv
<1>1. sync.row.sum = RenderSum(Desired) /\ sync.version = sync.row.version
  BY <1>0, Zenon DEF SyncInv
<1>2. localRow.sum = RenderSum(Desired) /\ localRow.version = sync.version
  BY <1>0, <1>1, CopyOf, Zenon DEF Alike
<1>3. Desired.file = sync.file /\ Desired.env = sync.env /\ Desired \in Contents /\ sync.file \in 1..MaxFile
  <2>1. sync.file \in 1..MaxFile /\ sync.env \in 1..MaxEnv
    BY <1>0, CopyOf, Zenon DEF SyncRows
  <2> QED BY <2>1, Zenon DEF Desired, Contents
<1>4. localRow.sum # NoSum
  BY <1>2, <1>3, RenderIsSum, Zenon
<1>5. Rev \in Contents /\ Rev.file \in 1..MaxFile
  BY <1>0, <1>4, RevTyped, Zenon
<1>6. ~Raw
  BY <1>2, <1>3, <1>5, SumsDiffer, Zenon DEF Raw
<1>7. Rev = Desired
  <2>1. localRow.sum = RenderSum(Rev)
    BY <1>0, <1>4, <1>6, Zenon DEF RowInv
  <2> QED BY <2>1, <1>2, <1>3, <1>5, RenderTells, Zenon
<1>8. Shipped = Desired
  <2>1. revisionOf[sync.version].file = sync.file
    BY <1>2, <1>3, <1>7, Zenon DEF Rev
  <2> QED BY <2>1, Zenon DEF Shipped, Desired
<1> QED BY <1>0, <1>2, <1>3, <1>4, <1>6, <1>7, <1>8, Zenon

(* A deploy that succeeds leaves the host with the revision alone. *)
LEMMA DeployedKeeps ==
  ASSUME LocalInv, Deployed
  PROVE  LocalInv'
<1>0. sync.at = "dispatch" /\ sync.at \in {"log", "dispatch", "check"} /\ LocalTypes /\ SyncInv
  BY SMT DEF Deployed, LocalInv
<1>1. UNCHANGED <<file, env, asks, revisionOf, linked, arrived, late, queued, localRow, localFaults>>
  BY Zenon DEF Deployed, World
<1>2. /\ sync.at # "idle" /\ localRow.sum = RenderSum(Desired) /\ localRow.version = sync.version
      /\ ~Raw /\ Shipped = Desired /\ Desired \in Contents
  BY <1>0, AtDeploy, Zenon
<1>3. hostRuns' = {Desired} /\ overtaken' = (late # {}) /\ sync' = [sync EXCEPT !.at = "check"]
  BY <1>2, Zenon DEF Deployed, Goes
<1>4. HostTyped' /\ HostKept
  <2>1. overtaken' \in BOOLEAN
    BY <1>3, Zenon
  <2>2. late \subseteq Contents
    BY <1>0, Zenon DEF LocalTypes
  <2> QED BY <2>1, <2>2, <1>1, <1>2, <1>3, Zenon DEF HostTyped, HostKept
<1>5. sync \in SyncRows /\ "check" \in Stages
  BY <1>2, CopyOf, SMT DEF Stages
<1>6. sync' \in SyncRows
  BY <1>3, <1>5, Zenon DEF SyncRows
<1>7. /\ sync'.at = "check" /\ sync'.trigger = sync.trigger /\ sync'.row = sync.row
      /\ sync'.file = sync.file /\ sync'.env = sync.env /\ sync'.version = sync.version
  BY <1>3, <1>5, Zenon DEF SyncRows
<1>8. OwedQueued' + OwedSync' <= OwedQueued + OwedSync
  <2>1. sync'.at \notin Unrendered
    BY <1>7, SMT DEF Unrendered
  <2> QED BY <2>1, <1>0, <1>1, <1>7, GoesOwes, Zenon
<1>9. LocalTypes' /\ 0 <= Spent' /\ RowInv' /\ HostInv'
  BY <1>1, <1>2, <1>4, <1>6, <1>8, CopyOf, FrameTyped, MoveKeeps, Zenon
<1>10. Desired' = Desired
  BY <1>7, Zenon DEF Desired
<1>11. sync.row.sum = RenderSum(Desired) /\ sync.version = sync.row.version
  BY <1>0, <1>2, Zenon DEF SyncInv
<1>12. ~overtaken' => late' = {} /\ hostRuns' = {Desired'}
  BY <1>1, <1>3, <1>10, Zenon
<1>13. Alike(sync'.row, localRow')
  BY <1>1, <1>2, <1>7, CopyOf, Zenon
<1>14. SyncInv'
  BY <1>7, <1>10, <1>11, <1>12, <1>13, SMT DEF SyncInv, Alike
<1> QED BY <1>9, <1>14, Zenon DEF LocalInv

(* A deploy that fails may leave anything on the host or on its way there:   *)
(* the row claims nothing of it.                                             *)
LEMMA DeployFailsKeeps ==
  ASSUME LocalInv, DeployFails
  PROVE  LocalInv'
<1>0. sync.at = "dispatch" /\ sync.at \in {"log", "dispatch", "check"} /\ sync' = NoSync
  BY SMT DEF DeployFails, EndSync
<1>1. UNCHANGED <<file, env, asks, revisionOf, linked, arrived, queued, overtaken>>
  BY Zenon DEF DeployFails, World
<1>2. sync.at # "idle" /\ ~Raw /\ Shipped \in Contents
  BY <1>0, AtDeploy, Zenon
<1>3. HostTyped'
  <2>1. hostRuns \subseteq Contents /\ late \subseteq Contents /\ overtaken \in BOOLEAN
    BY Zenon DEF LocalInv, LocalTypes
  <2>2. /\ hostRuns' \in {hostRuns, hostRuns \cup {Shipped}, {Shipped}}
        /\ late' \in {late, late \cup {Shipped}}
    BY Zenon DEF DeployFails
  <2> QED BY <2>1, <2>2, <1>1, <1>2, Zenon DEF HostTyped
<1>4. HostKept
  BY <1>2, Zenon DEF HostKept
<1>5. (IF linked THEN 1 ELSE 0) \in 0..1 /\ Alike(sync.row, sync.row)
  BY SMT DEF Alike
<1>6. MarkError(sync.row, IF linked THEN 1 ELSE 0)
  BY Zenon DEF DeployFails
<1> QED BY <1>0, <1>1, <1>2, <1>3, <1>4, <1>5, <1>6, CopyOf, FrameTyped, AttemptEnds, Zenon

(* The end of a successful sync records the file that was read, rendered and *)
(* shipped.                                                                  *)
LEMMA CompleteSyncKeeps ==
  ASSUME LocalInv, CompleteSync
  PROVE  LocalInv'
<1>0. /\ sync.at = "check" /\ sync.at \in {"log", "dispatch", "check"} /\ sync' = NoSync
      /\ LocalTypes /\ RowInv /\ SyncInv /\ 0 <= Spent
  BY SMT DEF CompleteSync, EndSync, LocalInv
<1>1. UNCHANGED <<file, env, asks, revisionOf, overtaken, linked, arrived, hostRuns, late, queued>>
  BY Zenon DEF CompleteSync, World, Host
<1>2. /\ sync.at # "idle" /\ localRow.sum # NoSum /\ localRow.version = sync.version
      /\ Rev = Desired /\ Desired.file = sync.file
  BY <1>0, AtDeploy, Zenon
<1>3. PICK verdict \in {"active", "degraded", "error"} :
        \/ SaveRow(Recorded(sync, verdict)) \/ SaveFails
        \/ MarkError(Recorded(sync, verdict), 1)
  BY Zenon DEF CompleteSync
<1> DEFINE done == Recorded(sync, verdict)
<1>4. sync.row \in StackRows /\ sync.file \in 1..MaxFile /\ sync.version \in 0..MaxVersion
  BY <1>2, CopyOf, Zenon DEF SyncRows
<1>5. /\ done \in StackRows /\ done.sum = RawSum(sync.file) /\ done.version = sync.row.version
      /\ done.deployed = sync.version /\ done.synced = TRUE
  <2>1. RawSum(sync.file) \in Checksums
    BY <1>4, Zenon DEF Checksums
  <2>2. verdict \in LocalStatuses /\ TRUE \in BOOLEAN
    BY SMT DEF LocalStatuses
  <2> QED BY <1>4, <2>1, <2>2, Zenon DEF Recorded, StackRows
<1> HIDE DEF done
<1>6. /\ localRow' \in StackRows /\ localFaults' \in 0..MaxLocalFaults
      /\ Alike(localRow', done) \/ localRow' = localRow
  <2>1. 1 \in 0..1
    OBVIOUS
  <2>2. CASE MarkError(done, 1)
    BY <1>0, <1>5, <2>1, <2>2, Marked, Zenon
  <2>3. CASE SaveRow(done) \/ SaveFails
    BY <1>0, <1>5, <2>3, SavedOrNot, Zenon DEF Alike
  <2> QED BY <1>3, <2>2, <2>3, Zenon DEF done
<1>7. CASE localRow' = localRow
  <2>1. OwedQueued' <= OwedQueued + OwedSync
    <3>1. OwedQueued' = OwedQueued
      BY <1>1, Zenon DEF OwedQueued
    <3>2. \A q, o \in 0..1 : q <= q + o
      BY SMT
    <3>3. OwedQueued \in 0..1 /\ OwedSync \in 0..1
      BY <1>0, SpentTyped, Zenon
    <3> QED BY <3>1, <3>2, <3>3, Zenon
  <2> QED BY <1>0, <1>1, <1>2, <1>6, <1>7, <2>1, CopyOf, FrameTyped, EndKeeps, Zenon
<1>8. CASE Alike(localRow', done)
  <2>1. sync' \in SyncRows /\ SyncInv'
    BY <1>0, SyncRests, Zenon
  <2>2. LocalTypes'
    BY <1>0, <1>1, <1>6, <2>1, Zenon DEF LocalTypes, SyncRows
  <2>3. Spent' = Spent
    <3>1. OwedSync' = 0 /\ OwedSync = 0 /\ OwedQueued' = OwedQueued
      BY <1>0, <1>1, EndOwes, SMT DEF OwedSync, OwedQueued, Unrendered
    <3> QED BY <1>1, <3>1, Zenon DEF Spent
  <2>4. /\ localRow'.sum = RawSum(Rev.file) /\ localRow'.version = localRow.version
        /\ localRow'.deployed = localRow'.version /\ localRow'.synced
    <3>1. sync.row.version = localRow.version
      BY <1>2, CopyOf, Zenon DEF Alike
    <3> QED BY <3>1, <1>2, <1>5, <1>8, Zenon DEF Alike
  <2>5. Rev' = Rev
    BY <1>1, <2>4, Zenon DEF Rev
  <2>6. Raw' /\ localRow'.sum # NoSum
    <3>1. Rev.file \in 1..MaxFile
      BY <1>0, <1>2, RevTyped, Zenon
    <3>2. RawSum(Rev.file) # NoSum
      BY <3>1, RawIsSum, Zenon
    <3> QED BY <2>4, <2>5, <3>2, Zenon DEF Raw
  <2>7. /\ localRow.version \in DOMAIN revisionOf /\ Rev.file <= file /\ Rev.env <= env
        /\ localRow.version <= Rev.file + Rev.env - 1 + Spent
    BY <1>0, <1>2, Zenon DEF RowInv
  <2>8. RowInv'
    BY <1>1, <2>3, <2>4, <2>5, <2>6, <2>7, Zenon DEF RowInv
  <2>9. HostInv'
    <3>1. ~overtaken => late = {} /\ hostRuns = {Desired}
      BY <1>0, <1>2, Zenon DEF SyncInv
    <3> QED BY <3>1, <1>1, <1>2, <2>5, Zenon DEF HostInv
  <2> QED BY <1>0, <2>1, <2>2, <2>3, <2>8, <2>9, Zenon DEF LocalInv
<1> QED BY <1>6, <1>7, <1>8, Zenon

-----------------------------------------------------------------------------
(* What happens beside a sync: edits, connections, and a late command, which *)
(* finds the host unclaimed or the claim withdrawn.                          *)
LEMMA BesideSync ==
  ASSUME LocalInv, UNCHANGED <<localRow, revisionOf, sync, queued, asks, overtaken>>,
         file' \in 1..MaxFile, env' \in 1..MaxEnv, file <= file', env <= env',
         linked' \in BOOLEAN, arrived' \in BOOLEAN, localFaults' \in 0..MaxLocalFaults,
         hostRuns' \subseteq Contents, late' \subseteq Contents,
         (hostRuns' = hostRuns /\ late' = late) \/ late # {}
  PROVE  LocalInv'
<1> USE DEF LocalInv
<1>1. LocalTypes'
  BY Zenon DEF LocalTypes
<1>2. Spent' = Spent /\ Spent \in Int
  <2>1. Spent \in Int
    BY SpentTyped, Zenon
  <2> QED BY <2>1, Zenon DEF Spent, OwedQueued, OwedSync
<1>3. Alike(localRow', localRow) /\ DiskKept
  BY DiskUnchanged, Zenon DEF Alike
<1>4. HostKept
  <2>1. CASE late # {}
    BY <2>1, Zenon DEF HostInv, HostKept
  <2>2. CASE hostRuns' = hostRuns /\ late' = late
    BY <2>2, Zenon DEF HostKept
  <2> QED BY <2>1, <2>2, Zenon
<1>5. file' \in Int /\ env' \in Int /\ Spent <= Spent' /\ file \in Int /\ env \in Int
  BY <1>2, LocalAssumption, SMT DEF LocalTypes
<1>6. RowInv' /\ HostInv' /\ (localRow.sum # NoSum => Rev' = Rev)
  BY <1>2, <1>3, <1>4, <1>5, RowKept, Zenon
<1>7. SyncInv'
  <2>1. CASE sync.at = "idle"
    BY <2>1, Zenon DEF SyncInv
  <2>2. CASE sync.at # "idle"
    <3>1. \A n \in Int : (n <= file => n <= file') /\ (n <= env => n <= env')
      BY <1>5, SMT
    <3>2. sync.file \in Int /\ sync.env \in Int
      <4>1. sync.file \in 1..MaxFile /\ sync.env \in 1..MaxEnv
        BY <2>2, CopyOf, Zenon DEF SyncRows
      <4> QED BY <4>1, LocalAssumption, SMT
    <3>3. Desired' = Desired /\ (Unchanged(sync) <=> Unchanged(sync'))
      BY Zenon DEF Desired, Unchanged
    <3>4. sync.at \in {"compare", "env", "render", "written"} =>
            sync.file <= file' /\ (localRow.sum # NoSum => Rev'.file <= sync.file)
      BY <2>2, <3>1, <3>2, <1>6, Zenon DEF SyncInv
    <3>5. sync.at \in {"render", "written"} =>
            sync.env <= env' /\ (localRow.sum # NoSum => Rev'.env <= sync.env)
      BY <2>2, <3>1, <3>2, <1>6, Zenon DEF SyncInv
    <3>6. sync.at = "check" /\ ~overtaken => late' = {} /\ hostRuns' = {Desired}
      BY <2>2, Zenon DEF SyncInv
    <3>7. sync.at = "written" =>
            /\ sync.version \in DOMAIN revisionOf /\ revisionOf[sync.version] = Desired
            /\ sync.version <= sync.file + sync.env - 1 + Spent
      BY <2>2, Zenon DEF SyncInv
    <3>8. /\ Alike(sync.row, localRow)
          /\ sync.at \in {"env", "render"} => ~Unchanged(sync)
          /\ sync.at \in {"log", "dispatch", "check"} =>
               sync.row.sum = RenderSum(Desired) /\ sync.version = sync.row.version
      BY <2>2, Zenon DEF SyncInv, Alike
    <3> QED BY <3>3, <3>4, <3>5, <3>6, <3>7, <3>8, <1>2, Zenon DEF SyncInv, Alike
  <2> QED BY <2>1, <2>2, Zenon
<1> QED BY <1>1, <1>2, <1>6, <1>7, Zenon

(* The host's administrator, the operator and the connection. *)
LEMMA OutsideKeeps ==
  ASSUME LocalInv, EditFile \/ EditEnv \/ LateDeploy \/ Disconnect \/ Connect
  PROVE  LocalInv'
<1>0. /\ file \in 1..MaxFile /\ env \in 1..MaxEnv /\ localFaults \in 0..MaxLocalFaults
      /\ hostRuns \subseteq Contents /\ late \subseteq Contents
      /\ linked \in BOOLEAN /\ arrived \in BOOLEAN
  BY Zenon DEF LocalInv, LocalTypes
<1>1. file <= file /\ env <= env
  BY <1>0, SMT
<1>2. CASE EditFile
  <2>1. file' \in 1..MaxFile /\ file <= file'
    BY <1>0, <1>2, LocalAssumption, SMT DEF EditFile
  <2>2. UNCHANGED <<env, localRow, revisionOf, hostRuns, late, overtaken, sync, queued,
                    linked, arrived, asks, localFaults>>
    BY <1>2, Zenon DEF EditFile, Host
  <2> QED BY <1>0, <1>1, <2>1, <2>2, BesideSync, Zenon
<1>3. CASE EditEnv
  <2>1. env' \in 1..MaxEnv /\ env <= env'
    BY <1>0, <1>3, LocalAssumption, SMT DEF EditEnv
  <2>2. UNCHANGED <<file, localRow, revisionOf, hostRuns, late, overtaken, sync, queued,
                    linked, arrived, asks, localFaults>>
    BY <1>3, Zenon DEF EditEnv, Host
  <2> QED BY <1>0, <1>1, <2>1, <2>2, BesideSync, Zenon
<1>4. CASE LateDeploy
  <2>1. UNCHANGED <<file, env, linked, arrived, asks, localRow, revisionOf, sync, queued,
                    overtaken, localFaults>>
    BY <1>4, Zenon DEF LateDeploy, World
  <2>2. PICK c \in late : late' = late \ {c} /\ hostRuns' = {c}
    BY <1>4, Zenon DEF LateDeploy
  <2>3. hostRuns' \subseteq Contents /\ late' \subseteq Contents /\ late # {}
    BY <1>0, <2>2, Zenon
  <2> QED BY <1>0, <1>1, <2>1, <2>3, BesideSync, Zenon
<1>5. CASE Disconnect
  <2>1. localFaults' \in 0..MaxLocalFaults
    BY <1>0, <1>5, LocalAssumption, SMT DEF Disconnect, Faults
  <2>2. UNCHANGED <<file, env, localRow, revisionOf, hostRuns, late, overtaken, sync, queued, asks>>
    BY <1>5, Zenon DEF Disconnect, Host
  <2>3. linked' \in BOOLEAN /\ arrived' \in BOOLEAN
    BY <1>5, Zenon DEF Disconnect
  <2> QED BY <1>0, <1>1, <2>1, <2>2, <2>3, BesideSync, Zenon
<1>6. CASE Connect
  <2>1. UNCHANGED <<file, env, localRow, revisionOf, hostRuns, late, overtaken, sync, queued,
                    asks, localFaults>>
    BY <1>6, Zenon DEF Connect, Host
  <2>2. linked' \in BOOLEAN /\ arrived' \in BOOLEAN
    BY <1>6, Zenon DEF Connect
  <2> QED BY <1>0, <1>1, <2>1, <2>2, BesideSync, Zenon
<1> QED BY <1>2, <1>3, <1>4, <1>5, <1>6, Zenon

(* A restart forgets the sync; a command it had sent may still arrive, but   *)
(* then the row claims nothing of the host.                                  *)
LEMMA RestartServerKeeps ==
  ASSUME LocalInv, RestartServer
  PROVE  LocalInv'
<1>0. LocalTypes /\ sync' = NoSync
  BY Zenon DEF RestartServer, EndSync, LocalInv
<1>1. UNCHANGED <<file, env, revisionOf, hostRuns, queued, overtaken, asks>>
  BY Zenon DEF RestartServer
<1>2. localFaults' \in 0..MaxLocalFaults
  BY <1>0, LocalAssumption, SMT DEF RestartServer, Faults, LocalTypes
<1>3. localRow' \in StackRows /\ Alike(localRow', localRow)
  <2>1. localRow \in StackRows /\ localRow' = RecoverOrphanState(localRow)
    BY <1>0, Zenon DEF RestartServer, LocalTypes
  <2>2. \A r \in StackRows : [r EXCEPT !.status = "error"] \in StackRows
                             /\ Alike([r EXCEPT !.status = "error"], r) /\ Alike(r, r)
    BY SMT DEF StackRows, LocalStatuses, Alike
  <2> QED BY <2>1, <2>2, Zenon DEF RecoverOrphanState
<1>4. linked' \in BOOLEAN /\ arrived' \in BOOLEAN
  BY Zenon DEF RestartServer
<1>5. OwedQueued' <= OwedQueued + OwedSync
  <2>1. OwedQueued' = OwedQueued
    BY <1>1, Zenon DEF OwedQueued
  <2>2. \A q, o \in 0..1 : q <= q + o
    BY SMT
  <2>3. OwedQueued \in 0..1 /\ OwedSync \in 0..1
    BY <1>0, SpentTyped, Zenon
  <2> QED BY <2>1, <2>2, <2>3, Zenon
<1>6. HostTyped' /\ HostKept
  <2>1. CASE late' = late
    BY <2>1, <1>1, FrameTyped, Zenon
  <2>2. CASE sync.at = "dispatch" /\ late' = late \cup {Shipped}
    <3>1. sync.at \in {"log", "dispatch", "check"}
      BY <2>2, Zenon
    <3>2. ~Raw /\ Shipped \in Contents
      BY <3>1, AtDeploy, Zenon
    <3> QED BY <1>0, <1>1, <2>2, <3>2, Zenon DEF HostTyped, HostKept, LocalTypes
  <2> QED BY <2>1, <2>2, Zenon DEF RestartServer
<1> QED BY <1>0, <1>1, <1>2, <1>3, <1>4, <1>5, <1>6, FrameTyped, EndKeeps, Zenon

(* A tick of the scheduler, or an operator who asks for a sync: the request  *)
(* is counted when it is made.                                               *)
LEMMA ReconcileStackKeeps ==
  ASSUME LocalInv, NEW t \in LocalTriggers, ReconcileStack(t)
  PROVE  LocalInv'
<1>0. LocalTypes /\ sync.at = "idle" /\ Start(t)
  BY Zenon DEF ReconcileStack, LocalInv
<1>1. UNCHANGED <<file, env, linked, arrived, revisionOf, hostRuns, late, overtaken, queued>>
  BY Zenon DEF ReconcileStack, Host
<1>2. asks \in 0..MaxManual /\ asks' = (IF t = "manual" THEN asks + 1 ELSE asks) /\ asks' <= MaxManual
  BY <1>0, Zenon DEF ReconcileStack, LocalTypes
<1>3. asks' \in 0..MaxManual /\ asks' = asks + (IF t = "manual" THEN 1 ELSE 0)
  BY <1>2, LocalAssumption, SMT
<1>4. OwedQueued' = OwedQueued /\ OwedQueued \in 0..1
  BY <1>0, <1>1, SpentTyped, Zenon DEF OwedQueued
<1>5. asks - OwedQueued + (IF t = "manual" THEN 1 ELSE 0) <= asks' - OwedQueued'
  <2>1. \A a, q, n \in Int : a - q + n <= (a + n) - q
    BY SMT
  <2>2. asks \in Int /\ OwedQueued \in Int /\ (IF t = "manual" THEN 1 ELSE 0) \in Int
    BY <1>2, <1>4, LocalAssumption, SMT
  <2> QED BY <2>1, <2>2, <1>3, <1>4, Zenon
<1> QED BY <1>0, <1>1, <1>3, <1>5, FrameTyped, StartKeeps, Zenon

(* TriggerPendingReconciles: what was queued becomes a sync once, or nothing. *)
LEMMA TriggerPendingKeeps ==
  ASSUME LocalInv, TriggerPendingReconciles
  PROVE  LocalInv'
<1>0. LocalTypes /\ queued' = {} /\ arrived' = FALSE /\ arrived' \in BOOLEAN
  BY Zenon DEF TriggerPendingReconciles, LocalInv
<1>1. UNCHANGED <<file, env, linked, asks, revisionOf, hostRuns, late, overtaken>>
  BY Zenon DEF TriggerPendingReconciles, Host
<1>2. asks \in 0..MaxManual /\ asks \in Int /\ OwedQueued \in 0..1 /\ OwedSync \in 0..1 /\ OwedQueued' = 0
  BY <1>0, LocalAssumption, SpentTyped, SMT DEF LocalTypes, OwedQueued
<1>3. CASE sync.at = "idle" /\ \E t \in queued : Start(t)
  <2>1. PICK t \in queued : Start(t)
    BY <1>3, Zenon
  <2>2. t \in LocalTriggers /\ queued = {t}
    BY <1>0, <2>1, Zenon DEF LocalTypes
  <2>3. OwedQueued = IF t = "manual" THEN 1 ELSE 0
    BY <2>2, Zenon DEF OwedQueued
  <2>4. asks - OwedQueued + (IF t = "manual" THEN 1 ELSE 0) <= asks' - OwedQueued'
    <3>1. \A a \in Int, q \in 0..1 : a - q + q <= a - 0
      BY SMT
    <3> QED BY <3>1, <1>1, <1>2, <2>3, Zenon
  <2> QED BY <1>0, <1>1, <1>2, <1>3, <2>1, <2>2, <2>4, StartKeeps, Zenon
<1>4. CASE NoFault /\ UNCHANGED <<localRow, sync>>
  <2>1. OwedQueued' + OwedSync' <= OwedQueued + OwedSync
    <3>1. OwedSync' = OwedSync
      BY <1>4, Zenon DEF OwedSync
    <3>2. \A q, o \in 0..1 : 0 + o <= q + o
      BY SMT
    <3> QED BY <3>1, <3>2, <1>2, Zenon
  <2>2. /\ localRow' \in StackRows /\ Alike(localRow', localRow) /\ sync' \in SyncRows
        /\ localFaults' \in 0..MaxLocalFaults /\ linked' \in BOOLEAN
    BY <1>0, <1>1, <1>4, Zenon DEF LocalTypes, SyncRows, Alike, NoFault
  <2>3. LocalTypes' /\ 0 <= Spent' /\ RowInv' /\ HostInv'
        /\ (localRow.sum # NoSum => Rev' = Rev) /\ Spent' \in Int /\ Spent <= Spent'
    BY <1>0, <1>1, <2>1, <2>2, FrameTyped, MoveKeeps, Zenon
  <2>4. SyncInv'
    <3>1. CASE sync.at = "idle"
      BY <1>4, <3>1, Zenon DEF SyncInv
    <3>2. CASE sync.at # "idle"
      <4>1. SyncInv /\ Desired' = Desired /\ (Unchanged(sync) <=> Unchanged(sync'))
        BY <1>4, Zenon DEF LocalInv, Desired, Unchanged
      <4>2. sync.version <= sync.file + sync.env - 1 + Spent =>
              sync.version <= sync.file + sync.env - 1 + Spent'
        <5>1. \A v, f, e, m, n \in Int : m <= n /\ v <= f + e - 1 + m => v <= f + e - 1 + n
          BY SMT
        <5>2. sync.version \in Int /\ sync.file \in Int /\ sync.env \in Int /\ Spent \in Int
          <6>1. sync.file \in 1..MaxFile /\ sync.env \in 1..MaxEnv /\ sync.version \in 0..MaxVersion
            BY <3>2, CopyOf, Zenon DEF SyncRows
          <6>2. Spent \in Int
            BY <1>0, SpentTyped, Zenon
          <6> QED BY <6>1, <6>2, LocalBounds, LocalAssumption, SMT
        <5> QED BY <5>1, <5>2, <2>3, Zenon
      <4>3. localRow' = localRow /\ sync' = sync
        BY <1>4, Zenon
      <4> QED BY <4>1, <4>2, <4>3, <1>1, <2>3, <3>2, Zenon DEF SyncInv
    <3> QED BY <3>1, <3>2, Zenon
  <2> QED BY <2>3, <2>4, Zenon DEF LocalInv
<1> QED BY <1>3, <1>4, Zenon DEF TriggerPendingReconciles

-----------------------------------------------------------------------------
(* An imported stack before its first sync. *)
LEMMA LocalInitInv == LocalInit => LocalInv
<1> SUFFICES ASSUME LocalInit PROVE LocalInv
  BY Zenon
<1>1. NewRow \in StackRows /\ NewRow.sum = NoSum /\ NewRow.version = 0 /\ NewRow.synced = FALSE
  BY LocalBounds, SMT DEF NewRow, StackRows, Checksums, LocalStatuses
<1>2. sync \in SyncRows /\ sync.at = "idle"
  BY <1>1, LocalBounds, SMT DEF LocalInit, NoSync, SyncRows, Stages, LocalTriggers, LocalStatuses
<1>3. DOMAIN revisionOf = {}
  BY Zenon DEF LocalInit
<1>4. hostRuns \subseteq Contents /\ late \subseteq Contents
  <2>1. [file |-> 1, env |-> 1] \in Contents
    BY LocalBounds, Zenon DEF Contents
  <2>2. hostRuns = {[file |-> 1, env |-> 1]} /\ late = {}
    BY Zenon DEF LocalInit
  <2> QED BY <2>1, <2>2, Zenon
<1>5. asks \in 0..MaxManual /\ localFaults \in 0..MaxLocalFaults
  BY LocalAssumption, SMT DEF LocalInit
<1>6. LocalTypes
  BY <1>1, <1>2, <1>3, <1>4, <1>5, LocalBounds, Zenon DEF LocalInit, LocalTypes, SyncRows
<1>7. 0 <= Spent
  BY <1>2, SMT DEF LocalInit, Spent, OwedQueued, OwedSync, Unrendered
<1>8. RowInv /\ HostInv /\ SyncInv
  BY <1>1, <1>2, Zenon DEF LocalInit, RowInv, HostInv, SyncInv
<1> QED BY <1>6, <1>7, <1>8, Zenon DEF LocalInv

(* Every step keeps the invariant. *)
LEMMA LocalStep == LocalInv /\ [LocalNext]_localVars => LocalInv'
<1> SUFFICES ASSUME LocalInv, [LocalNext]_localVars PROVE LocalInv'
  BY Zenon
<1>1. CASE EditFile \/ EditEnv \/ LateDeploy \/ Disconnect \/ Connect
  BY <1>1, OutsideKeeps, Zenon
<1>2. ASSUME NEW t \in LocalTriggers, ReconcileStack(t) PROVE LocalInv'
  BY <1>2, ReconcileStackKeeps, Zenon
<1>3. CASE TriggerPendingReconciles
  BY <1>3, TriggerPendingKeeps, Zenon
<1>4. CASE Queue \/ ReadFile \/ Compare \/ LoadEnv
  BY <1>4, QueueKeeps, ReadFileKeeps, CompareKeeps, LoadEnvKeeps, Zenon
<1>5. CASE Rejected \/ KeepVersion \/ WriteRevision \/ SaveRevision
  BY <1>5, RejectedKeeps, KeepVersionKeeps, WriteRevisionKeeps, SaveRevisionKeeps, Zenon
<1>6. CASE CreateSyncLog \/ Deployed \/ DeployFails \/ CompleteSync
  BY <1>6, CreateSyncLogKeeps, DeployedKeeps, DeployFailsKeeps, CompleteSyncKeeps, Zenon
<1>7. CASE RestartServer
  BY <1>7, RestartServerKeeps, Zenon
<1>8. CASE UNCHANGED localVars
  <2>1. UNCHANGED <<file, env, localRow, revisionOf, hostRuns, sync, queued, linked,
                    arrived, late, overtaken, asks, localFaults>>
    BY <1>8, Zenon DEF localVars
  <2>2. file \in 1..MaxFile /\ env \in 1..MaxEnv /\ linked \in BOOLEAN /\ arrived \in BOOLEAN
        /\ localFaults \in 0..MaxLocalFaults /\ hostRuns \subseteq Contents /\ late \subseteq Contents
    BY Zenon DEF LocalInv, LocalTypes
  <2>3. file <= file /\ env <= env
    BY <2>2, SMT
  <2> QED BY <2>1, <2>2, <2>3, BesideSync, Zenon
<1> QED BY <1>1, <1>2, <1>3, <1>4, <1>5, <1>6, <1>7, <1>8, Zenon DEF LocalNext, SyncStep

(* The invariant says of a row with a raw checksum what the property says. *)
LEMMA LocalInvSafe == LocalInv => LocalSafety
<1> SUFFICES ASSUME LocalInv PROVE LocalSafety
  BY Zenon
<1>0. LocalTypes /\ RowInv /\ HostInv
  BY Zenon DEF LocalInv
<1>1. queued \subseteq LocalTriggers /\ \A t, u \in queued : t = u
  BY <1>0, Zenon DEF LocalTypes
<1>2. LocalTypeOK
  BY <1>0, <1>1, Zenon DEF LocalTypeOK, LocalTypes
<1>3. ASSUME NEW f \in 1..MaxFile, localRow.sum = RawSum(f), ~overtaken
      PROVE  /\ localRow.deployed \in DOMAIN revisionOf
             /\ hostRuns = {revisionOf[localRow.deployed]}
             /\ revisionOf[localRow.deployed].file = f
  <2>2. localRow.sum # NoSum
    BY <1>3, RawIsSum, Zenon
  <2>3. Rev \in Contents /\ Rev.file \in 1..MaxFile
    BY <1>0, <2>2, RevTyped, Zenon
  <2>4. Raw
    <3>1. localRow.sum = RenderSum(Rev) \/ Raw
      BY <1>0, <2>2, Zenon DEF RowInv
    <3> QED BY <3>1, <1>3, <2>3, SumsDiffer, Zenon
  <2>5. Rev.file = f
    BY <1>3, <2>3, <2>4, RawTells, Zenon DEF Raw
  <2>6. localRow.deployed = localRow.version /\ localRow.version \in DOMAIN revisionOf /\ hostRuns = {Rev}
    BY <1>0, <1>3, <2>2, <2>4, Zenon DEF RowInv, HostInv
  <2> QED BY <2>5, <2>6, Zenon DEF Rev
<1>4. SkippedIsRunning
  BY <1>3, Zenon DEF SkippedIsRunning
<1> QED BY <1>2, <1>4, Zenon DEF LocalSafety

(* A stack imported from a worker host whose row lets a cron tick skip it     *)
(* (reconcileLocalStack compares the raw checksum) runs that file and the     *)
(* revision in deployed_version, unless an abandoned deploy was executed      *)
(* after a later one; for any number of edits, requests and faults.           *)
THEOREM LocalStacksCorrect == LocalSpec => []LocalSafety
<1>1. LocalInit => LocalInv
  BY LocalInitInv, Zenon
<1>2. LocalInv /\ [LocalNext]_localVars => LocalInv'
  BY LocalStep, Zenon
<1>3. LocalInv => LocalSafety
  BY LocalInvSafe, Zenon
<1> QED BY <1>1, <1>2, <1>3, PTL DEF LocalSpec
=============================================================================
