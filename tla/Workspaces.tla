----------------------------- MODULE Workspaces -----------------------------
(***************************************************************************)
(* The working tree of one repository, workspace/<repoID>, and everybody   *)
(* who writes or reads it.  The reconciler's fetches, rollbacks, renders   *)
(* and removals go through a read-write lock kept in a map by repository;  *)
(* the clone a record hook starts in the background and the one the file   *)
(* browser makes go straight to disk.  Deleting the repository removes the *)
(* tree and the lock's map entry, so a task may wait on a lock that is no  *)
(* longer in the map.                                                      *)
(*                                                                         *)
(* A commit is <<source, n>>: the n-th commit of a url and branch.  The    *)
(* git library is external: a clone creates .git first and the files last, *)
(* cleans up after itself when it fails, and refuses a directory that      *)
(* already has .git; a clone follows a single branch of a single url.      *)
(***************************************************************************)
EXTENDS Naturals, FiniteSets

CONSTANTS Tasks,       \* goroutines at work on the repository at the same time
          Sources,     \* the <<url, branch>> pairs a record may name
          First,       \* the source the repository is created with
          MaxPushes,   \* bound: commits pushed upstream after the first
          MaxEdits,    \* bound: edits of the repository record
          MaxTries     \* attempts of one git operation (3 in the code)

ASSUME WorkspacesAssumption ==
  /\ First \in Sources
  /\ MaxPushes \in Nat /\ MaxEdits \in Nat /\ MaxTries \in Nat \ {0}

VARIABLES record,   \* the repositories row, and how often it was saved
          disk,     \* the directory
          head,     \* how many commits there are upstream, of every source
          task,     \* what every goroutine is doing
          entry,    \* which lock the map holds for the repository
          stacked,  \* a stack still refers to the repository
          ticking,  \* the fetch ticker is registered
          strayed,  \* the tree was moved by someone other than FetchRepo
          haunted   \* the tree was removed while an unlocked clone was at work

workspaceVars ==
  <<record, disk, head, task, entry, stacked, ticking, strayed, haunted>>

NoCommit == <<"no commit", 0>>
Commits == (Sources \X (1 .. MaxPushes + 1)) \cup {NoCommit}
Gone == [git |-> FALSE, source |-> First, at |-> NoCommit]

\* What a goroutine is for.  A sync renders a stack from the tree, after a
\* fetch of its own when it was asked for by hand.
Fetches == {"tick", "manual"}
Syncs == {"cron", "sync"}
Unlocked == {"background"}
Kinds == Fetches \cup Syncs \cup Unlocked \cup {"rollback", "remove", "none"}

\* The places where a goroutine holds the write lock, unless it takes none.
Exclusive == {"load", "stat", "clear", "try", "clone", "cloning", "fetch",
              "reset", "resetting", "head", "save", "remove"}
Places == Exclusive \cup {"idle", "lock", "rlock", "reading"}

Resting == [kind |-> "none", at |-> "idle", lock |-> 0, source |-> First,
            tries |-> 0, target |-> NoCommit, sha |-> NoCommit]
Started(kind, place, source) ==
  [Resting EXCEPT !.kind = kind, !.at = place, !.lock = entry, !.source = source]

Writes(t) == task[t].at \in Exclusive /\ task[t].kind \notin Unlocked
Reads(t) == task[t].at = "reading"
Busy(t) == task[t].kind # "none"
Background == {t \in Tasks : task[t].kind \in Unlocked}

\* The tree is half written: a checkout or a reset is under way.
TornBy(t) == task[t].at \in {"cloning", "resetting"}

WorkspacesInit ==
  /\ record = [exists |-> FALSE, source |-> First, sha |-> NoCommit, edits |-> 0]
  /\ disk = Gone
  /\ head = 1
  /\ entry = 0 /\ stacked = FALSE /\ ticking = FALSE
  /\ strayed = FALSE /\ haunted = FALSE
  /\ task = [t \in Tasks |-> Resting]
-----------------------------------------------------------------------------
(***************************************************************************)
(* Who starts.                                                             *)
(***************************************************************************)
FreeLock(t) == ~Busy(t)
BeginTask(t, next) == FreeLock(t) /\ task' = [task EXCEPT ![t] = next]
To(t, place) == task' = [task EXCEPT ![t].at = place]

\* A sync that has to fetch takes the same road as a fetch and renders after
\* it.  Giving the lock up, it asks the map again for the read lock.
LockReleased(t) ==
  task' = [task EXCEPT ![t] =
             IF @.kind \in Syncs
             THEN [Resting EXCEPT !.kind = task[t].kind, !.at = "rlock", !.lock = entry]
             ELSE Resting]
Abandoned(t) == task' = [task EXCEPT ![t] = Resting]

\* triggerRepositoryBackgroundClone takes no lock.
BackgroundClone(t, source) == BeginTask(t, Started("background", "try", source))

\* A new repository is cloned in the background while its ticker starts.  Once
\* deleted it does not come back: another one has another id.
CreateRepository(t) ==
  /\ record.edits = 0
  /\ record' = [record EXCEPT !.exists = TRUE, !.edits = 1]
  /\ ticking' = TRUE
  /\ BackgroundClone(t, First)
  /\ UNCHANGED <<disk, head, entry, stacked, strayed, haunted>>

AddRepoStack ==
  /\ record.exists /\ ~stacked
  /\ stacked' = TRUE
  /\ UNCHANGED <<record, disk, head, task, entry, ticking, strayed, haunted>>

Tick(t) ==
  /\ ticking
  /\ \A u \in Tasks : task[u].kind # "tick"
  /\ BeginTask(t, Started("tick", "lock", First))
  /\ UNCHANGED <<record, disk, head, entry, stacked, ticking, strayed, haunted>>

FetchByHand(t) ==
  /\ record.exists
  /\ BeginTask(t, Started("manual", "lock", First))
  /\ UNCHANGED <<record, disk, head, entry, stacked, ticking, strayed, haunted>>

NeverFetched == record.sha = NoCommit \/ ~disk.git

BeginSync(t) ==
  /\ stacked
  /\ \E kind \in Syncs :
       BeginTask(t, Started(kind, IF kind = "sync" \/ NeverFetched THEN "lock"
                                                               ELSE "rlock", First))
  /\ UNCHANGED <<record, disk, head, entry, stacked, ticking, strayed, haunted>>

BeginRollback(t) ==
  /\ stacked
  /\ BeginTask(t, Started("rollback", "lock", First))
  /\ UNCHANGED <<record, disk, head, entry, stacked, ticking, strayed, haunted>>

BrowseFiles(t) ==
  /\ record.exists
  /\ BeginTask(t, Started("background", "try", record.source))
  /\ UNCHANGED <<record, disk, head, entry, stacked, ticking, strayed, haunted>>

EditRepository(t) ==
  /\ record.exists /\ record.edits <= MaxEdits
  /\ \E s \in Sources :
       /\ record' = [record EXCEPT !.source = s, !.edits = @ + 1]
       /\ BackgroundClone(t, s)
  /\ UNCHANGED <<disk, head, entry, stacked, ticking, strayed, haunted>>

DeleteRepoStack ==
  /\ stacked /\ stacked' = FALSE
  /\ UNCHANGED <<record, disk, head, task, entry, ticking, strayed, haunted>>

DeleteRepository(t) ==
  /\ record.exists /\ ~stacked
  /\ record' = [record EXCEPT !.exists = FALSE]
  /\ ticking' = FALSE
  /\ BeginTask(t, Started("remove", "lock", First))
  /\ UNCHANGED <<disk, head, entry, stacked, strayed, haunted>>

Push ==
  /\ head <= MaxPushes
  /\ head' = head + 1
  /\ UNCHANGED <<record, disk, task, entry, stacked, ticking, strayed, haunted>>
-----------------------------------------------------------------------------
(***************************************************************************)
(* The lock.  Holders of different map entries do not see one another.     *)
(***************************************************************************)
Shares(t, u) == u # t /\ task[u].lock = task[t].lock
\* Mutant: a writer waits for readers only.
NoHolder_Readers(t) == \A u \in Tasks : Shares(t, u) => ~Reads(u)

NoHolder(t) == \A u \in Tasks : Shares(t, u) => ~Writes(u) /\ ~Reads(u)
NoWriter(t) == \A u \in Tasks : Shares(t, u) => ~Writes(u)

FirstPlace(t) == CASE task[t].kind = "rollback" -> "reset"
                   [] task[t].kind = "remove" -> "remove"
                   [] OTHER -> "load"

LockRepository(t) ==
  /\ task[t].at = "lock"
  /\ NoHolder(t) /\ To(t, FirstPlace(t))
  /\ UNCHANGED <<record, disk, head, entry, stacked, ticking, strayed, haunted>>

TickSkips(t) ==
  /\ task[t].at = "lock" /\ task[t].kind = "tick" /\ ~NoHolder(t)
  /\ Abandoned(t)
  /\ UNCHANGED <<record, disk, head, entry, stacked, ticking, strayed, haunted>>

\* Under the read lock the recorded commit is read again, then the files.
ReadLock(t) ==
  /\ task[t].at = "rlock"
  /\ NoWriter(t)
  /\ IF record.exists /\ record.sha # NoCommit /\ disk.git
     THEN task' = [task EXCEPT ![t].at = "reading", ![t].sha = record.sha]
     ELSE Abandoned(t)
  /\ UNCHANGED <<record, disk, head, entry, stacked, ticking, strayed, haunted>>

ReadDone(t) ==
  /\ Reads(t)
  /\ Abandoned(t)
  /\ UNCHANGED <<record, disk, head, entry, stacked, ticking, strayed, haunted>>
-----------------------------------------------------------------------------
(***************************************************************************)
(* fetchRepo, and the CloneOrFetchContext it shares with the others.       *)
(***************************************************************************)
\* Mutant: a record that is gone is fetched all the same.
LoadRecord_Early(t) ==
  /\ task[t].at = "load"
  /\ task' = [task EXCEPT ![t].at = "stat", ![t].source = record.source]
  /\ UNCHANGED <<record, disk, head, entry, stacked, ticking, strayed, haunted>>

LoadRecord(t) ==
  /\ task[t].at = "load"
  /\ IF record.exists
     THEN task' = [task EXCEPT ![t].at = "stat", ![t].source = record.source]
     ELSE Abandoned(t)
  /\ UNCHANGED <<record, disk, head, entry, stacked, ticking, strayed, haunted>>

StatTree(t) ==
  /\ task[t].at = "stat"
  /\ To(t, IF disk.git THEN "try" ELSE "clear")
  /\ UNCHANGED <<record, disk, head, entry, stacked, ticking, strayed, haunted>>

ClearTree(t) ==
  /\ task[t].at = "clear"
  /\ disk' = Gone
  /\ To(t, "try")
  /\ UNCHANGED <<record, head, entry, stacked, ticking, strayed, haunted>>

CloneOrFetch(t) ==
  /\ task[t].at = "try"
  /\ To(t, IF disk.git THEN "fetch" ELSE "clone")
  /\ UNCHANGED <<record, disk, head, entry, stacked, ticking, strayed, haunted>>

\* An attempt that failed: fetchRepo tries a transient failure again and, after
\* the last one, stops with the repository marked broken; the others give up.
Failed(t) ==
  \/ /\ task[t].kind \notin Unlocked /\ task[t].tries + 1 < MaxTries
     /\ task' = [task EXCEPT ![t].at = "try", ![t].tries = @ + 1]
  \/ Abandoned(t)

CloneStarts(t) ==
  /\ task[t].at = "clone"
  /\ IF disk.git
     THEN Failed(t) /\ UNCHANGED <<disk, strayed>>
     ELSE /\ disk' = [git |-> TRUE, source |-> task[t].source, at |-> NoCommit]
          /\ To(t, "cloning")
          /\ strayed' = (strayed \/ task[t].kind \in Unlocked)
  /\ UNCHANGED <<record, head, entry, stacked, ticking, haunted>>

\* A directory removed under the clone makes it fail; so may the remote.
CloneEnds(t) ==
  /\ task[t].at = "cloning"
  /\ \/ /\ disk.git
        /\ disk' = [disk EXCEPT !.at = <<disk.source, head>>]
        /\ IF task[t].kind \in Unlocked THEN Abandoned(t) ELSE To(t, "head")
     \/ /\ disk' = Gone
        /\ Failed(t)
  /\ UNCHANGED <<record, head, entry, stacked, ticking, strayed, haunted>>

\* The fetch follows the tree's own url and branch; asking for another branch
\* finds no remote reference.
FetchRemote(t) ==
  /\ task[t].at = "fetch"
  /\ \/ /\ disk.git /\ disk.source[2] = task[t].source[2]
        /\ task' = [task EXCEPT ![t].at = "reset",
                                ![t].target = <<disk.source, head>>]
     \/ Failed(t)
  /\ UNCHANGED <<record, disk, head, entry, stacked, ticking, strayed, haunted>>

\* A hard reset, to what was fetched or to the commit a rollback names.
ResetStarts(t) ==
  /\ task[t].at = "reset"
  /\ IF task[t].kind = "rollback"
     THEN \/ \E n \in 1 .. head :
               /\ disk.git /\ disk.at # NoCommit
               /\ task' = [task EXCEPT ![t].at = "resetting",
                                       ![t].target = <<disk.source, n>>]
               /\ strayed' = TRUE
          \/ Abandoned(t) /\ UNCHANGED strayed
     ELSE /\ To(t, "resetting")
          /\ strayed' = (strayed \/ task[t].kind \in Unlocked)
  /\ UNCHANGED <<record, disk, head, entry, stacked, ticking, haunted>>

ResetEnds(t) ==
  /\ task[t].at = "resetting"
  /\ IF disk.git
     THEN /\ disk' = [disk EXCEPT !.at = task[t].target]
          /\ IF task[t].kind \in Fetches \cup Syncs
             THEN task' = [task EXCEPT ![t].at = "head", ![t].target = NoCommit]
             ELSE Abandoned(t)
     ELSE /\ IF task[t].kind = "rollback" THEN Abandoned(t) ELSE Failed(t)
          /\ UNCHANGED disk
  /\ UNCHANGED <<record, head, entry, stacked, ticking, strayed, haunted>>

\* The commit checked out is read back from the tree, then recorded, before
\* the lock is given up.  The save fails when the row is gone, and may fail for
\* the database's own reasons.
ReadHead(t) ==
  /\ task[t].at = "head"
  /\ IF disk.git /\ disk.at # NoCommit
     THEN /\ task' = [task EXCEPT ![t].at = "save", ![t].sha = disk.at,
                                  ![t].source = First, ![t].tries = 0]
          /\ strayed' = (Background # {})
     ELSE Abandoned(t) /\ UNCHANGED strayed
  /\ UNCHANGED <<record, disk, head, entry, stacked, ticking, haunted>>

\* Mutant: only the first commit is recorded.
SaveFetched_Skipped(t) ==
  /\ task[t].at = "save"
  /\ record' = [record EXCEPT !.sha = IF @ = NoCommit THEN task[t].sha ELSE @]
  /\ LockReleased(t)
  /\ UNCHANGED <<disk, head, entry, stacked, ticking, strayed, haunted>>

SaveFetched(t) ==
  /\ task[t].at = "save"
  /\ \/ /\ record.exists
        /\ record' = [record EXCEPT !.sha = task[t].sha]
        /\ LockReleased(t)
        /\ UNCHANGED strayed
     \/ /\ UNCHANGED record
        /\ strayed' = TRUE
        /\ Abandoned(t)
  /\ UNCHANGED <<disk, head, entry, stacked, ticking, haunted>>

\* Whoever waits for the old lock keeps waiting for it; a later caller finds
\* no entry and makes a new one.
RemoveTree(t) ==
  /\ task[t].at = "remove"
  /\ disk' = Gone
  /\ entry' = entry + 1
  /\ Abandoned(t)
  /\ haunted' = (Background # {})
  /\ UNCHANGED <<record, head, stacked, ticking, strayed>>

WorkspacesNext ==
  \/ \E t \in Tasks :
       \/ CreateRepository(t) \/ Tick(t) \/ FetchByHand(t) \/ BeginSync(t)
       \/ BeginRollback(t)
       \/ BrowseFiles(t) \/ EditRepository(t) \/ DeleteRepository(t)
       \/ LockRepository(t) \/ TickSkips(t) \/ ReadLock(t) \/ ReadDone(t)
       \/ LoadRecord(t) \/ StatTree(t) \/ ClearTree(t) \/ CloneOrFetch(t)
       \/ CloneStarts(t) \/ CloneEnds(t) \/ FetchRemote(t)
       \/ ResetStarts(t) \/ ResetEnds(t) \/ ReadHead(t) \/ SaveFetched(t)
       \/ RemoveTree(t)
  \/ AddRepoStack \/ DeleteRepoStack
  \/ Push

WorkspacesSpec == WorkspacesInit /\ [][WorkspacesNext]_workspaceVars
-----------------------------------------------------------------------------
WorkspacesTypeOK ==
  /\ record \in [exists : BOOLEAN, source : Sources, sha : Commits,
                 edits : 0 .. MaxEdits + 1]
  /\ disk \in [git : BOOLEAN, source : Sources, at : Commits]
  /\ head \in 1 .. MaxPushes + 1
  /\ task \in [Tasks -> [kind : Kinds, at : Places, lock : 0 .. 1, source : Sources,
                        tries : 0 .. MaxTries - 1, target : Commits, sha : Commits]]
  /\ entry \in 0 .. 1
  /\ stacked \in BOOLEAN /\ ticking \in BOOLEAN
  /\ strayed \in BOOLEAN /\ haunted \in BOOLEAN

\* Of the goroutines that use the lock, the one that is changing the files is
\* alone with them: no other is changing or rendering them, although the
\* removal of the tree hands out a fresh lock to whoever comes next (repoMutex
\* and RemoveRepoWorkspace in reconciler.go).
TreeHasOneWriter ==
  \A t, u \in Tasks :
    /\ t # u
    /\ Writes(t) /\ task[t].at \in {"clear", "clone", "cloning", "resetting", "remove"}
    => ~Reads(u) /\ ~(Writes(u) /\ task[u].at \in {"clear", "clone", "cloning",
                                                   "resetting", "remove"})

\* A sync renders whole files of the very commit it is going to report as
\* deployed, as long as nobody but FetchRepo has moved the tree since the last
\* fetch was recorded: a rollback, an unlocked clone or a failed save does.
RenderedIsTheRecordedCommit ==
  \A t \in Tasks :
    Reads(t) /\ ~strayed => /\ disk.git /\ disk.at = task[t].sha
                           /\ \A u \in Tasks : ~TornBy(u)

\* The tree of a deleted repository stays deleted.  A fetch that was queued
\* behind the removal reads the record again and stops; only a clone that takes
\* no lock and was under way at the removal may bring the directory back.
RemovedStaysRemoved == entry = 1 /\ ~haunted => ~disk.git

\* What the per-repository lock is for: one writer at a time, whole files of the
\* recorded commit, and no tree of a deleted repository.
WorkspacesSafety ==
  /\ WorkspacesTypeOK /\ TreeHasOneWriter
  /\ RenderedIsTheRecordedCommit /\ RemovedStaysRemoved
=============================================================================
