---------------------------- MODULE LocalStacks ----------------------------
(***************************************************************************)
(* The reconcile loop of a stack imported from a compose file on a worker  *)
(* host (source_type = local): reconcileLocalStack and GenerateRevision in *)
(* internal/sync, with the file, the variables, the row of the stack, its  *)
(* revisions on the server's disk and what the host runs.                  *)
(*                                                                         *)
(* The column "checksum" has two writers here.  GenerateRevision stores    *)
(* the hash of the rendered file and its variables, the end of a           *)
(* successful sync the hash of the raw file.  Hashes are modelled by what  *)
(* they are computed from, tagged with the function that computed them.    *)
(*                                                                         *)
(* Pausing a stack, renaming its project and the queue of the scheduler    *)
(* are the business of StackSync, Executor and Relocation.                 *)
(***************************************************************************)
EXTENDS Integers

CONSTANTS
  MaxFile,         \* the compose file has the contents 1 .. MaxFile in turn
  MaxEnv,          \* and the variables the values 1 .. MaxEnv
  MaxManual,       \* bound on the syncs an operator asks for
  MaxLocalFaults   \* bound on failures, disconnects and restarts

ASSUME LocalAssumption ==
  /\ MaxFile \in Nat \ {0} /\ MaxEnv \in Nat \ {0}
  /\ MaxManual \in Nat /\ MaxLocalFaults \in Nat

VARIABLES
  file,        \* contents of the compose file on the worker host
  env,         \* resolved variables of the stack
  localRow,    \* the row in "stacks"
  revisionOf,  \* version |-> contents of v<version>.yml on the server
  hostRuns,    \* the contents its containers were started from
  sync,        \* the reconcile in progress and its copy of the row
  queued,      \* triggers in stack_pending_reconciles
  linked,      \* the worker is connected
  arrived,     \* TriggerPendingReconciles is still to look at the queue
  late,        \* deploys the worker may still execute after their attempt
  asks,        \* syncs asked for by an operator
  overtaken,   \* the last deploy succeeded while an older one was outstanding
  localFaults

localVars == <<file, env, localRow, revisionOf, hostRuns, sync, queued, linked,
               arrived, late, overtaken, asks, localFaults>>

\* Each of them, and each edit, renders at most one more revision.
MaxVersion == MaxFile + MaxEnv + MaxManual

LocalTriggers == {"cron", "manual"}
Contents == [file : 1..MaxFile, env : 1..MaxEnv]
RawSum(f) == <<"raw", f>>
RenderSum(c) == <<"render", c.file, c.env>>
NoSum == <<>>
Checksums ==
  {NoSum} \cup {RawSum(f) : f \in 1..MaxFile} \cup {RenderSum(c) : c \in Contents}

LocalStatuses == {"pending", "syncing", "active", "degraded", "error"}
StackRows == [status : LocalStatuses, sum : Checksums, version : 0..MaxVersion,
              deployed : 0..MaxVersion, synced : BOOLEAN, secretErr : BOOLEAN]
Stages == {"idle", "queue", "read", "compare", "env", "render", "written", "log",
           "dispatch", "check"}

NewRow == [status |-> "pending", sum |-> NoSum, version |-> 0, deployed |-> 0,
           synced |-> FALSE, secretErr |-> FALSE]
NoSync == [at |-> "idle", trigger |-> "cron", row |-> NewRow, prev |-> "pending",
           file |-> 1, env |-> 1, version |-> 0]

LocalTypeOK ==
  /\ file \in 1..MaxFile /\ env \in 1..MaxEnv
  /\ localRow \in StackRows
  /\ DOMAIN revisionOf \subseteq 1..MaxVersion
  /\ \A v \in DOMAIN revisionOf : revisionOf[v] \in Contents
  /\ hostRuns \subseteq Contents /\ late \subseteq Contents
  /\ sync \in [at : Stages, trigger : LocalTriggers, row : StackRows,
               prev : LocalStatuses, file : 1..MaxFile, env : 1..MaxEnv,
               version : 0..MaxVersion]
  /\ queued \subseteq LocalTriggers /\ \A t, u \in queued : t = u
  /\ linked \in BOOLEAN /\ arrived \in BOOLEAN /\ overtaken \in BOOLEAN
  /\ asks \in 0..MaxManual /\ localFaults \in 0..MaxLocalFaults

\* An imported stack before its first sync: the host runs the file already.
LocalInit ==
  /\ file = 1 /\ env = 1 /\ localRow = NewRow
  /\ revisionOf = [v \in {} |-> [file |-> 1, env |-> 1]]
  /\ hostRuns = {[file |-> 1, env |-> 1]}
  /\ sync = NoSync /\ queued = {} /\ linked = TRUE /\ arrived = FALSE
  /\ late = {} /\ overtaken = FALSE /\ asks = 0 /\ localFaults = 0

World == <<file, env, linked, arrived, asks>>
Host == <<hostRuns, late, overtaken>>

Faults(n) == localFaults + n <= MaxLocalFaults /\ localFaults' = localFaults + n
NoFault == localFaults' = localFaults

\* saveRecord: the columns of the copy, or an error that leaves the row as it is.
SaveRow(r) == NoFault /\ localRow' = r
SaveFails == Faults(1) /\ UNCHANGED localRow

\* markSyncError, markSecretError and markDeployFailure: their own save may fail
\* as well, and its error is dropped.
MarkError(r, cause) ==
  \/ Faults(cause) /\ localRow' = [r EXCEPT !.status = "error"]
  \/ Faults(cause + 1) /\ UNCHANGED localRow

EndSync == sync' = NoSync
Goes(at) == sync' = [sync EXCEPT !.at = at]

-----------------------------------------------------------------------------
\* The host's administrator edits the file; an operator edits the variables.
EditFile ==
  /\ file < MaxFile /\ file' = file + 1
  /\ UNCHANGED <<env, localRow, revisionOf, Host, sync, queued, linked, arrived,
                 asks, localFaults>>

EditEnv ==
  /\ env < MaxEnv /\ env' = env + 1
  /\ UNCHANGED <<file, localRow, revisionOf, Host, sync, queued, linked, arrived,
                 asks, localFaults>>

\* effectivePrevStatus and shouldMarkPendingOnQueue.
PrevStatus(r) == IF r.status = "pending" /\ r.synced THEN "active" ELSE r.status
PendingOnQueue(r) == IF r.status = "error" THEN r ELSE [r EXCEPT !.status = "pending"]

\* Mutant: a tick also leaves a syncing stack alone.
LeftAlone_Syncing(trigger) ==
  trigger = "cron" /\ (localRow.secretErr \/ localRow.status = "syncing")

\* After a secret error only an operator starts a sync.
LeftAlone(trigger) == trigger = "cron" /\ localRow.secretErr

\* ReconcileStack up to the read of the file.  The secret backends and the
\* worker are checked first; an offline worker makes the sync a queued one.
Start(trigger) ==
  LET begun == [NoSync EXCEPT !.trigger = trigger, !.row = localRow] IN
  \/ /\ LeftAlone(trigger)
     /\ NoFault /\ UNCHANGED <<localRow, sync>>
  \/ /\ ~LeftAlone(trigger)
     /\ \/ MarkError([localRow EXCEPT !.secretErr = TRUE], 1) /\ EndSync
        \/ MarkError(localRow, 1) /\ EndSync
        \/ /\ ~linked /\ NoFault /\ UNCHANGED localRow
           /\ sync' = [begun EXCEPT !.at = "queue"]
        \/ /\ linked
           /\ LET syncing == [localRow EXCEPT !.status = "syncing"] IN
              \/ /\ SaveRow(syncing)
                 /\ sync' = [begun EXCEPT !.at = "read", !.row = syncing,
                                          !.prev = PrevStatus(localRow)]
              \/ SaveFails /\ EndSync

ReconcileStack(trigger) ==
  /\ sync.at = "idle"
  /\ asks' = IF trigger = "manual" THEN asks + 1 ELSE asks
  /\ asks' <= MaxManual
  /\ Start(trigger)
  /\ UNCHANGED <<file, env, linked, arrived, revisionOf, Host, queued>>

\* queuePendingReconcile replaces what is queued; its failure is an error.
Enqueued(trigger) == {trigger}

Queue ==
  /\ sync.at = "queue"
  /\ \/ /\ queued' = Enqueued(sync.trigger)
        /\ SaveRow(PendingOnQueue(sync.row)) \/ SaveFails
     \/ /\ queued' \in {queued, {}} /\ MarkError(sync.row, 1)
  /\ EndSync
  /\ UNCHANGED <<World, revisionOf, Host>>

\* TriggerPendingReconciles runs once per connection.  It deletes what is queued
\* before it starts the sync, which a sync in progress turns into nothing.
TriggerPendingReconciles ==
  /\ linked /\ arrived
  /\ arrived' = FALSE /\ queued' = {}
  /\ IF queued # {} /\ sync.at = "idle"
     THEN \E t \in queued : Start(t)
     ELSE NoFault /\ UNCHANGED <<localRow, sync>>
  /\ UNCHANGED <<file, env, linked, asks, revisionOf, Host>>

-----------------------------------------------------------------------------
\* ReadFileCommand and the working copy: the worker may be gone by now.
ReadFile ==
  /\ sync.at = "read"
  /\ \/ /\ linked /\ NoFault /\ UNCHANGED localRow
        /\ sync' = [sync EXCEPT !.at = "compare", !.file = file]
     \/ MarkError(sync.row, IF linked THEN 1 ELSE 0) /\ EndSync
  /\ UNCHANGED <<World, revisionOf, Host, queued>>

\* Mutant: the checksum of a rendering counts as well.
Unchanged_AnyRender(s) ==
  /\ s.trigger = "cron" /\ s.row.synced
  /\ \/ s.row.sum = RawSum(s.file)
     \/ s.row.sum = RenderSum([file |-> s.file, env |-> env])

\* Only a cron tick may find nothing to do.
Unchanged(s) ==
  s.trigger = "cron" /\ s.row.synced /\ s.row.sum = RawSum(s.file)

Compare ==
  /\ sync.at = "compare"
  /\ IF Unchanged(sync)
     THEN /\ EndSync
          /\ SaveRow([sync.row EXCEPT !.status = sync.prev]) \/ SaveFails
     ELSE Goes("env") /\ SaveRow(localRow)
  /\ UNCHANGED <<World, revisionOf, Host, queued>>

\* loadEnvVars, then clearSecretError, whose failing save is only logged.
LoadEnv ==
  /\ sync.at = "env"
  /\ \/ /\ MarkError([sync.row EXCEPT !.secretErr = TRUE], 1) /\ EndSync
     \/ LET cleared == [sync.row EXCEPT !.secretErr = FALSE] IN
        /\ SaveRow(cleared) \/ (sync.row.secretErr /\ SaveFails)
        /\ sync' = [sync EXCEPT !.at = "render", !.env = env, !.row = cleared]
  /\ UNCHANGED <<World, revisionOf, Host, queued>>

-----------------------------------------------------------------------------
\* GenerateRevision.  Rendering, the policy and the static checks come first and
\* may reject the file.
Desired == [file |-> sync.file, env |-> sync.env]
Current(r) == IF r.version = 0 THEN 1 ELSE r.version
NextVersion(r) == IF r.sum = NoSum THEN Current(r) ELSE Current(r) + 1
Write(v, c) == revisionOf' = [w \in DOMAIN revisionOf \cup {v} |->
                               IF w = v THEN c ELSE revisionOf[w]]

Rejected ==
  /\ sync.at = "render"
  /\ MarkError(sync.row, 1) /\ EndSync
  /\ UNCHANGED <<World, revisionOf, Host, queued>>

\* The checksum is the stored one: the version stays, and a file missing on disk
\* is written again.
KeepVersion ==
  /\ sync.at = "render" /\ sync.row.sum = RenderSum(Desired)
  /\ IF Current(sync.row) \in DOMAIN revisionOf THEN UNCHANGED revisionOf
     ELSE Write(Current(sync.row), Desired)
  /\ sync' = [sync EXCEPT !.at = "log", !.version = Current(sync.row)]
  /\ UNCHANGED <<World, localRow, Host, queued, localFaults>>

\* The file is written, then the revision record; if that fails, the file goes.
WriteRevision ==
  /\ sync.at = "render" /\ sync.row.sum # RenderSum(Desired)
  /\ \/ /\ Write(NextVersion(sync.row), Desired)
        /\ sync' = [sync EXCEPT !.at = "written", !.version = NextVersion(sync.row)]
        /\ UNCHANGED <<localRow, localFaults>>
     \/ /\ revisionOf' = [v \in DOMAIN revisionOf \ {NextVersion(sync.row)} |->
                           revisionOf[v]]
        /\ MarkError(sync.row, 1) /\ EndSync
  /\ UNCHANGED <<World, Host, queued>>

\* The row follows.  When this save fails the caller marks the same copy of the
\* row, which carries the new version and checksum with it.
SaveRevision ==
  LET rendered == [sync.row EXCEPT !.version = sync.version,
                                   !.sum = RenderSum(Desired)] IN
  /\ sync.at = "written"
  /\ \/ SaveRow(rendered) /\ sync' = [sync EXCEPT !.at = "log", !.row = rendered]
     \/ MarkError(rendered, 1) /\ EndSync
  /\ UNCHANGED <<World, revisionOf, Host, queued>>

\* createSyncLog: an error returns at once and leaves the row "syncing".
CreateSyncLog ==
  /\ sync.at = "log"
  /\ \/ Goes("dispatch") /\ SaveRow(localRow)
     \/ EndSync /\ SaveFails
  /\ UNCHANGED <<World, revisionOf, Host, queued>>

-----------------------------------------------------------------------------
\* What is shipped: the revision's file as it is on disk, and the variables.
Shipped == [file |-> revisionOf[sync.version].file, env |-> sync.env]

Deployed ==
  /\ sync.at = "dispatch" /\ linked /\ sync.version \in DOMAIN revisionOf
  /\ hostRuns' = {Shipped} /\ overtaken' = (late # {}) /\ Goes("check")
  /\ UNCHANGED <<World, localRow, revisionOf, queued, late, localFaults>>

\* The deploy fails: before the command leaves (the file cannot be read, the
\* registry credentials or the variables cannot be resolved), on the host, where
\* it may have replaced some containers or all, or by a timeout, after which the
\* worker may still have the command.
DeployFails ==
  /\ sync.at = "dispatch"
  /\ MarkError(sync.row, IF linked THEN 1 ELSE 0) /\ EndSync
  /\ \/ UNCHANGED <<hostRuns, late>>
     \/ /\ linked /\ sync.version \in DOMAIN revisionOf
        /\ \/ hostRuns' \in {hostRuns \cup {Shipped}, {Shipped}} /\ UNCHANGED late
           \/ late' = late \cup {Shipped} /\ UNCHANGED hostRuns
  /\ UNCHANGED <<World, revisionOf, queued, overtaken>>

\* The worker gets to a command whose attempt is over.
LateDeploy ==
  /\ linked
  /\ \E c \in late : late' = late \ {c} /\ hostRuns' = {c}
  /\ UNCHANGED <<World, localRow, revisionOf, sync, queued, overtaken, localFaults>>

\* Mutant: the file is read again to record its checksum.
Recorded_Reread(s, verdict) ==
  [s.row EXCEPT !.sum = RawSum(file), !.synced = TRUE, !.status = verdict,
                !.deployed = s.version]

\* The end of a successful sync: the verdict of postDeployCheck becomes the status
\* and the raw hash the checksum.  Closing the log may fail after that.
Recorded(s, verdict) ==
  [s.row EXCEPT !.sum = RawSum(s.file), !.synced = TRUE, !.status = verdict,
                !.deployed = s.version]

CompleteSync ==
  /\ sync.at = "check"
  /\ \E verdict \in {"active", "degraded", "error"} :
       LET done == Recorded(sync, verdict) IN
       SaveRow(done) \/ SaveFails \/ MarkError(done, 1)
  /\ EndSync
  /\ UNCHANGED <<World, revisionOf, Host, queued>>

-----------------------------------------------------------------------------
Disconnect ==
  /\ linked /\ Faults(1) /\ linked' = FALSE /\ arrived' = FALSE
  /\ UNCHANGED <<file, env, localRow, revisionOf, Host, sync, queued, asks>>

Connect ==
  /\ ~linked /\ linked' = TRUE /\ arrived' = TRUE
  /\ UNCHANGED <<file, env, localRow, revisionOf, Host, sync, queued, asks, localFaults>>

\* A restart of the server: the sync is gone, its command may be on its way, and
\* RecoverOrphanState turns "syncing" into "error".
RecoverOrphanState(r) == IF r.status = "syncing" THEN [r EXCEPT !.status = "error"] ELSE r

RestartServer ==
  /\ Faults(1)
  /\ localRow' = RecoverOrphanState(localRow)
  /\ \/ UNCHANGED late
     \/ /\ sync.at = "dispatch" /\ sync.version \in DOMAIN revisionOf
        /\ late' = late \cup {Shipped}
  /\ linked' = FALSE /\ arrived' = FALSE /\ EndSync
  /\ UNCHANGED <<file, env, revisionOf, hostRuns, queued, overtaken, asks>>

SyncStep ==
  \/ Queue \/ ReadFile \/ Compare \/ LoadEnv \/ Rejected \/ KeepVersion
  \/ WriteRevision \/ SaveRevision \/ CreateSyncLog \/ Deployed \/ DeployFails
  \/ CompleteSync

LocalNext ==
  \/ EditFile \/ EditEnv
  \/ \E t \in LocalTriggers : ReconcileStack(t)
  \/ TriggerPendingReconciles \/ SyncStep
  \/ LateDeploy \/ Disconnect \/ Connect \/ RestartServer

\* The scheduler ticks, a sync that runs ends, a worker reconnects.
LocalSpec ==
  /\ LocalInit /\ [][LocalNext]_localVars
  /\ WF_localVars(ReconcileStack("cron")) /\ WF_localVars(SyncStep)
  /\ WF_localVars(Connect)

-----------------------------------------------------------------------------
(* A raw checksum in the row, which is what lets a cron tick skip the stack *)
(* (reconcileLocalStack, "Change detection"), means that the host runs that *)
(* file alone, and exactly the revision in deployed_version, whatever        *)
(* failed, disconnected or restarted before.  Only a command of an abandoned *)
(* attempt that the worker executes after a later sync was recorded can      *)
(* break it.                                                                 *)
SkippedIsRunning ==
  \A f \in 1..MaxFile :
    localRow.sum = RawSum(f) /\ ~overtaken =>
      /\ localRow.deployed \in DOMAIN revisionOf
      /\ hostRuns = {revisionOf[localRow.deployed]}
      /\ revisionOf[localRow.deployed].file = f

(* A changed file reaches the host: it is deployed or replaced by another    *)
(* change, unless the stack waits for an operator after a secret error, in   *)
(* which case cron ticks leave it alone (ReconcileStack), or an abandoned    *)
(* deploy came after it.                                                     *)
LocalChangeIsDeployed ==
  \A f \in 1..MaxFile :
    file = f ~> \/ file # f
                \/ \E c \in hostRuns : c.file = f
                \/ localRow.secretErr \/ overtaken

(* A row stays "syncing" only for a stack that is up to date: not after a    *)
(* log that could not be created, a last save that failed or a restart       *)
(* (RecoverOrphanState), unless the stack waits for an operator after a      *)
(* secret error.  A stack that is up to date can keep it, because a cron     *)
(* tick that finds nothing to do restores the status it found.               *)
SyncingEnds ==
  localRow.status = "syncing" ~>
    \/ localRow.status # "syncing"
    \/ localRow.secretErr
    \/ localRow.sum = RawSum(file)

(* A local stack that is skipped is running, and the state has its types. *)
LocalSafety == LocalTypeOK /\ SkippedIsRunning

(* A local stack gets on: a change is deployed and "syncing" ends. *)
LocalProgress == LocalChangeIsDeployed /\ SyncingEnds
============================================================================
