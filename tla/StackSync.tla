----------------------------- MODULE StackSync -----------------------------
(***************************************************************************)
(* The stack reconciler (internal/sync/reconciler.go) and the scheduler    *)
(* that drives it (internal/sync/scheduler.go): Git stacks that share one  *)
(* repository and one worker, from the fetch of a commit to the record of  *)
(* what was deployed.  ReconcileStack, RollbackStack and                   *)
(* ForceRedeployStack run as one operation per stack (the stack mutex) and *)
(* meet in the repository's checkout and its last_commit_sha.              *)
(*                                                                         *)
(* A revision is a rendered compose file: the commit in its labels and the *)
(* checksum of what was read in the checkout.  The containers of a stack   *)
(* are the set of revisions they run, so a half-finished `compose up` is a *)
(* set of two.  The version number grows exactly when the checksum changes *)
(* or the revision is forced, so the comparison of checksums stands for    *)
(* the comparison of both.  Dispatch is the call WorkerLink takes apart.   *)
(***************************************************************************)
EXTENDS Integers, FiniteSets

CONSTANTS
  Stacks,       \* stacks of the repository, all on one worker
  Sums,         \* checksums of rendered compose files
  Content,      \* what a stack's compose file is at a commit
  NoSum,        \* the empty checksum
  ticker,       \* the repository's fetch ticker
  nobody,       \* no holder of the repository's write lock
  MaxCommits,   \* bound: commits pushed to the remote branch
  MaxRetries,   \* deploy attempts of one reconcile (3 in the code)
  MaxSyncs,     \* capacity of syncSemaphore
  MaxOps,       \* bound: what operators ask for
  MaxFaults     \* bound: failures, lost connections and restarts, together

Commits == 1 .. MaxCommits

ASSUME ContentAssumption ==
  /\ Content \in [Stacks -> [Commits -> Sums]]
  /\ NoSum \notin Sums /\ ticker \notin Stacks
  /\ nobody \notin Stacks \cup {ticker}

ASSUME BoundsAssumption ==
  /\ MaxCommits \in Nat \ {0} /\ MaxRetries \in Nat \ {0}
  /\ MaxSyncs \in Nat \ {0} /\ MaxOps \in Nat /\ MaxFaults \in Nat

VARIABLES
  head,       \* the remote branch
  tree,       \* the commit checked out in workspace/<repoID> (0: no clone)
  lastSHA,    \* repositories.last_commit_sha (0: never fetched)
  writer,     \* who holds the repository's write lock
  status,     \* per stack: stacks.status
  revision,   \* per stack: the last revision rendered, stacks.checksum
  deployed,   \* per stack: deployed_commit and deployed_checksum
  secretErr,  \* stacks whose secret_error is set
  pending,    \* per stack: the trigger in stack_pending_reconciles
  op,         \* per stack: the operation that holds the stack mutex
  wants,      \* per stack: triggered goroutines waiting for the semaphore
  online,     \* the worker is connected
  host,       \* per stack: the revisions its containers run
  skewed,     \* checkout and last_commit_sha were moved apart: by a
              \* rollback, or by a crash inside a fetch
  stranded,   \* stacks whose reconcile was cut off between two attempts
  ops, faults

repo == <<head, tree, lastSHA, writer>>
record == <<status, revision, deployed, secretErr>>
history == <<skewed, stranded>>
vars == <<repo, record, pending, op, wants, online, host, history, ops, faults>>

Revisions == [commit : Commits, sum : Sums]
NoRevision == [commit |-> 0, sum |-> NoSum]
Triggers == {"cron", "manual"}

\* What postDeployCheck may say of the containers ("degraded" is not told from
\* "error" by anything below).
Verdicts == {"active", "error"}
Statuses == Verdicts \cup {"pending", "syncing", "paused"}

\* An operation that starts: nothing is rendered yet.
Started(pc, kind, trig, prev, commit) ==
  [pc |-> pc, kind |-> kind, trig |-> trig, prev |-> prev,
   rev |-> [commit |-> commit, sum |-> NoSum], try |-> 0]

Idle == Started("idle", "none", "none", "none", 0)

Operations ==
  [pc : {"idle", "fetching", "saving", "deciding", "queueing", "waiting",
         "resetting", "rendering", "deploying", "persisting", "recording"},
   kind : {"none", "reconcile", "rollback", "redeploy"},
   trig : Triggers \cup {"none"},
   prev : Statuses \cup {"none"},
   rev : [commit : 0 .. MaxCommits, sum : Sums \cup {NoSum}],
   try : 0 .. MaxRetries]

TypeOK ==
  /\ head \in Commits /\ tree \in 0 .. head /\ lastSHA \in 0 .. head
  /\ writer \in Stacks \cup {ticker, nobody}
  /\ status \in [Stacks -> Statuses]
  /\ revision \in [Stacks -> Revisions \cup {NoRevision}]
  /\ deployed \in [Stacks -> Revisions \cup {NoRevision}]
  /\ secretErr \subseteq Stacks /\ stranded \subseteq Stacks
  /\ pending \in [Stacks -> Triggers \cup {"none"}]
  /\ wants \in [Stacks -> SUBSET Triggers]
  /\ host \in [Stacks -> SUBSET Revisions]
  /\ op \in [Stacks -> Operations]
  /\ online \in BOOLEAN /\ skewed \in BOOLEAN
  /\ ops \in 0 .. MaxOps /\ faults \in 0 .. MaxFaults

Init ==
  /\ head = 1 /\ tree = 0 /\ lastSHA = 0 /\ writer = nobody
  /\ status = [s \in Stacks |-> "pending"]
  /\ revision = [s \in Stacks |-> NoRevision]
  /\ deployed = [s \in Stacks |-> NoRevision]
  /\ secretErr = {} /\ stranded = {}
  /\ pending = [s \in Stacks |-> "none"]
  /\ op = [s \in Stacks |-> Idle]
  /\ wants = [s \in Stacks |-> {"manual"}]
  /\ online = TRUE
  /\ host = [s \in Stacks |-> {}]
  /\ skewed = FALSE
  /\ ops = 0 /\ faults = 0

Fault == faults < MaxFaults /\ faults' = faults + 1
Operator == ops < MaxOps /\ ops' = ops + 1

Synced(s) == deployed[s] # NoRevision

(***************************************************************************)
(* One operation per stack                                                 *)
(***************************************************************************)

At(s, pc) == op[s].pc = pc
HasSlot == Cardinality({s \in Stacks : ~At(s, "idle")}) < MaxSyncs
SetStatus(s, st) == status' = [status EXCEPT ![s] = st]
Begin(s, o) == op' = [op EXCEPT ![s] = o] /\ SetStatus(s, "syncing")
MoveTo(s, pc) == op' = [op EXCEPT ![s].pc = pc]
Return(s, st) == op' = [op EXCEPT ![s] = Idle] /\ SetStatus(s, st)

\* Mutant: the previous status is read after "syncing" was saved.
effectivePrevStatus_AfterSave(s) == "syncing"

\* A "pending" of a stack that was deployed before is the mark of a queued
\* reconcile, not a state to go back to.
effectivePrevStatus(s) ==
  IF status[s] = "pending" /\ Synced(s) THEN "active" ELSE status[s]

\* Mutant: the check for a paused stack is gone.
MayReconcile_IgnoresPause(s, trig) == ~(trig = "cron" /\ s \in secretErr)

MayReconcile(s, trig) ==
  status[s] # "paused" /\ ~(trig = "cron" /\ s \in secretErr)

\* markSecretError: cron leaves the stack alone until somebody acts.
markSecretError(s) == Return(s, "error") /\ secretErr' = secretErr \cup {s}

\* checkSecretBackends: the start of an operation, or its end when a secret
\* backend is not usable.
Start(s, o) ==
  \/ Begin(s, o) /\ UNCHANGED <<secretErr, faults>>
  \/ markSecretError(s) /\ Fault

ReconcileStack(s, trig) ==
  Start(s, Started("fetching", "reconcile", trig, effectivePrevStatus(s), 0))

\* startJobLocked: a tick that finds the stack mutex taken is skipped.
CronTick(s) ==
  /\ At(s, "idle") /\ HasSlot /\ MayReconcile(s, "cron")
  /\ ReconcileStack(s, "cron")
  /\ UNCHANGED <<repo, revision, deployed, pending, wants, online, host,
                 history, ops>>

\* TriggerSync: the goroutine gets its slot; it finds the stack mutex taken or
\* the stack paused and gives up, or it reconciles.
RunTriggered(s) ==
  \E trig \in wants[s] :
    /\ HasSlot
    /\ wants' = [wants EXCEPT ![s] = @ \ {trig}]
    /\ \/ /\ ~At(s, "idle") \/ ~MayReconcile(s, trig)
          /\ UNCHANGED <<op, status, secretErr, faults>>
       \/ /\ At(s, "idle") /\ MayReconcile(s, trig)
          /\ ReconcileStack(s, trig)
    /\ UNCHANGED <<repo, revision, deployed, pending, online, host, history,
                   ops>>

\* The sync button or a webhook.
TriggerSync(s) ==
  /\ Operator
  /\ wants' = [wants EXCEPT ![s] = @ \cup {"manual"}]
  /\ UNCHANGED <<repo, record, pending, op, online, host, history, faults>>

\* Pausing and resuming only write the status, whatever is going on.
TogglePause(s) ==
  /\ Operator
  /\ SetStatus(s, IF status[s] = "paused" THEN "active" ELSE "paused")
  /\ UNCHANGED <<repo, revision, deployed, secretErr, pending, op, wants,
                 online, host, history, faults>>

RollbackStack(s) ==
  \E c \in 1 .. tree :
    /\ At(s, "idle") /\ HasSlot /\ Operator
    /\ Start(s, Started("resetting", "rollback", "none", "none", c))
    /\ UNCHANGED <<repo, revision, deployed, pending, wants, online, host,
                   history>>

\* Force redeploy takes the last known commit and does not fetch.
ForceRedeployStack(s) ==
  /\ At(s, "idle") /\ HasSlot /\ Operator
  /\ Start(s, Started("rendering", "redeploy", "none", "none", lastSHA))
  /\ UNCHANGED <<repo, revision, deployed, pending, wants, online, host,
                 history>>

(***************************************************************************)
(* The repository                                                          *)
(***************************************************************************)

Push ==
  /\ head < MaxCommits
  /\ head' = head + 1
  /\ UNCHANGED <<tree, lastSHA, writer, record, pending, op, wants, online,
                 host, history, ops, faults>>

\* Mutant: an existing clone is fetched and not reset to the remote branch.
LockAndFetch_NoReset(o) ==
  writer = nobody /\ writer' = o /\ tree' = IF tree = 0 THEN head ELSE tree

\* fetchRepo, under the write lock: first the checkout moves, then the record
\* follows.  Those who read either without the lock see the two steps.
LockAndFetch(o) == writer = nobody /\ writer' = o /\ tree' = head
SaveFetched(o) == writer = o /\ lastSHA' = tree /\ writer' = nobody

\* The ticker skips when the lock is taken.
FetchTick ==
  /\ \/ LockAndFetch(ticker) /\ UNCHANGED lastSHA
     \/ SaveFetched(ticker) /\ UNCHANGED tree
  /\ UNCHANGED <<head, record, pending, op, wants, online, host, history, ops,
                 faults>>

Decide(s, sha) ==
  op' = [op EXCEPT ![s] =
           Started("deciding", "reconcile", op[s].trig, op[s].prev, sha)]

\* ensureRepoFetched: a cron reconcile uses what the ticker fetched, any other
\* fetches itself.
NeedsFetch(s) == op[s].trig # "cron" \/ lastSHA = 0

FetchRepo(s) ==
  /\ \/ /\ At(s, "fetching") /\ NeedsFetch(s)
        /\ LockAndFetch(s) /\ MoveTo(s, "saving")
        /\ UNCHANGED lastSHA
     \/ /\ At(s, "saving")
        /\ SaveFetched(s)
        /\ Decide(s, tree)
        /\ UNCHANGED tree
  /\ UNCHANGED <<head, record, pending, wants, online, host, history, ops,
                 faults>>

UseFetched(s) ==
  /\ At(s, "fetching") /\ ~NeedsFetch(s)
  /\ Decide(s, lastSHA)
  /\ UNCHANGED <<repo, record, pending, wants, online, host, history, ops,
                 faults>>

\* The fetch, or the hard reset of a rollback, fails.
FetchFails(s) ==
  /\ (At(s, "fetching") /\ NeedsFetch(s)) \/ At(s, "resetting")
  /\ writer = nobody
  /\ Fault
  /\ Return(s, "error")
  /\ UNCHANGED <<repo, revision, deployed, secretErr, pending, wants, online,
                 host, history, ops>>

\* The hard reset of a rollback.  last_commit_sha keeps naming the commit that
\* was checked out before, until the rollback is recorded.
ResetTree(s) ==
  /\ At(s, "resetting") /\ writer = nobody
  /\ tree' = op[s].rev.commit
  /\ skewed' = TRUE
  /\ MoveTo(s, "rendering")
  /\ UNCHANGED <<head, lastSHA, writer, record, pending, wants, online, host,
                 stranded, ops, faults>>

(***************************************************************************)
(* ReconcileStack: the decision to deploy                                  *)
(***************************************************************************)

RepoChanged(s) == op[s].rev.commit # deployed[s].commit

\* The schedule is refreshed under the read lock before the decision.
Deciding(s) == At(s, "deciding") /\ writer = nobody

\* What the worker says of the running commit: one container's label, or
\* nothing (no container, or no answer).
inspectStackCommit(s) == {r.commit : r \in host[s]} \cup {0}

DecideOffline(s) ==
  /\ Deciding(s) /\ ~online
  /\ \/ /\ RepoChanged(s) \/ op[s].trig # "cron"
        /\ MoveTo(s, "queueing")
        /\ UNCHANGED status
     \/ /\ ~RepoChanged(s) /\ op[s].trig = "cron"
        /\ Return(s, op[s].prev)
  /\ UNCHANGED <<repo, revision, deployed, secretErr, pending, wants, online,
                 host, history, ops, faults>>

\* queuePendingReconcile, then shouldMarkPendingOnQueue: the record in hand
\* says "syncing" by now, never "error", so the mark is always made.
QueuePendingReconcile(s) ==
  /\ At(s, "queueing")
  /\ pending' = [pending EXCEPT ![s] = op[s].trig]
  /\ Return(s, "pending")
  /\ UNCHANGED <<repo, revision, deployed, secretErr, wants, online, host,
                 history, ops, faults>>

DecideOnline(s) ==
  /\ Deciding(s) /\ online
  /\ \E sha \in inspectStackCommit(s) :
       LET upToDate == /\ op[s].trig = "cron" /\ Synced(s) /\ ~RepoChanged(s)
                       /\ sha = op[s].rev.commit
       IN  \/ upToDate /\ Return(s, op[s].prev)
           \/ ~upToDate /\ MoveTo(s, "waiting") /\ UNCHANGED status
  /\ UNCHANGED <<repo, revision, deployed, secretErr, pending, wants, online,
                 host, history, ops, faults>>

\* waitForRunningJobs with policy "timeout".
WaitTimesOut(s) ==
  /\ At(s, "waiting") /\ Fault
  /\ Return(s, "error")
  /\ UNCHANGED <<repo, revision, deployed, secretErr, pending, wants, online,
                 host, history, ops>>

(***************************************************************************)
(* Rendering and deploying                                                 *)
(***************************************************************************)

\* A reconcile renders under the repository's read lock; rollback and force
\* redeploy read the checkout without it.
Rendering(s) == (At(s, "waiting") /\ writer = nobody) \/ At(s, "rendering")

\* Mutant: the commit decided on before the wait for jobs is used.
CommitToRender_NoReload(s) == op[s].rev.commit

\* A reconcile reloads last_commit_sha under the read lock.
CommitToRender(s) ==
  IF op[s].kind = "reconcile" THEN lastSHA ELSE op[s].rev.commit

\* The comparison is with the last revision rendered, deployed or not.
Unchanged(s, sum) ==
  op[s].kind = "reconcile" /\ Synced(s) /\ sum = revision[s].sum

\* GenerateRevision: a reconcile that renders the same checksum again keeps the
\* old file with the commit in its labels; the other two write a new one.
GenerateRevision(s, sum) ==
  revision' = IF op[s].kind = "reconcile" /\ sum = revision[s].sum THEN revision
              ELSE [revision EXCEPT ![s] = [commit |-> CommitToRender(s), sum |-> sum]]

Render(s) ==
  /\ Rendering(s) /\ tree # 0 /\ CommitToRender(s) # 0
  /\ LET sum == Content[s][tree] IN
       /\ GenerateRevision(s, sum)
       /\ \/ Unchanged(s, sum) /\ Return(s, op[s].prev)
          \/ /\ ~Unchanged(s, sum)
             /\ op' = [op EXCEPT ![s].pc = "deploying", ![s].try = 1,
                         ![s].rev = [commit |-> CommitToRender(s), sum |-> sum]]
             /\ UNCHANGED status
  /\ secretErr' = secretErr \ {s}
  /\ UNCHANGED <<repo, deployed, pending, wants, online, host, history, ops,
                 faults>>

\* The secrets cannot be read, or the compose file cannot be rendered (there
\* is nothing to render before the first fetch).
RenderFails(s) ==
  /\ Rendering(s)
  /\ Fault \/ ((tree = 0 \/ CommitToRender(s) = 0) /\ UNCHANGED faults)
  /\ \/ markSecretError(s)
     \/ Return(s, "error") /\ secretErr' = secretErr \ {s}
  /\ UNCHANGED <<repo, revision, deployed, pending, wants, online, host,
                 history, ops>>

\* `docker compose up` of the rendered file reports success.
DeploySucceeds(s) ==
  /\ At(s, "deploying") /\ online
  /\ host' = [host EXCEPT ![s] = {revision[s]}]
  /\ MoveTo(s, IF op[s].kind = "rollback" THEN "persisting" ELSE "recording")
  /\ UNCHANGED <<repo, record, pending, wants, online, history, ops, faults>>

\* An attempt that fails may have recreated no container, some, or all.
AttemptFails(s) ==
  /\ At(s, "deploying")
  /\ Fault \/ (op[s].try > 1 /\ UNCHANGED faults)
  /\ \E running \in {host[s], host[s] \cup {revision[s]}, {revision[s]}} :
       host' = [host EXCEPT ![s] = running]

\* Mutant: one attempt too many.
Retries_OffByOne(s) == op[s].kind = "reconcile" /\ op[s].try <= MaxRetries

Retries(s) == op[s].kind = "reconcile" /\ op[s].try < MaxRetries

RetryDeploy(s) ==
  /\ AttemptFails(s) /\ Retries(s)
  /\ op' = [op EXCEPT ![s].try = @ + 1]
  /\ UNCHANGED <<repo, record, pending, wants, online, history, ops>>

\* Mutant: one container with the commit of this attempt is enough.
Converges_AnyContainer(s, running) ==
  /\ op[s].rev.commit \in {r.commit : r \in running}
  /\ op[s].rev.commit # deployed[s].commit

\* convergeAfterTimeout: the record follows the host only when every container
\* carries the commit of this attempt and the last deploy had another commit.
Converges(s, running) ==
  /\ {r.commit : r \in running} = {op[s].rev.commit}
  /\ op[s].rev.commit # deployed[s].commit

\* The last attempt failed, or the registry's credentials were not readable
\* and nothing was sent.
DeployFails(s) ==
  /\ AttemptFails(s)
  /\ ~Retries(s) \/ host' = host
  /\ \/ /\ op[s].kind = "reconcile" /\ ~Retries(s) /\ Converges(s, host'[s])
        /\ deployed' = [deployed EXCEPT ![s] = op[s].rev]
        /\ \E v \in Verdicts : Return(s, v)
     \/ Return(s, "error") /\ UNCHANGED deployed
  /\ UNCHANGED <<repo, revision, secretErr, pending, wants, online, history,
                 ops>>

\* The context of the reconcile ends while it waits for jobs or for the next
\* attempt: it returns and leaves the status as it is.
CutOff(s) ==
  /\ op[s].kind = "reconcile"
  /\ At(s, "waiting") \/ (At(s, "deploying") /\ op[s].try > 1)
  /\ Fault
  /\ op' = [op EXCEPT ![s] = Idle]
  /\ stranded' = stranded \cup {s}
  /\ UNCHANGED <<repo, record, pending, wants, online, host, skewed, ops>>

\* resolvePostDeployStatus.
PostDeployStatus(verdict, pauseAfter) ==
  IF verdict = "active" /\ pauseAfter THEN "paused" ELSE verdict

\* A rollback first moves last_commit_sha back.
PersistRollback(s) ==
  /\ At(s, "persisting")
  /\ lastSHA' = op[s].rev.commit
  /\ MoveTo(s, "recording")
  /\ UNCHANGED <<head, tree, writer, record, pending, wants, online, host,
                 history, ops, faults>>

\* The post-check and the record of the success.
RecordSuccess(s) ==
  /\ At(s, "recording")
  /\ \E verdict \in Verdicts, pauseAfter \in BOOLEAN :
       /\ op[s].kind = "rollback" => pauseAfter
       /\ op[s].kind = "reconcile" => ~pauseAfter
       /\ Return(s, PostDeployStatus(verdict, pauseAfter))
  /\ deployed' = [deployed EXCEPT ![s] = op[s].rev]
  /\ UNCHANGED <<repo, revision, secretErr, pending, wants, online, host,
                 history, ops, faults>>

(***************************************************************************)
(* The worker and the server's restart                                     *)
(***************************************************************************)

\* onConnect: TriggerPendingReconciles deletes the rows and triggers them.
WorkerConnects ==
  /\ ~online /\ online' = TRUE
  /\ wants' = [s \in Stacks |-> wants[s] \cup ({pending[s]} \ {"none"})]
  /\ pending' = [s \in Stacks |-> "none"]
  /\ UNCHANGED <<repo, record, op, host, history, ops, faults>>

WorkerDisconnects ==
  /\ online /\ Fault
  /\ online' = FALSE
  /\ UNCHANGED <<repo, record, pending, op, wants, host, history, ops>>

\* The process dies; RecoverOrphanState at the next start.  A deploy the worker
\* was executing may still finish there.
Restart ==
  /\ Fault
  /\ \E finished \in SUBSET {s \in Stacks : At(s, "deploying")} :
       host' = [s \in Stacks |-> IF s \in finished THEN {revision[s]} ELSE host[s]]
  /\ op' = [s \in Stacks |-> Idle]
  /\ wants' = [s \in Stacks |-> {}]
  /\ writer' = nobody
  /\ skewed' = (skewed \/ writer # nobody)
  /\ online' = FALSE
  /\ status' = [s \in Stacks |-> IF status[s] = "syncing" THEN "error" ELSE status[s]]
  /\ UNCHANGED <<head, tree, lastSHA, revision, deployed, secretErr, pending,
                 stranded, ops>>

Operate(s) ==
  TriggerSync(s) \/ TogglePause(s) \/ RollbackStack(s) \/ ForceRedeployStack(s)

Advance(s) ==
  \/ RunTriggered(s) \/ FetchRepo(s) \/ UseFetched(s) \/ ResetTree(s)
  \/ DecideOffline(s) \/ QueuePendingReconcile(s) \/ DecideOnline(s)
  \/ Render(s) \/ DeploySucceeds(s) \/ PersistRollback(s) \/ RecordSuccess(s)

Fail(s) ==
  \/ FetchFails(s) \/ WaitTimesOut(s) \/ RenderFails(s) \/ RetryDeploy(s)
  \/ DeployFails(s) \/ CutOff(s)

Next ==
  \/ Push \/ FetchTick \/ WorkerConnects \/ WorkerDisconnects \/ Restart
  \/ \E s \in Stacks : CronTick(s) \/ Operate(s) \/ Advance(s) \/ Fail(s)

Spec == Init /\ [][Next]_vars

\* The tickers fire, and a worker that is away comes back.  An operation
\* proceeds, also when it competes with the ticker for the repository's lock:
\* a sync.RWMutex does not starve those who wait for it.
Fairness ==
  /\ WF_vars(FetchTick) /\ WF_vars(WorkerConnects)
  /\ \A s \in Stacks : WF_vars(CronTick(s)) /\ SF_vars(Advance(s) \/ Fail(s))

FairSpec == Spec /\ Fairness

(***************************************************************************)
(* Properties                                                              *)
(***************************************************************************)

\* What a reconcile renders is the compose file of the commit it will record:
\* the reload of last_commit_sha under the read lock, against fetches by the
\* ticker and by other stacks.  It holds until a rollback of any stack of the
\* repository, or a crash inside a fetch, moves the checkout and not
\* last_commit_sha.
RenderedIsRecorded ==
  \A s \in Stacks :
    op[s].kind = "reconcile" /\ At(s, "deploying") /\ ~skewed =>
      op[s].rev.sum = Content[s][op[s].rev.commit]

\* "syncing" is shown only while an operation works on the stack: every early
\* return and the recovery at boot leave another status.  The exception is a
\* reconcile whose context ended while it waited (stranded).
SyncingIsWorkedOn ==
  \A s \in Stacks : status[s] = "syncing" => ~At(s, "idle") \/ s \in stranded

\* Whenever the record of what is deployed moves, by a success or by the
\* convergence after a timeout, all containers of the stack run what it names,
\* whatever earlier attempts left behind on the host.  The convergence reads
\* commit labels only, so it rests on RenderedIsRecorded and has its exception.
RecordFollowsHost ==
  [][\A s \in Stacks : deployed'[s] # deployed[s] /\ ~skewed =>
       {r.sum : r \in host'[s]} = {deployed'[s].sum}]_vars

\* A stack that rests on "paused", after a rollback for instance, keeps its
\* containers and its status until an operator asks for something.
PausedRests ==
  [][\A s \in Stacks : status[s] = "paused" /\ At(s, "idle") /\ ops' = ops =>
       status'[s] = "paused" /\ host'[s] = host[s]]_vars

\* A commit that stays at the head of the branch is rendered for every stack,
\* through failed fetches, an absent worker, skipped ticks, operators' requests
\* and restarts, unless the stack is paused, waits for a secret, or a rollback
\* has reset the checkout.
ChangeIsRendered ==
  \A s \in Stacks, c \in Commits :
    head = c ~> \/ head # c \/ revision[s].sum = Content[s][c]
                \/ status[s] = "paused" \/ s \in secretErr \/ skewed

\* deploy_timeout.go:68-71: "a stale deployed_checksum makes the next
\* reconcile redeploy and converge properly"; a reconcile that ends with
\* nothing to deploy finds the checksum it rendered among what is deployed.
SkipMeansDeployed ==
  [][\A s \in Stacks : Rendering(s) /\ Unchanged(s, Content[s][tree]) /\ Render(s) =>
       deployed[s].sum = revision'[s].sum]_vars
=============================================================================
