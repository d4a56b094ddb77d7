---------------------------- MODULE StackProofs -----------------------------
(***************************************************************************)
(* The types of StackSync, and what it promises about the status, the      *)
(* pause, the commit that is rendered and the record of what is deployed,  *)
(* for any number of stacks on the repository, any contents of their       *)
(* compose files and any bounds. Then the live log of a stack's            *)
(* reconciles: what its readers are told, for any number of reconciles and *)
(* lines.                                                                  *)
(***************************************************************************)
EXTENDS StackSync, LogStream, TLAPS

(***************************************************************************)
(* The types, and the order in which an operation passes its positions.    *)
(***************************************************************************)

\* What the position of an operation says of it: only a reconcile fetches,
\* decides and waits, only the other two render without the read lock, only a
\* rollback moves last_commit_sha back, a reconcile remembers a status to go
\* back to, and what is deployed was rendered from a commit of the branch.
InOrder(o, h) ==
  /\ o.pc \in {"fetching", "saving", "deciding", "queueing", "waiting"} =>
       o.kind = "reconcile"
  /\ o.pc \in {"resetting", "rendering"} => o.kind \in {"rollback", "redeploy"}
  /\ o.pc = "persisting" => o.kind = "rollback"
  /\ o.kind = "reconcile" => o.prev \in Statuses
  /\ o.rev.commit <= h
  /\ o.pc \in {"deploying", "persisting", "recording"} => o.rev \in Revisions

OpsInOrder ==
  op \in [Stacks -> Operations] /\ \A s \in Stacks : InOrder(op[s], head)

\* From the render to the record, the file that is deployed is the one whose
\* checksum the operation will record.
Deployed == {"deploying", "persisting", "recording"}

Rendered ==
  \A s \in Stacks : op[s].pc \in Deployed =>
    revision[s] \in Revisions /\ revision[s].sum = op[s].rev.sum

TypeInv == TypeOK /\ OpsInOrder /\ Rendered

\* An operation that moves to a record in order leaves all in order.
LEMMA OpUpdate ==
  ASSUME OpsInOrder, NEW s \in Stacks, NEW o \in Operations, InOrder(o, head),
         op' = [op EXCEPT ![s] = o], head' = head
  PROVE  OpsInOrder'
BY Zenon DEF OpsInOrder

\* An operation that starts or comes to its decision is in order.
LEMMA OpStarted ==
  ASSUME TypeInv, NEW c \in 0 .. head,
         NEW trig \in Triggers \cup {"none"}, NEW prev \in Statuses \cup {"none"},
         NEW kind \in {"none", "reconcile", "rollback", "redeploy"},
         NEW pc \in {"idle", "fetching", "deciding", "resetting", "rendering"},
         pc \in {"fetching", "deciding"} => kind = "reconcile",
         pc \in {"resetting", "rendering"} => kind \in {"rollback", "redeploy"},
         kind = "reconcile" => prev \in Statuses
  PROVE  /\ Started(pc, kind, trig, prev, c) \in Operations
         /\ InOrder(Started(pc, kind, trig, prev, c), head)
<1>1. head \in Nat /\ head <= MaxCommits
  BY BoundsAssumption DEF TypeInv, TypeOK, Commits
<1>2. Started(pc, kind, trig, prev, c) \in Operations
  BY <1>1, BoundsAssumption DEF Started, Operations
<1>3. InOrder(Started(pc, kind, trig, prev, c), head)
  BY <1>1 DEF Started, InOrder
<1> QED
  BY <1>2, <1>3, Zenon

\* An operation that returns leaves all in order.
LEMMA OpReturn ==
  ASSUME TypeInv, NEW s \in Stacks, op' = [op EXCEPT ![s] = Idle], head' = head
  PROVE  OpsInOrder'
<1>1. 0 \in 0 .. head
  BY BoundsAssumption DEF TypeInv, TypeOK, Commits
<1>2. Idle \in Operations /\ InOrder(Idle, head)
  BY <1>1, OpStarted, Zenon DEF Idle
<1> QED
  BY <1>2, OpUpdate, Zenon DEF TypeInv

\* An operation that only moves on leaves all in order, if its new position is
\* one for it.
LEMMA OpMove ==
  ASSUME TypeInv, NEW s \in Stacks, head' = head,
         NEW pc \in {"deciding", "saving", "queueing", "waiting", "rendering",
                     "persisting", "recording"},
         MoveTo(s, pc),
         InOrder([op[s] EXCEPT !.pc = pc], head)
  PROVE  OpsInOrder'
<1>1. op[s] \in Operations
  BY Zenon DEF TypeInv, OpsInOrder
<1>2. [op[s] EXCEPT !.pc = pc] \in Operations
  BY <1>1, Zenon DEF Operations
<1> QED
  BY <1>2, OpUpdate, Zenon DEF MoveTo, TypeInv

\* Every step takes an operation from one of its positions to the next.
LEMMA OpsStep == TypeInv /\ [Next]_vars => OpsInOrder'
<1> SUFFICES ASSUME TypeInv, [Next]_vars PROVE OpsInOrder'
  BY Zenon
<1>0. ASSUME NEW s \in Stacks
      PROVE  op[s] \in Operations /\ InOrder(op[s], head)
  BY Zenon DEF TypeInv, OpsInOrder
<1>a. head \in Nat /\ head <= MaxCommits /\ lastSHA \in 0 .. head /\ tree \in 0 .. head
  BY BoundsAssumption DEF TypeInv, TypeOK, Commits
<1>b. ASSUME NEW s \in Stacks, NEW o \in Operations, InOrder(o, head), Start(s, o),
             head' = head
      PROVE  OpsInOrder'
  BY <1>b, OpUpdate, OpReturn, Zenon DEF Start, Begin, markSecretError, Return, TypeInv
<1>1. ASSUME NEW s \in Stacks, NEW trig \in Triggers, ReconcileStack(s, trig),
             head' = head
      PROVE  OpsInOrder'
  <2>1. effectivePrevStatus(s) \in Statuses
    BY Zenon DEF effectivePrevStatus, TypeInv, TypeOK, Statuses, Verdicts
  <2> DEFINE o == Started("fetching", "reconcile", trig, effectivePrevStatus(s), 0)
  <2>2. o \in Operations /\ InOrder(o, head)
    BY <1>a, <2>1, OpStarted
  <2> QED
    BY <1>1, <1>b, <2>2, Zenon DEF ReconcileStack
<1>2. ASSUME NEW s \in Stacks, CronTick(s) \/ RunTriggered(s) PROVE OpsInOrder'
  <2>1. CASE CronTick(s)
    BY <2>1, <1>1, Zenon DEF CronTick, repo, Triggers
  <2>2. CASE RunTriggered(s)
    <3>1. PICK trig \in wants[s] :
            \/ ReconcileStack(s, trig) /\ head' = head
            \/ UNCHANGED <<op, head>>
      BY <2>2, Zenon DEF RunTriggered, repo
    <3>2. trig \in Triggers
      BY Zenon DEF TypeInv, TypeOK
    <3> QED
      BY <3>1, <3>2, <1>1, Zenon DEF TypeInv, OpsInOrder
  <2> QED
    BY <1>2, <2>1, <2>2, Zenon
<1>3. ASSUME NEW s \in Stacks, Operate(s) PROVE OpsInOrder'
  <2>1. CASE TriggerSync(s) \/ TogglePause(s)
    BY <2>1, Zenon DEF TriggerSync, TogglePause, repo, TypeInv, OpsInOrder
  <2>2. CASE RollbackStack(s)
    <3>1. PICK c \in 1 .. tree :
            Start(s, Started("resetting", "rollback", "none", "none", c))
      BY <2>2, Zenon DEF RollbackStack
    <3> DEFINE o == Started("resetting", "rollback", "none", "none", c)
    <3>2. o \in Operations /\ InOrder(o, head)
      BY <1>a, OpStarted
    <3>3. head' = head
      BY <2>2, Zenon DEF RollbackStack, repo
    <3> QED
      BY <1>b, <3>1, <3>2, <3>3, Zenon
  <2>3. CASE ForceRedeployStack(s)
    <3> DEFINE o == Started("rendering", "redeploy", "none", "none", lastSHA)
    <3>1. o \in Operations /\ InOrder(o, head)
      BY <1>a, OpStarted, Zenon
    <3>2. Start(s, o) /\ head' = head
      BY <2>3, Zenon DEF ForceRedeployStack, repo
    <3> QED
      BY <1>b, <3>1, <3>2, Zenon
  <2> QED
    BY <1>3, <2>1, <2>2, <2>3, Zenon DEF Operate
<1>4. ASSUME NEW s \in Stacks, NEW c \in 0 .. head,
             op[s].pc \in {"fetching", "saving"}, head' = head, Decide(s, c)
      PROVE  OpsInOrder'
  <2> DEFINE o == Started("deciding", "reconcile", op[s].trig, op[s].prev, c)
  <2>1. op[s].trig \in Triggers \cup {"none"} /\ op[s].prev \in Statuses
    BY <1>0, <1>4, Zenon DEF Operations, InOrder
  <2>2. o \in Operations /\ InOrder(o, head)
    BY <2>1, OpStarted, Zenon
  <2> QED
    BY <1>4, <2>2, OpUpdate, Zenon DEF Decide, TypeInv
<1>5. ASSUME NEW s \in Stacks, FetchRepo(s) \/ UseFetched(s) \/ ResetTree(s)
      PROVE  OpsInOrder'
  <2>1. CASE At(s, "fetching") /\ MoveTo(s, "saving") /\ head' = head
    BY <2>1, <1>0, OpMove, Zenon DEF At, InOrder, Operations
  <2>2. CASE UseFetched(s)
    BY <2>2, <1>4, <1>a, Zenon DEF UseFetched, At, repo
  <2>3. CASE ResetTree(s)
    BY <2>3, <1>0, OpMove, Zenon DEF ResetTree, At, InOrder, Operations
  <2>4. CASE At(s, "saving") /\ head' = head /\ Decide(s, tree)
    BY <2>4, <1>4, <1>a, Zenon DEF At
  <2> QED
    BY <1>5, <2>1, <2>2, <2>3, <2>4, Zenon DEF FetchRepo
<1>6. ASSUME NEW s \in Stacks,
             DecideOffline(s) \/ QueuePendingReconcile(s) \/ DecideOnline(s)
      PROVE  OpsInOrder'
  <2>1. \/ op' = [op EXCEPT ![s] = Idle]
        \/ At(s, "deciding") /\ \E pc \in {"queueing", "waiting"} : MoveTo(s, pc)
    BY <1>6, Zenon DEF DecideOffline, DecideOnline, QueuePendingReconcile, Deciding, Return
  <2>2. head' = head
    BY <1>6, Zenon DEF DecideOffline, DecideOnline, QueuePendingReconcile, repo
  <2>3. ASSUME At(s, "deciding"), NEW pc \in {"queueing", "waiting"}
        PROVE  InOrder([op[s] EXCEPT !.pc = pc], head)
    BY <2>3, <1>0, Zenon DEF At, InOrder, Operations
  <2> QED
    BY <2>1, <2>2, <2>3, OpReturn, OpMove, Zenon
<1>7. ASSUME NEW s \in Stacks, Render(s) PROVE OpsInOrder'
  <2>1. CASE op' = [op EXCEPT ![s] = Idle] /\ head' = head
    BY <2>1, OpReturn, Zenon
  <2>2. CASE op' # [op EXCEPT ![s] = Idle]
    <3> DEFINE rev == [commit |-> CommitToRender(s), sum |-> Content[s][tree]]
               o == [op[s] EXCEPT !.pc = "deploying", !.try = 1, !.rev = rev]
    <3>1. tree # 0 /\ CommitToRender(s) # 0
      BY <1>7, Zenon DEF Render
    <3>2. CommitToRender(s) \in 1 .. head
      BY <1>0, <1>a, <3>1 DEF CommitToRender, Operations, InOrder
    <3>3. Content[s][tree] \in Sums
      BY <1>a, <3>1, ContentAssumption, BoundsAssumption DEF Commits
    <3>4. rev \in Revisions
      BY <1>a, <3>2, <3>3, BoundsAssumption DEF Revisions, Commits
    <3>5. op' = [op EXCEPT ![s] = o] /\ head' = head
      BY <1>7, <2>2, Zenon DEF Render, Return, repo
    <3>6. o \in Operations
      <4>1. rev \in [commit : 0 .. MaxCommits, sum : Sums \cup {NoSum}]
        BY <3>4, BoundsAssumption DEF Revisions, Commits
      <4>2. 1 \in 0 .. MaxRetries
        BY BoundsAssumption
      <4> HIDE DEF rev
      <4> QED
        BY <1>0, <4>1, <4>2, ZenonT(40) DEF Operations
    <3>7. InOrder(o, head)
      BY <1>0, <1>a, <3>2, <3>4 DEF InOrder, Operations
    <3> QED
      BY <3>5, <3>6, <3>7, OpUpdate, Zenon DEF TypeInv
  <2> QED
    BY <1>7, <2>1, <2>2, Zenon DEF Render, repo
<1>8. ASSUME NEW s \in Stacks, DeploySucceeds(s) \/ PersistRollback(s)
      PROVE  OpsInOrder'
  <2>1. /\ head' = head
        /\ \E pc \in {"persisting", "recording"} :
             MoveTo(s, pc) /\ (pc = "persisting" => op[s].kind = "rollback")
    BY <1>8, Zenon DEF DeploySucceeds, PersistRollback, repo
  <2>2. op[s].pc \in {"deploying", "persisting"}
    BY <1>8, Zenon DEF DeploySucceeds, PersistRollback, At
  <2>3. ASSUME NEW pc \in {"persisting", "recording"},
               pc = "persisting" => op[s].kind = "rollback"
        PROVE  InOrder([op[s] EXCEPT !.pc = pc], head)
    BY <1>0, <2>2, <2>3, Zenon DEF InOrder, Operations
  <2> QED
    BY <2>1, <2>3, OpMove, Zenon
<1>9. ASSUME NEW s \in Stacks, RetryDeploy(s) PROVE OpsInOrder'
  <2> DEFINE o == [op[s] EXCEPT !.try = @ + 1]
  <2>1. o \in Operations
    BY <1>0, <1>9, BoundsAssumption DEF RetryDeploy, Retries, Operations
  <2>2. InOrder(o, head)
    BY <1>0, Zenon DEF InOrder, Operations
  <2>3. op' = [op EXCEPT ![s] = o] /\ head' = head
    BY <1>9, Zenon DEF RetryDeploy, repo
  <2> QED
    BY <2>1, <2>2, <2>3, OpUpdate, Zenon DEF TypeInv
<1>10. ASSUME NEW s \in Stacks,
              RecordSuccess(s) \/ FetchFails(s) \/ WaitTimesOut(s)
                \/ RenderFails(s) \/ DeployFails(s) \/ CutOff(s)
       PROVE  OpsInOrder'
  <2>1. op' = [op EXCEPT ![s] = Idle] /\ head' = head
    BY <1>10, Zenon DEF RecordSuccess, FetchFails, WaitTimesOut, RenderFails, DeployFails,
                 CutOff, markSecretError, Return, repo
  <2> QED
    BY <2>1, OpReturn, Zenon
<1>11. CASE Push
  <2>1. head' = head + 1 /\ op' = op
    BY <1>11, Zenon DEF Push
  <2>2. ASSUME NEW s \in Stacks PROVE InOrder(op[s], head + 1)
    BY <1>0, <1>a DEF InOrder, Operations
  <2> QED
    BY <2>1, <2>2, Zenon DEF TypeInv, OpsInOrder
<1>12. CASE Restart
  <2>1. Idle \in Operations /\ InOrder(Idle, head)
    BY <1>a, OpStarted DEF Idle
  <2> QED
    BY <1>12, <2>1, Zenon DEF Restart, OpsInOrder
<1>13. CASE FetchTick \/ WorkerConnects \/ WorkerDisconnects \/ UNCHANGED vars
  BY <1>13, SMTT(30) DEF FetchTick, WorkerConnects, WorkerDisconnects, vars, repo, TypeInv,
               OpsInOrder
<1> QED
  BY <1>2, <1>3, <1>5, <1>6, <1>7, <1>8, <1>9, <1>10, <1>11, <1>12, <1>13, Zenon
     DEF Next, Advance, Fail

\* The other tables keep their types too.
LEMMA TablesStep == TypeInv /\ [Next]_vars => TypeOK'
<1> SUFFICES ASSUME TypeInv, [Next]_vars PROVE TypeOK'
  BY Zenon
<1>0. op' \in [Stacks -> Operations]
  BY OpsStep, Zenon DEF OpsInOrder
<1>a. ASSUME NEW s \in Stacks
      PROVE  op[s] \in Operations /\ InOrder(op[s], head)
  BY Zenon DEF TypeInv, OpsInOrder
<1>b. TypeOK
  BY Zenon DEF TypeInv
<1> USE <1>0, <1>b, BoundsAssumption
    DEF TypeOK, repo, record, history, SetStatus, Begin, MoveTo, Return, Fault,
        Operator, Statuses, Verdicts
<1>1. ASSUME NEW s \in Stacks, CronTick(s) \/ RunTriggered(s) PROVE TypeOK'
  BY <1>1 DEF CronTick, RunTriggered, ReconcileStack, Start, markSecretError
<1>2. ASSUME NEW s \in Stacks, Operate(s) PROVE TypeOK'
  BY <1>2 DEF Operate, TriggerSync, TogglePause, RollbackStack, ForceRedeployStack,
              Triggers, Start, markSecretError
<1>3. ASSUME NEW s \in Stacks, FetchRepo(s) \/ UseFetched(s) \/ ResetTree(s)
      PROVE  TypeOK'
  <2>1. op[s].rev.commit \in 0 .. head
    BY <1>a DEF Operations, InOrder, Commits
  <2>2. CASE FetchRepo(s) \/ UseFetched(s)
    BY <2>2 DEF FetchRepo, UseFetched, LockAndFetch, SaveFetched, Commits
  <2>3. CASE ResetTree(s)
    BY <2>1, <2>3, Zenon DEF ResetTree
  <2> QED
    BY <1>3, <2>2, <2>3, Zenon
<1>4. ASSUME NEW s \in Stacks,
             DecideOffline(s) \/ QueuePendingReconcile(s) \/ DecideOnline(s)
      PROVE  TypeOK'
  <2>1. op[s].trig \in Triggers \cup {"none"}
    BY <1>a, Zenon DEF Operations
  <2>2. op[s].pc = "deciding" => op[s].prev \in Statuses
    BY <1>a, Zenon DEF InOrder
  <2>3. CASE QueuePendingReconcile(s)
    BY <2>1, <2>3, Zenon DEF QueuePendingReconcile
  <2>4. CASE DecideOffline(s) \/ DecideOnline(s)
    BY <2>2, <2>4, Zenon DEF DecideOffline, DecideOnline, Deciding, At
  <2> QED
    BY <1>4, <2>3, <2>4, Zenon
<1>5. ASSUME NEW s \in Stacks, Render(s) PROVE TypeOK'
  <2>0. tree \in Commits
    BY <1>5 DEF Render, Commits
  <2>1. Content[s][tree] \in Sums
    BY <2>0, ContentAssumption
  <2>2. op[s].kind = "reconcile" => op[s].prev \in Statuses
    BY <1>a, Zenon DEF InOrder
  <2>3. CommitToRender(s) \in Commits
    BY <1>5, <1>a DEF Render, CommitToRender, Commits, Operations
  <2>4. revision' \in [Stacks -> Revisions \cup {NoRevision}]
    BY <1>5, <2>1, <2>3, Zenon DEF Render, GenerateRevision, Revisions
  <2> QED
    BY <1>5, <2>2, <2>4, Zenon DEF Render, Unchanged
<1>6. ASSUME NEW s \in Stacks,
             DeploySucceeds(s) \/ PersistRollback(s) \/ RecordSuccess(s)
      PROVE  TypeOK'
  <2>1. /\ op[s].rev \in Revisions /\ op[s].rev.commit \in 0 .. head
        /\ op[s].pc = "deploying" => revision[s] \in Revisions
    BY <1>6, <1>a DEF DeploySucceeds, PersistRollback, RecordSuccess, At, InOrder,
                      Revisions, Commits, TypeInv, Rendered, Deployed
  <2> QED
    BY <1>6, <2>1 DEF DeploySucceeds, PersistRollback, RecordSuccess, PostDeployStatus,
                      At
<1>7. ASSUME NEW s \in Stacks, Fail(s) PROVE TypeOK'
  <2>1. CASE FetchFails(s) \/ WaitTimesOut(s) \/ RenderFails(s) \/ CutOff(s)
    BY <2>1 DEF FetchFails, WaitTimesOut, RenderFails, CutOff, markSecretError
  <2>2. CASE RetryDeploy(s) \/ DeployFails(s)
    <3>1. op[s].rev \in Revisions /\ revision[s] \in Revisions
      BY <2>2, <1>a, Zenon DEF RetryDeploy, DeployFails, AttemptFails, At, InOrder, TypeInv,
                        Rendered, Deployed
    <3> QED
      BY <2>2, <3>1 DEF RetryDeploy, DeployFails, AttemptFails
  <2> QED
    BY <1>7, <2>1, <2>2, Zenon DEF Fail
<1>8. CASE Push \/ FetchTick
  BY <1>8 DEF Push, FetchTick, LockAndFetch, SaveFetched, Commits
<1>9. CASE WorkerConnects \/ WorkerDisconnects
  <2>1. CASE WorkerConnects
    <3>1. \A s \in Stacks : wants[s] \cup ({pending[s]} \ {"none"}) \subseteq Triggers
      BY Zenon
    <3>2. wants' \in [Stacks -> SUBSET Triggers]
      BY <2>1, <3>1, Zenon DEF WorkerConnects
    <3>3. pending' \in [Stacks -> Triggers \cup {"none"}]
      BY <2>1, Zenon DEF WorkerConnects
    <3>4. /\ UNCHANGED <<repo, record, op, host, history, ops, faults>>
          /\ online' \in BOOLEAN
      BY <2>1, Zenon DEF WorkerConnects
    <3> QED
      BY <3>2, <3>3, <3>4, Zenon
  <2>2. CASE WorkerDisconnects
    <3>1. online' \in BOOLEAN
      BY <2>2, Zenon DEF WorkerDisconnects
    <3>2. /\ UNCHANGED <<repo, record, pending, op, wants, host, history, ops>>
          /\ faults' \in 0 .. MaxFaults
      BY <2>2 DEF WorkerDisconnects
    <3> QED
      BY <3>1, <3>2, Zenon
  <2> QED
    BY <1>9, <2>1, <2>2, Zenon
<1>10. CASE Restart
  <2>1. ASSUME NEW s \in Stacks, At(s, "deploying") PROVE revision[s] \in Revisions
    BY <2>1, Zenon DEF At, TypeInv, Rendered, Deployed
  <2>2. host' \in [Stacks -> SUBSET Revisions]
    <3>1. PICK finished \in SUBSET {s \in Stacks : At(s, "deploying")} :
            host' = [s \in Stacks |-> IF s \in finished THEN {revision[s]} ELSE host[s]]
      BY <1>10, ZenonT(40) DEF Restart
    <3>2. \A s \in finished : {revision[s]} \in SUBSET Revisions
      BY <2>1, Zenon
    <3>3. \A s \in Stacks : host[s] \in SUBSET Revisions
      BY Zenon
    <3> QED
      BY <3>1, <3>2, <3>3, Zenon
  <2>3. status' \in [Stacks -> Statuses] /\ wants' \in [Stacks -> SUBSET Triggers]
    BY <1>10, Zenon DEF Restart
  <2>4. /\ UNCHANGED <<head, tree, lastSHA, revision, deployed, secretErr, pending,
                       stranded, ops>>
        /\ writer' = nobody /\ faults' \in 0 .. MaxFaults
    BY <1>10 DEF Restart
  <2>5. skewed' \in BOOLEAN /\ online' \in BOOLEAN
    BY <1>10, Zenon DEF Restart
  <2> QED
    BY <2>2, <2>3, <2>4, <2>5, Zenon
<1>11. CASE UNCHANGED vars
  BY <1>11, Zenon DEF vars
<1> QED
  BY <1>1, <1>2, <1>3, <1>4, <1>5, <1>6, <1>7, <1>8, <1>9, <1>10, <1>11, Zenon
     DEF Next, Advance

\* A step that renders nothing keeps the file and the checksum together.
LEMMA RenderedUpdate ==
  ASSUME TypeInv, NEW s \in Stacks, NEW o,
         op' = [op EXCEPT ![s] = o], revision' = revision,
         o.pc \in Deployed => op[s].pc \in Deployed /\ o.rev = op[s].rev
  PROVE  Rendered'
BY Zenon DEF TypeInv, OpsInOrder, Rendered

\* A step that may start an operation, or take it to its decision, does nothing
\* else to the table of operations.
LEMMA Starting ==
  ASSUME NEW s \in Stacks,
         CronTick(s) \/ RunTriggered(s) \/ Operate(s) \/ UseFetched(s)
  PROVE  op' = op \/ \E o : op' = [op EXCEPT ![s] = o] /\ o.pc \notin Deployed
<1> DEFINE Goal == op' = op \/ \E o : op' = [op EXCEPT ![s] = o] /\ o.pc \notin Deployed
<1>1. ASSUME NEW pc \in {"idle", "fetching", "deciding", "resetting", "rendering"},
             NEW kind, NEW trig, NEW prev, NEW c
      PROVE  Started(pc, kind, trig, prev, c).pc \notin Deployed
  BY Zenon DEF Started, Deployed
<1>2. Idle.pc \notin Deployed
  BY Zenon DEF Idle, Started, Deployed
<1>3. ASSUME NEW o, o.pc \notin Deployed, Start(s, o) PROVE Goal
  BY <1>2, <1>3, Zenon DEF Start, Begin, markSecretError, Return
<1>4. ASSUME NEW trig, ReconcileStack(s, trig) PROVE Goal
  BY <1>1, <1>3, <1>4, Zenon DEF ReconcileStack
<1>5. CASE CronTick(s)
  BY <1>4, <1>5, Zenon DEF CronTick
<1>6. CASE RunTriggered(s)
  BY <1>4, <1>6, Zenon DEF RunTriggered
<1>7. CASE TriggerSync(s) \/ TogglePause(s)
  BY <1>7, Zenon DEF TriggerSync, TogglePause
<1>8. CASE RollbackStack(s)
  BY <1>1, <1>3, <1>8, Zenon DEF RollbackStack
<1>9. CASE ForceRedeployStack(s)
  BY <1>1, <1>3, <1>9, Zenon DEF ForceRedeployStack
<1>10. CASE UseFetched(s)
  BY <1>1, <1>10, Zenon DEF UseFetched, Decide
<1> QED
  BY <1>5, <1>6, <1>7, <1>8, <1>9, <1>10, Zenon DEF Operate

\* Every step keeps them together.
LEMMA RenderedStep == TypeInv /\ [Next]_vars => Rendered'
<1> SUFFICES ASSUME TypeInv, [Next]_vars PROVE Rendered'
  BY Zenon
<1>0. ASSUME NEW s \in Stacks PROVE op[s] \in Operations
  BY Zenon DEF TypeInv, OpsInOrder
<1>1. Idle.pc \notin Deployed
  BY Zenon DEF Idle, Started, Deployed
<1>2. ASSUME NEW trig, NEW prev, NEW c
      PROVE  Started("deciding", "reconcile", trig, prev, c).pc \notin Deployed
  BY Zenon DEF Started, Deployed
<1>3. ASSUME NEW s \in Stacks,
             CronTick(s) \/ RunTriggered(s) \/ Operate(s) \/ UseFetched(s)
      PROVE  Rendered'
  <2>1. revision' = revision
    BY <1>3, Zenon DEF CronTick, RunTriggered, Operate, TriggerSync, TogglePause,
                RollbackStack, ForceRedeployStack, UseFetched, record
  <2>2. op' = op \/ \E o : op' = [op EXCEPT ![s] = o] /\ o.pc \notin Deployed
    BY <1>3, Starting, Zenon
  <2>3. CASE op' = op
    BY <2>1, <2>3, Zenon DEF TypeInv, Rendered
  <2> QED
    BY <2>1, <2>2, <2>3, RenderedUpdate, ZenonT(40)
<1>4. ASSUME NEW s \in Stacks, NEW pc, MoveTo(s, pc), revision' = revision,
             pc \in Deployed => op[s].pc \in Deployed
      PROVE  Rendered'
  <2> DEFINE o == [op[s] EXCEPT !.pc = pc]
  <2>1. o.pc = pc /\ o.rev = op[s].rev
    BY <1>0, Zenon DEF Operations
  <2> QED
    BY <1>4, <2>1, RenderedUpdate, Zenon DEF MoveTo
<1>5. ASSUME NEW s \in Stacks, FetchRepo(s) \/ ResetTree(s) PROVE Rendered'
  <2>1. revision' = revision
    BY <1>5, Zenon DEF FetchRepo, ResetTree, record
  <2>2. \/ \E pc \in {"saving", "rendering"} : MoveTo(s, pc)
        \/ op' = [op EXCEPT ![s] =
                    Started("deciding", "reconcile", op[s].trig, op[s].prev, tree)]
    BY <1>5, Zenon DEF FetchRepo, ResetTree, Decide
  <2>3. "saving" \notin Deployed /\ "rendering" \notin Deployed
    BY Zenon DEF Deployed
  <2> QED
    BY <1>2, <1>4, <2>1, <2>2, <2>3, RenderedUpdate, Zenon
<1>6. ASSUME NEW s \in Stacks,
             DecideOffline(s) \/ QueuePendingReconcile(s) \/ DecideOnline(s)
               \/ DeploySucceeds(s) \/ PersistRollback(s)
      PROVE  Rendered'
  <2>1. revision' = revision
    BY <1>6, Zenon DEF DecideOffline, QueuePendingReconcile, DecideOnline, DeploySucceeds,
                PersistRollback, record
  <2>2. \/ op' = [op EXCEPT ![s] = Idle]
        \/ \E pc \in {"queueing", "waiting"} : MoveTo(s, pc)
        \/ op[s].pc \in Deployed /\ \E pc \in Deployed : MoveTo(s, pc)
    BY <1>6, Zenon DEF DecideOffline, QueuePendingReconcile, DecideOnline, DeploySucceeds,
                PersistRollback, Return, At, Deployed
  <2>3. "queueing" \notin Deployed /\ "waiting" \notin Deployed
    BY Zenon DEF Deployed
  <2> QED
    BY <1>1, <1>4, <2>1, <2>2, <2>3, RenderedUpdate, Zenon
<1>7. ASSUME NEW s \in Stacks, Render(s) PROVE Rendered'
  <2> DEFINE sum == Content[s][tree]
  <2>0. op \in [Stacks -> Operations] /\ revision \in [Stacks -> Revisions \cup {NoRevision}]
    BY Zenon DEF TypeInv, TypeOK
  <2>1. \A t \in Stacks \ {s} : op'[t] = op[t] /\ revision'[t] = revision[t]
    BY <1>7, <2>0, Zenon DEF Render, GenerateRevision, Return
  <2>2. revision'[s].sum = sum
    BY <1>7, <2>0, Zenon DEF Render, GenerateRevision
  <2>3. revision'[s] \in Revisions
    <3>1. tree \in Commits /\ CommitToRender(s) \in Commits
      BY <1>0, <1>7, BoundsAssumption
         DEF Render, CommitToRender, Commits, Operations, TypeInv, TypeOK
    <3>2. sum \in Sums
      BY <3>1, ContentAssumption, Zenon
    <3>3. revision'[s] \in Revisions \cup {NoRevision}
      BY <1>7, <2>0, <3>1, <3>2, Zenon DEF Render, GenerateRevision, Revisions
    <3> QED
      BY <2>2, <3>2, <3>3, ContentAssumption DEF NoRevision
  <2>4. op'[s] = Idle \/ op'[s].rev.sum = sum
    BY <1>0, <1>7, <2>0 DEF Render, Return, Operations
  <2> QED
    BY <1>1, <2>1, <2>2, <2>3, <2>4, Zenon DEF TypeInv, Rendered
<1>8. ASSUME NEW s \in Stacks, RetryDeploy(s) PROVE Rendered'
  <2> DEFINE o == [op[s] EXCEPT !.try = @ + 1]
  <2>1. op' = [op EXCEPT ![s] = o] /\ revision' = revision
    BY <1>8, Zenon DEF RetryDeploy, record
  <2>2. o.pc = op[s].pc /\ o.rev = op[s].rev
    BY <1>0, Zenon DEF Operations
  <2> HIDE DEF o
  <2> QED
    BY <2>1, <2>2, RenderedUpdate, Zenon
<1>9. ASSUME NEW s \in Stacks, RecordSuccess(s) \/ (Fail(s) /\ ~RetryDeploy(s))
      PROVE  Rendered'
  <2>1. op' = [op EXCEPT ![s] = Idle] /\ revision' = revision
    BY <1>9, Zenon DEF RecordSuccess, Fail, FetchFails, WaitTimesOut, RenderFails, DeployFails,
                CutOff, markSecretError, Return, record
  <2> QED
    BY <1>1, <2>1, RenderedUpdate, ZenonT(40)
<1>10. CASE Restart
  BY <1>1, <1>10, ZenonT(40) DEF Restart, Rendered
<1>11. CASE Push \/ FetchTick \/ WorkerConnects \/ WorkerDisconnects
              \/ UNCHANGED vars
  BY <1>11, ZenonT(40) DEF Push, FetchTick, WorkerConnects, WorkerDisconnects, vars, record,
               TypeInv, Rendered
<1> QED
  BY <1>3, <1>5, <1>6, <1>7, <1>8, <1>9, <1>10, <1>11, Zenon DEF Next, Advance, Fail

\* The types hold when the server starts.
LEMMA TypeInit == Init => TypeInv
<1> SUFFICES ASSUME Init PROVE TypeInv
  BY Zenon
<1>1. TypeOK
  <2>1. Idle \in Operations
    BY BoundsAssumption DEF Idle, Started, Operations
  <2>2. /\ op \in [Stacks -> Operations] /\ status \in [Stacks -> Statuses]
        /\ revision \in [Stacks -> Revisions \cup {NoRevision}]
        /\ deployed \in [Stacks -> Revisions \cup {NoRevision}]
    BY <2>1, Zenon DEF Init, Statuses
  <2>3. /\ pending \in [Stacks -> Triggers \cup {"none"}]
        /\ wants \in [Stacks -> SUBSET Triggers]
        /\ host \in [Stacks -> SUBSET Revisions]
    BY Zenon DEF Init, Triggers
  <2>4. head \in Commits /\ tree \in 0 .. head /\ lastSHA \in 0 .. head
    BY BoundsAssumption DEF Init, Commits
  <2>5. /\ writer \in Stacks \cup {ticker, nobody}
        /\ secretErr \subseteq Stacks /\ stranded \subseteq Stacks
        /\ ops \in 0 .. MaxOps /\ faults \in 0 .. MaxFaults
    BY BoundsAssumption DEF Init
  <2>6. online \in BOOLEAN /\ skewed \in BOOLEAN
    BY Zenon DEF Init
  <2> QED
    BY <2>2, <2>3, <2>4, <2>5, <2>6, Zenon DEF TypeOK
<1>2. InOrder(Idle, head)
  BY DEF Init, InOrder, Idle, Started
<1>3. Idle.pc \notin Deployed
  BY Zenon DEF Idle, Started, Deployed
<1> QED
  BY <1>1, <1>2, <1>3, Zenon DEF TypeInv, OpsInOrder, Rendered, Init, TypeOK

\* The types hold in every reachable state.
LEMMA TypeInvariant == Spec => []TypeInv
<1>1. TypeInv /\ [Next]_vars => TypeInv'
  BY OpsStep, TablesStep, RenderedStep, Zenon DEF TypeInv
<1> QED
  BY <1>1, TypeInit, PTL DEF Spec

\* The records of the database, the checkout, the containers and the table of
\* running operations always have their types.  A deploy is never attempted
\* more than MaxRetries times, and what runs on the host was rendered from a
\* commit of the branch.
THEOREM TypeCorrect == Spec => []TypeOK
BY TypeInvariant, PTL DEF TypeInv

(***************************************************************************)
(* The status                                                              *)
(***************************************************************************)

\* The status a reconcile goes back to when there is nothing to deploy is
\* "syncing" only for a stack that a cut-off reconcile left on "syncing".
StatusInv ==
  /\ SyncingIsWorkedOn
  /\ \A s \in Stacks : op[s].prev = "syncing" => s \in stranded

\* A step of one operation that leaves its status and the status it remembers
\* in order leaves all of them in order.
LEMMA StatusUpdate ==
  ASSUME TypeInv, StatusInv, NEW s \in Stacks, NEW o, NEW st,
         op' = [op EXCEPT ![s] = o], status' = [status EXCEPT ![s] = st],
         stranded' = stranded,
         o.prev = "syncing" => s \in stranded,
         st = "syncing" => o.pc # "idle" \/ s \in stranded
  PROVE  StatusInv'
BY Zenon DEF TypeInv, TypeOK, StatusInv, SyncingIsWorkedOn, At

\* Every step keeps "syncing" on stacks that are worked on or stranded.
LEMMA StatusStep == TypeInv /\ StatusInv /\ [Next]_vars => StatusInv'
<1> SUFFICES ASSUME TypeInv, StatusInv, [Next]_vars PROVE StatusInv'
  BY Zenon
<1>0. /\ op \in [Stacks -> Operations] /\ status \in [Stacks -> Statuses]
      /\ stranded \subseteq Stacks
  BY Zenon DEF TypeInv, OpsInOrder, TypeOK
<1> USE <1>0 DEF StatusInv, SyncingIsWorkedOn, At, record, history, SetStatus,
                 Begin, MoveTo, Return
<1>1. ASSUME NEW s \in Stacks, CronTick(s) \/ RunTriggered(s) PROVE StatusInv'
  BY <1>1 DEF CronTick, RunTriggered, ReconcileStack, Start, markSecretError,
              effectivePrevStatus, Started, Idle
<1>2. ASSUME NEW s \in Stacks, Operate(s) PROVE StatusInv'
  <2>1. CASE TriggerSync(s) \/ TogglePause(s)
    BY <2>1, Zenon DEF TriggerSync, TogglePause
  <2>2. ASSUME NEW pc \in {"resetting", "rendering"}, NEW kind, NEW c,
               Start(s, Started(pc, kind, "none", "none", c)), stranded' = stranded
        PROVE  StatusInv'
    <3>1. \E o \in {Started(pc, kind, "none", "none", c), Idle} :
            \E st \in {"syncing", "error"} :
              /\ op' = [op EXCEPT ![s] = o] /\ status' = [status EXCEPT ![s] = st]
              /\ st = "syncing" => o.pc = pc
      BY <2>2, Zenon DEF Start, markSecretError, Started
    <3>2. ASSUME NEW o \in {Started(pc, kind, "none", "none", c), Idle}
          PROVE  o.prev = "none"
      BY DEF Started, Idle
    <3> QED
      BY <2>2, <3>1, <3>2, StatusUpdate, Zenon
  <2>3. CASE RollbackStack(s) \/ ForceRedeployStack(s)
    BY <2>2, <2>3, Zenon DEF RollbackStack, ForceRedeployStack
  <2> QED
    BY <1>2, <2>1, <2>3, Zenon DEF Operate
<1>3. ASSUME NEW s \in Stacks, FetchRepo(s) \/ UseFetched(s) \/ ResetTree(s)
      PROVE  StatusInv'
  <2>1. stranded' = stranded /\ status' = [status EXCEPT ![s] = status[s]]
    BY <1>3, Zenon DEF FetchRepo, UseFetched, ResetTree
  <2>2. \/ \E pc \in {"saving", "rendering"} : op' = [op EXCEPT ![s] = [op[s] EXCEPT !.pc = pc]]
        \/ \E c : op' = [op EXCEPT ![s] =
                            Started("deciding", "reconcile", op[s].trig, op[s].prev, c)]
    BY <1>3, Zenon DEF FetchRepo, UseFetched, ResetTree, Decide
  <2>3. ASSUME NEW pc \in {"saving", "rendering"}
        PROVE  /\ [op[s] EXCEPT !.pc = pc].prev = op[s].prev
               /\ [op[s] EXCEPT !.pc = pc].pc # "idle"
    BY Zenon DEF Operations
  <2>4. ASSUME NEW c
        PROVE  /\ Started("deciding", "reconcile", op[s].trig, op[s].prev, c).prev = op[s].prev
               /\ Started("deciding", "reconcile", op[s].trig, op[s].prev, c).pc # "idle"
    BY Zenon DEF Started
  <2>5. op[s].prev = "syncing" => s \in stranded
    BY Zenon
  <2> QED
    <3>1. CASE \E pc \in {"saving", "rendering"} :
                 op' = [op EXCEPT ![s] = [op[s] EXCEPT !.pc = pc]]
      BY <2>1, <2>3, <2>5, <3>1, StatusUpdate, ZenonT(40)
    <3>2. CASE \E c : op' = [op EXCEPT ![s] =
                            Started("deciding", "reconcile", op[s].trig, op[s].prev, c)]
      BY <2>1, <2>4, <2>5, <3>2, StatusUpdate, ZenonT(40)
    <3> QED
      BY <2>2, <3>1, <3>2, Zenon
<1>4. ASSUME NEW s \in Stacks, NEW pc, pc # "idle", MoveTo(s, pc),
             UNCHANGED <<status, stranded>>
      PROVE  StatusInv'
  <2>1. op[s] \in Operations /\ op[s].prev = [op[s] EXCEPT !.pc = pc].prev
    BY Zenon DEF Operations
  <2>2. [op[s] EXCEPT !.pc = pc].pc = pc
    BY <2>1, Zenon DEF Operations
  <2>3. status' = [status EXCEPT ![s] = status[s]]
    BY <1>4, Zenon
  <2> QED
    BY <1>4, <2>1, <2>2, <2>3, StatusUpdate, Zenon
<1>5. ASSUME NEW s \in Stacks, NEW st, Return(s, st), stranded' = stranded,
             st = "syncing" => op[s].prev = st
      PROVE  StatusInv'
  <2>1. Idle.prev # "syncing"
    BY Zenon DEF Idle, Started
  <2> QED
    BY <1>5, <2>1, StatusUpdate, Zenon
<1>6. ASSUME NEW s \in Stacks,
             DecideOffline(s) \/ QueuePendingReconcile(s) \/ DecideOnline(s)
      PROVE  StatusInv'
  <2>1. stranded' = stranded
    BY <1>6, Zenon DEF DecideOffline, QueuePendingReconcile, DecideOnline
  <2>2. \/ \E st \in {op[s].prev, "pending"} : Return(s, st)
        \/ (\E pc \in {"queueing", "waiting"} : MoveTo(s, pc)) /\ UNCHANGED status
    BY <1>6, Zenon DEF DecideOffline, QueuePendingReconcile, DecideOnline
  <2> QED
    BY <2>1, <2>2, <1>4, <1>5, Zenon
<1>11. ASSUME NEW s \in Stacks, Render(s) PROVE StatusInv'
  <2>1. CASE Return(s, op[s].prev) /\ stranded' = stranded
    BY <2>1, <1>5, Zenon
  <2>2. CASE ~Return(s, op[s].prev)
    <3> DEFINE rev == [commit |-> CommitToRender(s), sum |-> Content[s][tree]]
               o == [op[s] EXCEPT !.pc = "deploying", !.try = 1, !.rev = rev]
    <3>1. op' = [op EXCEPT ![s] = o] /\ status' = [status EXCEPT ![s] = status[s]]
      BY <1>11, <2>2, Zenon DEF Render
    <3>2. op[s] \in Operations
      BY Zenon
    <3>3. o.prev = op[s].prev /\ o.pc = "deploying"
      BY <3>2, Zenon DEF Operations
    <3>4. stranded' = stranded
      BY <1>11, Zenon DEF Render
    <3> HIDE DEF o
    <3> QED
      BY <3>1, <3>3, <3>4, StatusUpdate, Zenon
  <2> QED
    BY <1>11, <2>1, <2>2, Zenon DEF Render
<1>12. ASSUME NEW s \in Stacks,
              DeploySucceeds(s) \/ PersistRollback(s) \/ RetryDeploy(s)
       PROVE  StatusInv'
  <2>1. CASE DeploySucceeds(s) \/ PersistRollback(s)
    BY <2>1, <1>4, Zenon DEF DeploySucceeds, PersistRollback
  <2>2. CASE RetryDeploy(s)
    <3> DEFINE o == [op[s] EXCEPT !.try = @ + 1]
    <3>1. op' = [op EXCEPT ![s] = o] /\ status' = [status EXCEPT ![s] = status[s]]
      BY <2>2, Zenon DEF RetryDeploy
    <3>2. o.prev = op[s].prev /\ o.pc = "deploying" /\ stranded' = stranded
      BY <2>2, Zenon DEF RetryDeploy, AttemptFails, Operations
    <3> HIDE DEF o
    <3> QED
      BY <3>1, <3>2, StatusUpdate, Zenon
  <2> QED
    BY <1>12, <2>1, <2>2, Zenon
<1>7. ASSUME NEW s \in Stacks, RecordSuccess(s) \/ DeployFails(s) PROVE StatusInv'
  BY <1>7 DEF RecordSuccess, DeployFails, PostDeployStatus, Verdicts, Idle, Started
<1>8. ASSUME NEW s \in Stacks,
             FetchFails(s) \/ WaitTimesOut(s) \/ RenderFails(s) \/ CutOff(s)
      PROVE  StatusInv'
  BY <1>8 DEF FetchFails, WaitTimesOut, RenderFails, CutOff, markSecretError,
              Idle, Started
<1>9. CASE Restart
  BY <1>9, Zenon DEF Restart, Idle, Started
<1>10. CASE Push \/ FetchTick \/ WorkerConnects \/ WorkerDisconnects
              \/ UNCHANGED vars
  BY <1>10, Zenon DEF Push, FetchTick, WorkerConnects, WorkerDisconnects, vars
<1> QED
  BY <1>1, <1>2, <1>3, <1>6, <1>7, <1>8, <1>9, <1>10, <1>11, <1>12, Zenon
     DEF Next, Advance, Fail

\* "syncing" is shown only while an operation works on the stack, however many
\* stacks, operators and failures there are (SyncingIsWorkedOn).
THEOREM SyncingCorrect == Spec => []SyncingIsWorkedOn
<1>1. Init => StatusInv
  BY DEF Init, StatusInv, SyncingIsWorkedOn, Idle, Started
<1> QED
  BY <1>1, StatusStep, TypeInvariant, PTL DEF Spec, StatusInv

(***************************************************************************)
(* The commit that is rendered and recorded                                *)
(***************************************************************************)

\* Unless a rollback or a crash inside a fetch moved them apart, the checkout
\* and last_commit_sha agree whenever nobody holds the write lock, the checkout
\* is the one ahead while somebody does, no rollback has got past its hard
\* reset, and no redeploy names a commit ahead of the checkout.
RepoInv ==
  /\ RenderedIsRecorded
  /\ ~skewed => /\ writer = nobody => lastSHA = tree
                /\ lastSHA <= tree
                /\ \A s \in Stacks :
                     /\ op[s].kind = "rollback" => At(s, "resetting")
                     /\ op[s].kind = "redeploy" => op[s].rev.commit <= tree

\* A step that only moves an operation outside the deploy, or into it with what
\* it read of the recorded commit, keeps rendered and recorded commits together.
LEMMA RepoUpdate ==
  ASSUME TypeInv, RepoInv, NEW s \in Stacks, NEW o,
         op' = [op EXCEPT ![s] = o], UNCHANGED <<tree, lastSHA, writer, skewed>>,
         o.kind = "reconcile" /\ o.pc = "deploying" /\ ~skewed =>
           o.rev.sum = Content[s][o.rev.commit],
         o.kind = "rollback" /\ ~skewed => o.pc = "resetting",
         o.kind = "redeploy" /\ ~skewed => o.rev.commit <= tree
  PROVE  RepoInv'
BY Zenon DEF TypeInv, TypeOK, RepoInv, RenderedIsRecorded, At

\* Every step keeps them together.
LEMMA RepoStep == TypeInv /\ RepoInv /\ [Next]_vars => RepoInv'
<1> SUFFICES ASSUME TypeInv, RepoInv, [Next]_vars PROVE RepoInv'
  BY Zenon
<1>0. ASSUME NEW s \in Stacks
      PROVE  op[s] \in Operations /\ InOrder(op[s], head)
  BY Zenon DEF TypeInv, OpsInOrder
<1>a. /\ head \in Nat /\ lastSHA \in 0 .. head /\ tree \in 0 .. head
      /\ \A s \in Stacks : op[s].rev.commit \in 0 .. head
  BY <1>0, BoundsAssumption DEF TypeInv, TypeOK, Commits, Operations, InOrder
<1> USE DEF repo, history
<1>1. ASSUME NEW s \in Stacks, op' = [op EXCEPT ![s] = Idle],
             UNCHANGED <<tree, lastSHA, writer, skewed>>
      PROVE  RepoInv'
  <2>1. Idle.kind = "none"
    BY Zenon DEF Idle, Started
  <2> QED
    BY <1>1, <2>1, RepoUpdate, Zenon
<1>2. ASSUME NEW s \in Stacks, NEW o, Start(s, o), UNCHANGED <<repo, history>>,
             o.pc # "deploying",
             o.kind = "rollback" => o.pc = "resetting",
             o.kind = "redeploy" /\ ~skewed => o.rev.commit <= tree
      PROVE  RepoInv'
  <2>1. CASE Begin(s, o)
    BY <1>2, <2>1, RepoUpdate, Zenon DEF Begin
  <2>2. CASE markSecretError(s)
    BY <1>1, <1>2, <2>2, Zenon DEF markSecretError, Return
  <2> QED
    BY <1>2, <2>1, <2>2, Zenon DEF Start
<1>3. ASSUME NEW s \in Stacks, CronTick(s) \/ RunTriggered(s) PROVE RepoInv'
  <2>1. CASE UNCHANGED <<op, repo, history>>
    BY <2>1, Zenon DEF RepoInv, RenderedIsRecorded, At
  <2>2. ASSUME NEW trig, ReconcileStack(s, trig), UNCHANGED <<repo, history>>
        PROVE  RepoInv'
    <3> DEFINE o == Started("fetching", "reconcile", trig, effectivePrevStatus(s), 0)
    <3>1. o.kind = "reconcile" /\ o.pc = "fetching"
      BY Zenon DEF Started
    <3> QED
      BY <1>2, <2>2, <3>1, Zenon DEF ReconcileStack
  <2> QED
    BY <1>3, <2>1, <2>2, Zenon DEF CronTick, RunTriggered
<1>4. ASSUME NEW s \in Stacks, Operate(s) PROVE RepoInv'
  <2>1. CASE TriggerSync(s) \/ TogglePause(s)
    BY <2>1 DEF TriggerSync, TogglePause, RepoInv, RenderedIsRecorded, At
  <2>2. CASE RollbackStack(s)
    <3>1. PICK c : Start(s, Started("resetting", "rollback", "none", "none", c))
      BY <2>2, Zenon DEF RollbackStack
    <3> DEFINE o == Started("resetting", "rollback", "none", "none", c)
    <3>2. o.kind = "rollback" /\ o.pc = "resetting"
      BY Zenon DEF Started
    <3> QED
      BY <1>2, <2>2, <3>1, <3>2, Zenon DEF RollbackStack
  <2>3. CASE ForceRedeployStack(s)
    <3> DEFINE o == Started("rendering", "redeploy", "none", "none", lastSHA)
    <3>1. o.kind = "redeploy" /\ o.pc = "rendering" /\ o.rev.commit = lastSHA
      BY Zenon DEF Started
    <3>2. ~skewed => lastSHA <= tree
      BY Zenon DEF RepoInv
    <3> QED
      BY <1>2, <2>3, <3>1, <3>2, Zenon DEF ForceRedeployStack
  <2> QED
    BY <1>4, <2>1, <2>2, <2>3, Zenon DEF Operate
<1>5. ASSUME NEW s \in Stacks, UseFetched(s) PROVE RepoInv'
  <2> DEFINE o == Started("deciding", "reconcile", op[s].trig, op[s].prev, lastSHA)
  <2>1. o.kind = "reconcile" /\ o.pc = "deciding"
    BY Zenon DEF Started
  <2> QED
    BY <1>5, <2>1, RepoUpdate, Zenon DEF UseFetched, Decide
<1>6. ASSUME NEW s \in Stacks, FetchRepo(s) PROVE RepoInv'
  <2>0. op \in [Stacks -> Operations] /\ s # nobody
    BY ContentAssumption, Zenon DEF TypeInv, TypeOK
  <2>1. CASE At(s, "fetching") /\ LockAndFetch(s) /\ MoveTo(s, "saving")
               /\ UNCHANGED <<lastSHA, skewed>>
    <3>1. op[s].kind = "reconcile" /\ writer' = s
      BY <1>0, <2>1, Zenon DEF At, InOrder, LockAndFetch
    <3>2. ASSUME NEW t \in Stacks
          PROVE  /\ t # s => op'[t] = op[t]
                 /\ t = s => op'[t].pc = "saving" /\ op'[t].kind = "reconcile"
      BY <2>0, <2>1, <3>1, Zenon DEF MoveTo, Operations
    <3> QED
      BY <1>a, <2>0, <2>1, <3>1, <3>2 DEF LockAndFetch, RepoInv, RenderedIsRecorded, At
  <2>2. CASE At(s, "saving") /\ SaveFetched(s) /\ Decide(s, tree)
               /\ UNCHANGED <<tree, skewed>>
    <3>1. ASSUME NEW t \in Stacks
          PROVE  /\ t # s => op'[t] = op[t]
                 /\ t = s => op'[t].pc = "deciding" /\ op'[t].kind = "reconcile"
      BY <2>0, <2>2, Zenon DEF Decide, Started
    <3> QED
      BY <1>a, <2>2, <3>1 DEF SaveFetched, RepoInv, RenderedIsRecorded, At
  <2> QED
    BY <1>6, <2>1, <2>2, Zenon DEF FetchRepo
<1>7. ASSUME NEW s \in Stacks, ResetTree(s) PROVE RepoInv'
  BY <1>7, Zenon DEF ResetTree, RepoInv, RenderedIsRecorded
<1>8. ASSUME NEW s \in Stacks, NEW pc \in {"queueing", "waiting", "persisting", "recording"},
             MoveTo(s, pc), op[s].pc # "resetting",
             UNCHANGED <<tree, lastSHA, writer, skewed>>
      PROVE  RepoInv'
  <2> DEFINE o == [op[s] EXCEPT !.pc = pc]
  <2>1. o.kind = op[s].kind /\ o.pc = pc /\ o.rev = op[s].rev
    BY <1>0, Zenon DEF Operations
  <2>2. /\ op[s].kind = "rollback" => skewed
        /\ op[s].kind = "redeploy" /\ ~skewed => op[s].rev.commit <= tree
    BY <1>8, Zenon DEF RepoInv, At
  <2> QED
    BY <1>8, <2>1, <2>2, RepoUpdate, Zenon DEF MoveTo
<1>9. ASSUME NEW s \in Stacks,
             DecideOffline(s) \/ QueuePendingReconcile(s) \/ DecideOnline(s)
               \/ DeploySucceeds(s)
      PROVE  RepoInv'
  <2>1. UNCHANGED <<tree, lastSHA, writer, skewed>>
    BY <1>9, Zenon DEF DecideOffline, QueuePendingReconcile, DecideOnline, DeploySucceeds
  <2>2. \/ op' = [op EXCEPT ![s] = Idle]
        \/ /\ \E pc \in {"queueing", "waiting", "persisting", "recording"} : MoveTo(s, pc)
           /\ op[s].pc # "resetting"
    BY <1>9, Zenon DEF DecideOffline, QueuePendingReconcile, DecideOnline, DeploySucceeds,
                Deciding, At, Return
  <2> QED
    BY <2>1, <2>2, <1>1, <1>8, Zenon
<1>10. ASSUME NEW s \in Stacks, Render(s) PROVE RepoInv'
  <2>0. UNCHANGED <<tree, lastSHA, writer, skewed>>
    BY <1>10, Zenon DEF Render
  <2>1. CASE op' = [op EXCEPT ![s] = Idle]
    BY <1>1, <2>0, <2>1, Zenon
  <2>2. CASE op' # [op EXCEPT ![s] = Idle]
    <3> DEFINE rev == [commit |-> CommitToRender(s), sum |-> Content[s][tree]]
               o == [op[s] EXCEPT !.pc = "deploying", !.try = 1, !.rev = rev]
    <3>1. op' = [op EXCEPT ![s] = o]
      BY <1>10, <2>2, Zenon DEF Render, Return
    <3>2. o.kind = op[s].kind /\ o.pc = "deploying" /\ o.rev = rev
      BY <1>0, Zenon DEF Operations
    <3>3. op[s].kind = "reconcile" /\ ~skewed => CommitToRender(s) = tree
      BY <1>0, <1>10, Zenon DEF Render, Rendering, CommitToRender, InOrder, At, RepoInv
    <3>4. /\ op[s].kind = "rollback" => skewed
          /\ op[s].kind = "redeploy" /\ ~skewed => rev.commit <= tree
      BY <1>0, <1>10, Zenon DEF Render, Rendering, CommitToRender, InOrder, At, RepoInv
    <3>5. op[s].kind = "reconcile" /\ ~skewed => o.rev.sum = Content[s][o.rev.commit]
      BY <3>2, <3>3
    <3> HIDE DEF o, rev
    <3> QED
      BY <2>0, <3>1, <3>2, <3>4, <3>5, RepoUpdate, Zenon
  <2> QED
    BY <2>1, <2>2, Zenon
<1>11. ASSUME NEW s \in Stacks, RetryDeploy(s) PROVE RepoInv'
  <2> DEFINE o == [op[s] EXCEPT !.try = @ + 1]
  <2>1. op' = [op EXCEPT ![s] = o] /\ op[s].pc = "deploying"
        /\ UNCHANGED <<tree, lastSHA, writer, skewed>>
    BY <1>11, Zenon DEF RetryDeploy, AttemptFails, At
  <2>2. o.kind = op[s].kind /\ o.pc = op[s].pc /\ o.rev = op[s].rev
    BY <1>0, Zenon DEF Operations
  <2> HIDE DEF o
  <2> QED
    BY <2>1, <2>2, RepoUpdate, Zenon DEF RepoInv, RenderedIsRecorded, At
<1>12. ASSUME NEW s \in Stacks, PersistRollback(s) PROVE RepoInv'
  <2>1. skewed /\ skewed' = skewed
    BY <1>0, <1>12, Zenon DEF PersistRollback, At, InOrder, RepoInv
  <2> QED
    BY <2>1, Zenon DEF RepoInv, RenderedIsRecorded
<1>13. ASSUME NEW s \in Stacks, RecordSuccess(s) \/ (Fail(s) /\ ~RetryDeploy(s))
       PROVE  RepoInv'
  BY <1>1, <1>13, Zenon DEF RecordSuccess, Fail, FetchFails, WaitTimesOut, RenderFails,
                     DeployFails, CutOff, markSecretError, Return
<1>14. CASE FetchTick
  <2>1. ticker # nobody
    BY ContentAssumption, Zenon
  <2> QED
    <3>1. CASE LockAndFetch(ticker) /\ UNCHANGED <<lastSHA, op, skewed>>
      BY <1>a, <2>1, <3>1 DEF LockAndFetch, RepoInv, RenderedIsRecorded, At
    <3>2. CASE SaveFetched(ticker) /\ UNCHANGED <<tree, op, skewed>>
      BY <1>a, <3>2 DEF SaveFetched, RepoInv, RenderedIsRecorded, At
    <3> QED
      BY <1>14, <3>1, <3>2, Zenon DEF FetchTick
<1>15. CASE Restart
  <2>1. \A s \in Stacks : op'[s].kind = "none"
    BY <1>15, Zenon DEF Restart, Idle, Started
  <2> QED
    BY <1>15, <2>1, ZenonT(40) DEF Restart, RepoInv, RenderedIsRecorded
<1>16. CASE Push \/ WorkerConnects \/ WorkerDisconnects \/ UNCHANGED vars
  BY <1>16 DEF Push, WorkerConnects, WorkerDisconnects, vars, RepoInv,
               RenderedIsRecorded, At
<1> QED
  BY <1>3, <1>4, <1>5, <1>6, <1>7, <1>9, <1>10, <1>11, <1>12, <1>13, <1>14, <1>15,
     <1>16, Zenon DEF Next, Advance, Fail

\* What a reconcile renders is the compose file of the commit it will record,
\* for any number of stacks that fetch the one repository and render from its
\* checkout (RenderedIsRecorded).
THEOREM RenderedCorrect == Spec => []RenderedIsRecorded
<1>1. Init => RepoInv
  BY DEF Init, RepoInv, RenderedIsRecorded, Idle, Started
<1> QED
  BY <1>1, RepoStep, TypeInvariant, PTL DEF Spec, RepoInv

\* A stack that rests on "paused" keeps its containers and its status until an
\* operator asks for something (PausedRests).
THEOREM PausedCorrect == Spec => PausedRests
<1> DEFINE Rests == \A s \in Stacks : status[s] = "paused" /\ At(s, "idle") /\ ops' = ops =>
                      status'[s] = "paused" /\ host'[s] = host[s]
<1>1. TypeInv /\ [Next]_vars => Rests
  <2> SUFFICES ASSUME TypeInv, [Next]_vars, NEW s \in Stacks,
                      status[s] = "paused", At(s, "idle"), ops' = ops
               PROVE  status'[s] = "paused" /\ host'[s] = host[s]
    BY Zenon
  <2>0. /\ status \in [Stacks -> Statuses] /\ host \in [Stacks -> SUBSET Revisions]
        /\ ops \in Nat /\ op \in [Stacks -> Operations]
    BY BoundsAssumption DEF TypeInv, TypeOK
  <2> USE <2>0 DEF record, SetStatus, Begin, Return, MoveTo, At
  <2>1. ASSUME NEW t \in Stacks, CronTick(t) \/ RunTriggered(t)
        PROVE  status'[s] = "paused" /\ host'[s] = host[s]
    BY <2>1, Zenon DEF CronTick, RunTriggered, ReconcileStack, Start, markSecretError,
                MayReconcile
  <2>2. ASSUME NEW t \in Stacks, Operate(t)
        PROVE  FALSE
    BY <2>2 DEF Operate, Operator, TriggerSync, TogglePause, RollbackStack,
                ForceRedeployStack
  <2>3. ASSUME NEW t \in Stacks, Advance(t), ~RunTriggered(t)
        PROVE  status'[s] = "paused" /\ host'[s] = host[s]
    BY <2>3, Zenon DEF Advance, FetchRepo, UseFetched, ResetTree, DecideOffline,
                QueuePendingReconcile, DecideOnline, Deciding, Render, Rendering,
                DeploySucceeds, PersistRollback, RecordSuccess
  <2>4. ASSUME NEW t \in Stacks, Fail(t)
        PROVE  status'[s] = "paused" /\ host'[s] = host[s]
    BY <2>4, Zenon DEF Fail, FetchFails, WaitTimesOut, RenderFails, Rendering, RetryDeploy,
                DeployFails, AttemptFails, CutOff, markSecretError
  <2>5. CASE Push \/ FetchTick \/ WorkerConnects \/ WorkerDisconnects \/ Restart
                \/ UNCHANGED vars
    BY <2>5, Zenon DEF Push, FetchTick, WorkerConnects, WorkerDisconnects, Restart, vars
  <2> QED
    BY <2>1, <2>2, <2>3, <2>4, <2>5, Zenon DEF Next
<1> QED
  BY <1>1, TypeInvariant, PTL DEF Spec, PausedRests

-----------------------------------------------------------------------------
(***************************************************************************)
(* The record of what is deployed follows the host, for any number of      *)
(* stacks and any bounds.                                                  *)
(***************************************************************************)

\* Between the success of a deploy and its record nothing else touches the
\* stack's containers.
HostInv ==
  \A s \in Stacks :
    op[s].pc \in {"persisting", "recording"} => host[s] = {revision[s]}

\* A rendered file has the content of the commit in its labels, or that commit
\* is behind the checkout.
Labelled(s, r) == r.sum = Content[s][r.commit] \/ r.commit < tree

\* Unless the checkout was moved apart, every file rendered or running is
\* Labelled, so a container that carries the commit a reconcile deploys also has
\* the checksum it will record.
LabelInv ==
  ~skewed => \A s \in Stacks :
    /\ \A r \in host[s] : Labelled(s, r)
    /\ revision[s] # NoRevision => Labelled(s, revision[s])
    /\ op[s].kind = "reconcile" /\ At(s, "deploying") =>
         \A r \in host[s] : r.commit = op[s].rev.commit => r.sum = op[s].rev.sum

\* A step outside the deploy, with a checkout that only moves forward, keeps
\* both.
LEMMA HostUpdate ==
  ASSUME TypeInv, HostInv, LabelInv, NEW s \in Stacks, NEW o,
         op' = [op EXCEPT ![s] = o], UNCHANGED <<revision, host, skewed>>,
         tree' \in Nat, tree <= tree',
         o.pc \notin Deployed
  PROVE  HostInv' /\ LabelInv'
<1>0. /\ op \in [Stacks -> Operations] /\ host \in [Stacks -> SUBSET Revisions]
      /\ revision \in [Stacks -> Revisions \cup {NoRevision}]
  BY Zenon DEF TypeInv, TypeOK
<1>1. HostInv'
  BY <1>0, Zenon DEF HostInv, Deployed
<1>2. ASSUME NEW t \in Stacks, NEW r \in Revisions, Labelled(t, r)
      PROVE  Labelled(t, r)'
  <2>1. r.commit \in Nat /\ tree \in Nat
    BY BoundsAssumption DEF Revisions, Commits, TypeInv, TypeOK
  <2> QED
    BY <1>2, <2>1 DEF Labelled
<1>3. LabelInv'
  <2> SUFFICES ASSUME ~skewed, NEW t \in Stacks
               PROVE  /\ \A r \in host[t] : Labelled(t, r)'
                      /\ revision[t] # NoRevision => Labelled(t, revision[t])'
                      /\ op'[t].kind = "reconcile" /\ op'[t].pc = "deploying" =>
                           \A r \in host[t] : r.commit = op'[t].rev.commit
                                                => r.sum = op'[t].rev.sum
    BY Zenon DEF LabelInv, At
  <2>1. op'[t].pc = "deploying" => op'[t] = op[t]
    BY <1>0, Zenon DEF Deployed
  <2>2. /\ \A r \in host[t] : r \in Revisions /\ Labelled(t, r)
        /\ revision[t] # NoRevision => revision[t] \in Revisions /\ Labelled(t, revision[t])
    BY <1>0, Zenon DEF LabelInv
  <2>3. op[t].kind = "reconcile" /\ op[t].pc = "deploying" =>
          \A r \in host[t] : r.commit = op[t].rev.commit => r.sum = op[t].rev.sum
    BY Zenon DEF LabelInv, At
  <2> QED
    BY <1>2, <2>1, <2>2, <2>3, Zenon
<1> QED
  BY <1>1, <1>3, Zenon

\* A step of one stack that renders nothing, and deploys nothing but the file
\* rendered last, keeps both.
LEMMA HostDeploy ==
  ASSUME TypeInv, HostInv, LabelInv, NEW s \in Stacks, NEW o, NEW running,
         op[s].pc \in Deployed,
         op' = [op EXCEPT ![s] = o], UNCHANGED <<revision, skewed, tree>>,
         host' = [host EXCEPT ![s] = running],
         running \subseteq host[s] \cup {revision[s]},
         o.pc \in {"persisting", "recording"} => running = {revision[s]},
         o.pc = "deploying" =>
           op[s].pc = "deploying" /\ o.rev = op[s].rev /\ o.kind = op[s].kind
  PROVE  HostInv' /\ LabelInv'
<1>0. /\ op \in [Stacks -> Operations] /\ host \in [Stacks -> SUBSET Revisions]
      /\ revision[s] \in Revisions /\ revision[s].sum = op[s].rev.sum
  BY Zenon DEF TypeInv, TypeOK, Rendered
<1>1. HostInv'
  BY <1>0, Zenon DEF HostInv
<1>2. LabelInv'
  <2> SUFFICES ASSUME ~skewed, NEW t \in Stacks
               PROVE  /\ \A r \in host'[t] : Labelled(t, r)
                      /\ revision[t] # NoRevision => Labelled(t, revision[t])
                      /\ op'[t].kind = "reconcile" /\ op'[t].pc = "deploying" =>
                           \A r \in host'[t] : r.commit = op'[t].rev.commit
                                                 => r.sum = op'[t].rev.sum
    BY Zenon DEF LabelInv, At, Labelled
  <2>1. /\ \A r \in host[t] : Labelled(t, r)
        /\ revision[t] # NoRevision => Labelled(t, revision[t])
        /\ op[t].kind = "reconcile" /\ op[t].pc = "deploying" =>
             \A r \in host[t] : r.commit = op[t].rev.commit => r.sum = op[t].rev.sum
    BY Zenon DEF LabelInv, At
  <2>2. CASE t # s
    BY <1>0, <2>1, <2>2, Zenon
  <2>3. CASE t = s
    <3>1. revision[s] # NoRevision
      BY <1>0, ContentAssumption DEF Revisions, NoRevision
    <3>2. op'[s] = o /\ host'[s] = running
      BY <1>0, Zenon
    <3> QED
      BY <1>0, <2>1, <2>3, <3>1, <3>2, Zenon
  <2> QED
    BY <2>2, <2>3, Zenon
<1> QED
  BY <1>1, <1>2, Zenon

\* Every step keeps both.
LEMMA HostStep ==
  TypeInv /\ RepoInv /\ HostInv /\ LabelInv /\ [Next]_vars => HostInv' /\ LabelInv'
<1> SUFFICES ASSUME TypeInv, RepoInv, HostInv, LabelInv, [Next]_vars
             PROVE  HostInv' /\ LabelInv'
  BY Zenon
<1>0. /\ op \in [Stacks -> Operations] /\ host \in [Stacks -> SUBSET Revisions]
      /\ revision \in [Stacks -> Revisions \cup {NoRevision}]
      /\ \A s \in Stacks : op[s] \in Operations /\ InOrder(op[s], head)
  BY Zenon DEF TypeInv, OpsInOrder, TypeOK
<1>a. tree \in Nat /\ head \in Nat /\ tree <= head
  BY BoundsAssumption DEF TypeInv, TypeOK, Commits
<1> USE DEF repo, record, history
<1>1. Idle.pc \notin Deployed
  BY Zenon DEF Idle, Started, Deployed
<1>2. ASSUME NEW trig, NEW prev, NEW c
      PROVE  Started("deciding", "reconcile", trig, prev, c).pc \notin Deployed
  BY Zenon DEF Started, Deployed
<1>3. ASSUME UNCHANGED <<op, revision, host, skewed>>, tree' \in Nat, tree <= tree'
      PROVE  HostInv' /\ LabelInv'
  <2>1. HostInv'
    BY <1>3, Zenon DEF HostInv
  <2>2. ASSUME NEW s \in Stacks, NEW r \in Revisions, Labelled(s, r)
        PROVE  Labelled(s, r)'
    <3>1. r.commit \in Nat
      BY BoundsAssumption DEF Revisions, Commits
    <3> QED
      BY <1>a, <1>3, <2>2, <3>1 DEF Labelled
  <2>3. LabelInv'
    <3> SUFFICES ASSUME ~skewed, NEW s \in Stacks
                 PROVE  /\ \A r \in host[s] : Labelled(s, r)'
                        /\ revision[s] # NoRevision => Labelled(s, revision[s])'
      BY <1>3, Zenon DEF LabelInv, At
    <3>1. /\ \A r \in host[s] : r \in Revisions /\ Labelled(s, r)
          /\ revision[s] # NoRevision => revision[s] \in Revisions /\ Labelled(s, revision[s])
      BY <1>0, Zenon DEF LabelInv
    <3> QED
      BY <1>3, <2>2, <3>1, Zenon
  <2> QED
    BY <2>1, <2>3, Zenon
<1>4. ASSUME NEW s \in Stacks,
             CronTick(s) \/ RunTriggered(s) \/ Operate(s) \/ UseFetched(s)
      PROVE  HostInv' /\ LabelInv'
  <2>1. UNCHANGED <<revision, host, skewed, tree>>
    BY <1>4, Zenon DEF CronTick, RunTriggered, Operate, TriggerSync, TogglePause,
                RollbackStack, ForceRedeployStack, UseFetched
  <2>2. op' = op \/ \E o : op' = [op EXCEPT ![s] = o] /\ o.pc \notin Deployed
    BY <1>4, Starting, Zenon
  <2>3. tree' \in Nat /\ tree <= tree'
    BY <1>a, <2>1
  <2> QED
    BY <1>3, <2>1, <2>2, <2>3, HostUpdate, Zenon
<1>5. ASSUME NEW s \in Stacks, NEW pc \in {"saving", "queueing", "waiting"}, MoveTo(s, pc),
             UNCHANGED <<revision, host, skewed>>, tree' \in Nat, tree <= tree'
      PROVE  HostInv' /\ LabelInv'
  <2> DEFINE o == [op[s] EXCEPT !.pc = pc]
  <2>1. o.pc \notin Deployed
    BY <1>0, Zenon DEF Operations, Deployed
  <2> QED
    BY <1>5, <2>1, HostUpdate, Zenon DEF MoveTo
<1>6. ASSUME NEW s \in Stacks, FetchRepo(s) PROVE HostInv' /\ LabelInv'
  <2>1. UNCHANGED <<revision, host, skewed>> /\ tree' \in Nat /\ tree <= tree'
    BY <1>6, <1>a DEF FetchRepo, LockAndFetch
  <2>2. \/ MoveTo(s, "saving")
        \/ op' = [op EXCEPT ![s] =
                    Started("deciding", "reconcile", op[s].trig, op[s].prev, tree)]
    BY <1>6, Zenon DEF FetchRepo, Decide
  <2> QED
    BY <1>2, <1>5, <2>1, <2>2, HostUpdate, Zenon
<1>7. ASSUME NEW s \in Stacks, ResetTree(s) PROVE HostInv' /\ LabelInv'
  <2>1. skewed' /\ UNCHANGED <<revision, host>>
    BY <1>7, Zenon DEF ResetTree
  <2>2. \A t \in Stacks : op'[t].pc \in {"persisting", "recording"} => op'[t] = op[t]
    BY <1>0, <1>7, Zenon DEF ResetTree, MoveTo, Operations
  <2> QED
    BY <2>1, <2>2, Zenon DEF HostInv, LabelInv
<1>8. ASSUME NEW s \in Stacks,
             DecideOffline(s) \/ QueuePendingReconcile(s) \/ DecideOnline(s)
      PROVE  HostInv' /\ LabelInv'
  <2>1. UNCHANGED <<revision, host, skewed, tree>>
    BY <1>8, Zenon DEF DecideOffline, QueuePendingReconcile, DecideOnline
  <2>2. \/ op' = [op EXCEPT ![s] = Idle]
        \/ \E pc \in {"queueing", "waiting"} : MoveTo(s, pc)
    BY <1>8, Zenon DEF DecideOffline, QueuePendingReconcile, DecideOnline, Return
  <2> QED
    BY <1>a, <1>1, <1>5, <2>1, <2>2, HostUpdate
<1>9. ASSUME NEW s \in Stacks, Render(s) PROVE HostInv' /\ LabelInv'
  <2> DEFINE sum == Content[s][tree]
             rev == [commit |-> CommitToRender(s), sum |-> sum]
  <2>1. UNCHANGED <<host, skewed, tree>>
    BY <1>9, Zenon DEF Render
  <2>2. \A t \in Stacks \ {s} : op'[t] = op[t] /\ revision'[t] = revision[t]
    BY <1>0, <1>9, Zenon DEF Render, GenerateRevision, Return
  <2>3. op'[s] = Idle \/ (op'[s].pc = "deploying" /\ op'[s].rev = rev
                            /\ op'[s].kind = op[s].kind)
    BY <1>0, <1>9 DEF Render, Return, Operations
  <2>4. HostInv'
    BY <1>1, <2>1, <2>2, <2>3, Zenon DEF HostInv, Deployed
  <2>5. ASSUME ~skewed
        PROVE  /\ op[s].kind = "reconcile" => CommitToRender(s) = tree
               /\ CommitToRender(s) = tree \/ CommitToRender(s) < tree
    <3>0. /\ op[s].pc = "waiting" => op[s].kind = "reconcile"
          /\ op[s].pc = "rendering" => op[s].kind # "reconcile"
          /\ op[s].pc = "rendering" => op[s].kind # "rollback"
      BY <1>0, <2>5, Zenon DEF InOrder, RepoInv, At
    <3>1. /\ op[s].kind = "reconcile" => At(s, "waiting")
          /\ op[s].pc = "rendering" \/ op[s].kind = "reconcile"
      BY <1>9, <3>0, Zenon DEF Render, Rendering, At
    <3>2. op[s].kind = "reconcile" => lastSHA = tree
      BY <1>9, <2>5, <3>1, Zenon DEF Render, Rendering, At, RepoInv
    <3>3. op[s].pc = "rendering" => op[s].rev.commit <= tree /\ op[s].rev.commit \in Nat
      <4>1. op[s].kind = "redeploy" => op[s].rev.commit <= tree
        BY <2>5, Zenon DEF RepoInv
      <4>2. op[s].rev.commit \in Nat /\ op[s].kind \in {"none", "reconcile", "rollback", "redeploy"}
        BY <1>0, BoundsAssumption DEF Operations
      <4>3. op[s].pc = "rendering" => op[s].kind # "none"
        BY <1>0, Zenon DEF InOrder
      <4> QED
        BY <3>0, <4>1, <4>2, <4>3, Zenon
    <3> QED
      BY <1>a, <3>1, <3>2, <3>3 DEF CommitToRender
  <2>6. ASSUME ~skewed
        PROVE  revision'[s] # NoRevision => Labelled(s, revision'[s])
    <3>1. revision'[s] = revision[s] \/ revision'[s] = rev
      BY <1>0, <1>9, Zenon DEF Render, GenerateRevision
    <3>2. Labelled(s, rev)
      BY <2>5, <2>6, Zenon DEF Labelled
    <3>3. revision[s] # NoRevision => Labelled(s, revision[s])
      BY <2>6, Zenon DEF LabelInv
    <3> QED
      BY <3>1, <3>2, <3>3, Zenon
  <2>7. ASSUME ~skewed, op'[s].kind = "reconcile", op'[s].pc = "deploying",
               NEW r \in host[s], r.commit = op'[s].rev.commit
        PROVE  r.sum = op'[s].rev.sum
    <3>1. op'[s].rev = rev /\ op[s].kind = "reconcile"
      BY <1>1, <2>3, <2>7, Zenon DEF Deployed
    <3>2. r.commit = tree
      BY <2>5, <2>7, <3>1
    <3>3. Labelled(s, r)
      BY <2>7, Zenon DEF LabelInv
    <3> QED
      BY <1>a, <3>1, <3>2, <3>3 DEF Labelled
  <2>8. LabelInv'
    <3> SUFFICES ASSUME ~skewed, NEW t \in Stacks
                 PROVE  /\ \A r \in host[t] : Labelled(t, r)
                        /\ revision'[t] # NoRevision => Labelled(t, revision'[t])
                        /\ op'[t].kind = "reconcile" /\ op'[t].pc = "deploying" =>
                             \A r \in host[t] : r.commit = op'[t].rev.commit
                                                  => r.sum = op'[t].rev.sum
      BY <2>1, Zenon DEF LabelInv, At, Labelled
    <3>1. CASE t = s
      BY <2>6, <2>7, <3>1, Zenon DEF LabelInv
    <3>2. CASE t # s
      BY <2>2, <3>2, Zenon DEF LabelInv, At
    <3> QED
      BY <3>1, <3>2, Zenon
  <2> QED
    BY <2>4, <2>8, Zenon
<1>10. ASSUME NEW s \in Stacks, DeploySucceeds(s) \/ PersistRollback(s)
       PROVE  HostInv' /\ LabelInv'
  <2>1. PICK pc \in {"persisting", "recording"} : MoveTo(s, pc)
    BY <1>10, Zenon DEF DeploySucceeds, PersistRollback
  <2> DEFINE o == [op[s] EXCEPT !.pc = pc]
  <2>2. o.pc = pc
    BY <1>0, Zenon DEF Operations
  <2>3. op[s].pc \in Deployed /\ UNCHANGED <<revision, skewed, tree>>
    BY <1>10, Zenon DEF DeploySucceeds, PersistRollback, At, Deployed
  <2>4. host' = [host EXCEPT ![s] = {revision[s]}]
    BY <1>0, <1>10, Zenon DEF DeploySucceeds, PersistRollback, HostInv, At
  <2> QED
    BY <2>1, <2>2, <2>3, <2>4, HostDeploy, Zenon DEF MoveTo
<1>11. ASSUME NEW s \in Stacks, RetryDeploy(s) PROVE HostInv' /\ LabelInv'
  <2> DEFINE o == [op[s] EXCEPT !.try = @ + 1]
  <2>1. op' = [op EXCEPT ![s] = o] /\ UNCHANGED <<revision, skewed, tree>>
    BY <1>11, Zenon DEF RetryDeploy
  <2>2. op[s].pc = "deploying" /\ op[s].pc \in Deployed
    BY <1>11, Zenon DEF RetryDeploy, AttemptFails, At, Deployed
  <2>3. o.pc = op[s].pc /\ o.rev = op[s].rev /\ o.kind = op[s].kind
    BY <1>0, Zenon DEF Operations
  <2>4. \E running \in SUBSET (host[s] \cup {revision[s]}) :
          host' = [host EXCEPT ![s] = running]
    BY <1>11, Zenon DEF RetryDeploy, AttemptFails
  <2> HIDE DEF o
  <2> QED
    BY <2>1, <2>2, <2>3, <2>4, HostDeploy, Zenon
<1>12. ASSUME NEW s \in Stacks, DeployFails(s) PROVE HostInv' /\ LabelInv'
  <2>1. op' = [op EXCEPT ![s] = Idle] /\ UNCHANGED <<revision, skewed, tree>>
    BY <1>12, Zenon DEF DeployFails, Return
  <2>2. op[s].pc \in Deployed
    BY <1>12, Zenon DEF DeployFails, AttemptFails, At, Deployed
  <2>3. \E running \in SUBSET (host[s] \cup {revision[s]}) :
          host' = [host EXCEPT ![s] = running]
    BY <1>12, Zenon DEF DeployFails, AttemptFails
  <2>4. Idle.pc \notin {"deploying", "persisting", "recording"}
    BY Zenon DEF Idle, Started
  <2> QED
    BY <2>1, <2>2, <2>3, <2>4, HostDeploy, Zenon
<1>13. ASSUME NEW s \in Stacks,
              RecordSuccess(s) \/ FetchFails(s) \/ WaitTimesOut(s) \/ RenderFails(s)
                \/ CutOff(s)
       PROVE  HostInv' /\ LabelInv'
  <2>1. op' = [op EXCEPT ![s] = Idle] /\ UNCHANGED <<revision, host, skewed, tree>>
    BY <1>13, Zenon DEF RecordSuccess, FetchFails, WaitTimesOut, RenderFails, CutOff,
                 markSecretError, Return
  <2>2. tree' \in Nat /\ tree <= tree'
    BY <1>a, <2>1
  <2> QED
    BY <1>1, <2>1, <2>2, HostUpdate, Zenon
<1>14. CASE Restart
  <2>0. /\ UNCHANGED <<revision, tree>> /\ (~skewed' => ~skewed)
        /\ \A s \in Stacks : op'[s] = Idle
        /\ \A s \in Stacks : host'[s] = host[s] \/ (At(s, "deploying") /\ host'[s] = {revision[s]})
    <3>1. PICK finished \in SUBSET {s \in Stacks : At(s, "deploying")} :
            host' = [s \in Stacks |-> IF s \in finished THEN {revision[s]} ELSE host[s]]
      BY <1>14, Zenon DEF Restart
    <3>2. /\ UNCHANGED <<revision, tree>> /\ (~skewed' => ~skewed)
          /\ op' = [s \in Stacks |-> Idle]
      BY <1>14, ZenonT(40) DEF Restart
    <3> QED
      BY <3>1, <3>2, Zenon
  <2>1. HostInv'
    BY <1>1, <2>0, Zenon DEF HostInv, Deployed
  <2>2. LabelInv'
    <3> SUFFICES ASSUME ~skewed, NEW s \in Stacks
                 PROVE  /\ \A r \in host'[s] : Labelled(s, r)
                        /\ revision[s] # NoRevision => Labelled(s, revision[s])
      BY <1>1, <2>0, Zenon DEF LabelInv, At, Labelled, Deployed
    <3>1. /\ \A r \in host[s] : Labelled(s, r)
          /\ revision[s] # NoRevision => Labelled(s, revision[s])
      BY Zenon DEF LabelInv
    <3>2. At(s, "deploying") => revision[s] # NoRevision
      BY ContentAssumption
         DEF At, TypeInv, Rendered, Deployed, Revisions, NoRevision
    <3> QED
      BY <2>0, <3>1, <3>2, Zenon
  <2> QED
    BY <2>1, <2>2, Zenon
<1>15. CASE Push \/ FetchTick \/ WorkerConnects \/ WorkerDisconnects
              \/ UNCHANGED vars
  <2>1. UNCHANGED <<op, revision, host, skewed>> /\ tree' \in Nat /\ tree <= tree'
    BY <1>a, <1>15 DEF Push, FetchTick, LockAndFetch, WorkerConnects, WorkerDisconnects,
                       vars
  <2> QED
    BY <1>3, <2>1, Zenon
<1> QED
  BY <1>4, <1>6, <1>7, <1>8, <1>9, <1>10, <1>11, <1>12, <1>13, <1>14, <1>15, Zenon
     DEF Next, Advance, Fail

\* Whenever the record of what is deployed moves, all containers of the stack
\* run what it names, whichever attempts, restarts and fetches came before
\* (RecordFollowsHost).
THEOREM RecordCorrect == Spec => RecordFollowsHost
<1> DEFINE Follows == \A s \in Stacks : deployed'[s] # deployed[s] /\ ~skewed =>
                        {r.sum : r \in host'[s]} = {deployed'[s].sum}
<1>1. TypeInv /\ HostInv /\ LabelInv /\ [Next]_vars => Follows
  <2> SUFFICES ASSUME TypeInv, HostInv, LabelInv, [Next]_vars, NEW s \in Stacks,
                      deployed'[s] # deployed[s], ~skewed
               PROVE  {r.sum : r \in host'[s]} = {deployed'[s].sum}
    BY Zenon
  <2>0. /\ deployed \in [Stacks -> Revisions \cup {NoRevision}]
        /\ host \in [Stacks -> SUBSET Revisions]
    BY Zenon DEF TypeInv, TypeOK
  <2>1. RecordSuccess(s) \/ (DeployFails(s) /\ deployed' # deployed)
    <3>1. ASSUME NEW t \in Stacks, RecordSuccess(t) \/ DeployFails(t) PROVE t = s
      BY <2>0, <3>1, Zenon DEF RecordSuccess, DeployFails
    <3>2. \E t \in Stacks : RecordSuccess(t) \/ DeployFails(t)
      BY ZenonT(40) DEF Next, vars, record, Operate, Advance, Fail, Push, FetchTick,
             WorkerConnects, WorkerDisconnects, Restart, CronTick, RunTriggered,
             TriggerSync, TogglePause, RollbackStack, ForceRedeployStack, FetchRepo,
             UseFetched, ResetTree, DecideOffline, QueuePendingReconcile,
             DecideOnline, Render, DeploySucceeds, PersistRollback, FetchFails,
             WaitTimesOut, RenderFails, RetryDeploy, CutOff
    <3> QED
      BY <3>1, <3>2, Zenon
  <2>2. CASE RecordSuccess(s)
    <3>1. host'[s] = {revision[s]} /\ deployed'[s] = op[s].rev
      BY <2>0, <2>2, Zenon DEF RecordSuccess, HostInv, At
    <3>2. revision[s].sum = op[s].rev.sum
      BY <2>2, Zenon DEF RecordSuccess, At, TypeInv, Rendered, Deployed
    <3> QED
      BY <3>1, <3>2, Zenon
  <2>3. CASE DeployFails(s) /\ deployed' # deployed
    <3>1. /\ Converges(s, host'[s]) /\ deployed'[s] = op[s].rev
          /\ op[s].kind = "reconcile" /\ At(s, "deploying")
      BY <2>0, <2>3, Zenon DEF DeployFails, AttemptFails
    <3>2. host'[s] \subseteq host[s] \cup {revision[s]}
      BY <2>0, <2>3, Zenon DEF DeployFails, AttemptFails
    <3>3. revision[s].sum = op[s].rev.sum
      BY <3>1, Zenon DEF At, TypeInv, Rendered, Deployed
    <3>4. \A r \in host[s] : r.commit = op[s].rev.commit => r.sum = op[s].rev.sum
      BY <3>1, Zenon DEF LabelInv
    <3>5. {r.commit : r \in host'[s]} = {op[s].rev.commit}
      BY <3>1, Zenon DEF Converges
    <3>6. \A r \in host'[s] : r.sum = op[s].rev.sum
      BY <3>2, <3>3, <3>4, <3>5, Zenon
    <3>7. \E r \in host'[s] : TRUE
      BY <3>5, Zenon
    <3> QED
      BY <3>1, <3>6, <3>7, Zenon
  <2> QED
    BY <2>1, <2>2, <2>3, Zenon
<1>2. Init => HostInv /\ LabelInv
  BY DEF Init, HostInv, LabelInv, At, Idle, Started
<1>3. Init => RepoInv
  BY DEF Init, RepoInv, RenderedIsRecorded, Idle, Started
<1> QED
  BY <1>1, <1>2, <1>3, HostStep, RepoStep, TypeInvariant, PTL DEF Spec, RecordFollowsHost

-----------------------------------------------------------------------------
(***************************************************************************)
(* The live deploy log: what a reader of the stream is shown, for any      *)
(* number of reconciles, lines and readings.                               *)
(***************************************************************************)

\* Lines of a command and words of a row.
Words == {"paused", "proceeded", "attempt", "final", "more"}
Texts == Seq(Nat \cup Words)
Events == [record : Records, output : Texts, status : LogStatuses \ {"none"}]
Buffers == [output : Texts, last : 0 .. MaxLines]
Stored == [status : LogStatuses, output : Texts]

\* What a record says now, and whether it has only grown so far.
Text(k) == IF k[1] = "row" THEN logs[k[2]].output ELSE buffers[k[2]].output
Whole(k) == IF k[1] = "row" THEN k[2] \notin rewritten ELSE k[2] \notin swept

\* The types: the rows, the live buffers, the events under way and the readers.
LogTypes ==
  /\ workload \in Workloads
  /\ logs \in [LogRows -> Stored]
  /\ rewritten \subseteq LogRows /\ swept \subseteq LogRows
  /\ saved = NoEvent \/ saved \in Events
  /\ buffers \in [LogRows -> Buffers]
  /\ \A r \in LogRows : Len(buffers[r].output) <= LiveMax /\ (buffers[r].last = 0 => buffers[r].output = <<>>)
  /\ line \in [LogRows -> [LineNos -> {"unsent", "started", "appended", "done"}]]
  /\ carried \in [LogRows -> [LineNos -> Texts]]
  /\ feed \in {"off", "subscribed", "draining", "following", "gone"}
  /\ inbox \in Seq(Events) /\ Len(inbox) <= FeedBuffer
  /\ lastLen \in [Records -> Nat]
  /\ lastStatus \in [Records -> LogStatuses]
  /\ shown \in [Records -> Texts]
  /\ waiter \in {"opening", "waiting", "done"}
  /\ prior \in 0 .. MaxLogs
  /\ frame \in [row : 0 .. MaxLogs, status : LogStatuses]
  /\ outcome \in [row : 0 .. MaxLogs, status : LogStatuses, completed : BOOLEAN]

\* An event tells a beginning of its record, and an end only of a reconcile that
\* has ended so.
Honest(ev) ==
  /\ Whole(ev.record) => IsPrefix(ev.output, Text(ev.record))
  /\ ev.status \in TerminalStatuses =>
       ev.record[1] = "row" /\ logs[ev.record[2]].status = ev.status

\* All that is under way is honest: the save the hook has not published yet, the
\* events in the channel, and the text a line carries.
NewsInv ==
  /\ saved # NoEvent => Honest(saved)
  /\ \A i \in 1 .. Len(inbox) : Honest(inbox[i])
  /\ \A r \in LogRows, n \in LineNos : r \notin swept => IsPrefix(carried[r][n], buffers[r].output)

\* What was sent is counted exactly.
ShownInv ==
  \A k \in Records : /\ lastLen[k] = Len(shown[k])
                     /\ Whole(k) => IsPrefix(shown[k], Text(k))

\* The reconciles come one after the other.
OrderInv ==
  /\ \E k \in 0 .. MaxLogs : \A r \in LogRows : logs[r].status # "none" <=> r <= k
  /\ prior # 0 => logs[prior].status # "none"

\* A wait that read the end of a reconcile read how the row it names has ended.
FrameInv ==
  /\ frame.status \in TerminalStatuses =>
       frame.row \in LogRows /\ logs[frame.row].status = frame.status
  /\ outcome.completed =>
       /\ outcome.status \in TerminalStatuses /\ outcome.row \in LogRows
       /\ logs[outcome.row].status = outcome.status

\* The inductive invariant.
LogInv == LogTypes /\ NewsInv /\ ShownInv /\ OrderInv /\ FrameInv

-----------------------------------------------------------------------------
\* Beginnings of texts, element by element.
LEMMA PrefixElements ==
  ASSUME NEW s \in Texts, NEW t \in Texts
  PROVE  IsPrefix(s, t) <=> Len(s) <= Len(t) /\ \A i \in 1 .. Len(s) : s[i] = t[i]
<1>1. Len(s) \in Nat /\ Len(t) \in Nat
  BY DEF Texts
<1>2. CASE Len(s) <= Len(t)
  <2>1. s = [i \in 1 .. Len(s) |-> s[i]]
    BY <1>1, SMT DEF Texts
  <2>2. SubSeq(t, 1, Len(s)) = [i \in 1 .. Len(s) |-> t[i]]
    BY <1>1, <1>2, SMT DEF Texts
  <2> QED BY <1>2, <2>1, <2>2, SMT DEF IsPrefix
<1>3. CASE ~(Len(s) <= Len(t))
  BY <1>3, Zenon DEF IsPrefix
<1> QED BY <1>2, <1>3, Zenon

\* A text begins with itself and with nothing.
LEMMA PrefixSelf ==
  ASSUME NEW s \in Texts PROVE IsPrefix(s, s) /\ IsPrefix(<<>>, s) /\ <<>> \in Texts
<1>1. <<>> \in Texts /\ Len(<<>>) = 0 /\ Len(s) \in Nat
  BY SMT DEF Texts
<1>2. IsPrefix(s, s)
  BY <1>1, PrefixElements, SMT
<1>3. IsPrefix(<<>>, s)
  BY <1>1, PrefixElements, SMT
<1> QED BY <1>1, <1>2, <1>3, Zenon

\* A beginning of a beginning is one.
LEMMA PrefixTrans ==
  ASSUME NEW s \in Texts, NEW t \in Texts, NEW u \in Texts, IsPrefix(s, t), IsPrefix(t, u)
  PROVE  IsPrefix(s, u)
<1>1. Len(s) \in Nat /\ Len(t) \in Nat /\ Len(u) \in Nat
  BY DEF Texts
<1>2. Len(s) <= Len(t) /\ \A i \in 1 .. Len(s) : s[i] = t[i]
  BY PrefixElements, Zenon
<1>3. Len(t) <= Len(u) /\ \A i \in 1 .. Len(t) : t[i] = u[i]
  BY PrefixElements, Zenon
<1>4. Len(s) <= Len(u) /\ \A i \in 1 .. Len(s) : s[i] = u[i]
  BY <1>1, <1>2, <1>3, SMT
<1> QED BY <1>4, PrefixElements, Zenon

\* A line more.
LEMMA PrefixAppend ==
  ASSUME NEW s \in Texts, NEW n \in Nat
  PROVE  Append(s, n) \in Texts /\ IsPrefix(s, Append(s, n)) /\ Len(Append(s, n)) = Len(s) + 1
<1>1. Append(s, n) \in Texts /\ Len(Append(s, n)) = Len(s) + 1 /\ Len(s) \in Nat
  BY SMT DEF Texts
<1>2. \A i \in 1 .. Len(s) : Append(s, n)[i] = s[i]
  BY <1>1, SMT DEF Texts
<1>3. Len(s) <= Len(Append(s, n))
  BY <1>1, SMT
<1> QED BY <1>1, <1>2, <1>3, PrefixElements, Zenon

\* apply sends what is longer than the beginning already sent: the client then
\* has as much as the event, and if both began the same text, the same.
LEMMA PrefixExtended ==
  ASSUME NEW s \in Texts, NEW o \in Texts, Len(o) > Len(s)
  PROVE  LET all == s \o SubSeq(o, Len(s) + 1, Len(o)) IN
         /\ all \in Texts /\ Len(all) = Len(o)
         /\ \A t \in Texts : IsPrefix(s, t) /\ IsPrefix(o, t) => IsPrefix(all, t)
<1> DEFINE more == SubSeq(o, Len(s) + 1, Len(o))
           all == s \o more
<1>1. Len(s) \in Nat /\ Len(o) \in Nat
  BY DEF Texts
<1>2. more \in Texts /\ Len(more) = Len(o) - Len(s)
  BY <1>1, SMT DEF Texts
<1>3. \A i \in 1 .. Len(more) : more[i] = o[Len(s) + i]
  BY <1>1, SMT DEF Texts
<1> HIDE DEF more
<1>4. all \in Texts /\ Len(all) = Len(o)
  BY <1>1, <1>2, SMT DEF Texts
<1>5. \A i \in 1 .. Len(o) : all[i] = IF i <= Len(s) THEN s[i] ELSE more[i - Len(s)]
  BY <1>1, <1>2, SMT DEF Texts
<1> HIDE DEF all
<1>6. ASSUME NEW t \in Texts, IsPrefix(s, t), IsPrefix(o, t) PROVE IsPrefix(all, t)
  <2>1. \A i \in 1 .. Len(s) : s[i] = t[i]
    BY <1>6, PrefixElements, Zenon
  <2>2. Len(o) <= Len(t) /\ \A i \in 1 .. Len(o) : o[i] = t[i]
    BY <1>6, PrefixElements, Zenon
  <2>3. \A i \in 1 .. Len(o) : all[i] = t[i]
    <3> SUFFICES ASSUME NEW i \in 1 .. Len(o) PROVE all[i] = t[i]
      BY Zenon
    <3>1. CASE i <= Len(s)
      BY <3>1, <1>1, <1>5, <2>1, SMT
    <3>2. CASE ~(i <= Len(s))
      BY <3>2, <1>1, <1>2, <1>3, <1>5, <2>2, SMT
    <3> QED BY <3>1, <3>2, Zenon
  <2> QED BY <1>4, <2>2, <2>3, PrefixElements, SMT
<1> QED BY <1>4, <1>6, Zenon DEF all, more

\* The records and their parts.
LEMMA RecordParts ==
  /\ \A k \in Records : k[1] \in {"row", "live"} /\ k[2] \in LogRows /\ k = <<k[1], k[2]>>
  /\ \A r \in LogRows : /\ <<"row", r>> \in Records /\ <<"row", r>>[1] = "row" /\ <<"row", r>>[2] = r
                        /\ <<"live", r>> \in Records /\ <<"live", r>>[1] = "live" /\ <<"live", r>>[2] = r
BY SMT DEF Records

-----------------------------------------------------------------------------
\* A step after which records are no less than they were, and what has ended is
\* as it was.
Grown ==
  /\ \A k \in Records : Whole(k)' => Whole(k) /\ IsPrefix(Text(k), Text(k)')
  /\ \A r \in LogRows : /\ logs[r].status \in TerminalStatuses => logs'[r].status = logs[r].status
                        /\ logs[r].status # "none" => logs'[r].status # "none"

\* The text of a record.
LEMMA TextTyped ==
  ASSUME LogTypes, NEW k \in Records PROVE Text(k) \in Texts
BY RecordParts, Zenon DEF LogTypes, Text, Stored, Buffers

\* The same, after a step.
LEMMA TextTypedNext ==
  ASSUME LogTypes', NEW k \in Records PROVE Text(k)' \in Texts
BY RecordParts, Zenon DEF LogTypes, Text, Stored, Buffers

\* Nobody wrote.
LEMMA GrownStill ==
  ASSUME LogTypes, UNCHANGED <<logs, rewritten, buffers, swept>> PROVE Grown
<1>1. \A k \in Records : (Whole(k)' <=> Whole(k)) /\ Text(k)' = Text(k)
  BY Zenon DEF Whole, Text
<1>2. \A k \in Records : IsPrefix(Text(k), Text(k))
  BY TextTyped, PrefixSelf, Zenon
<1>3. \A k \in Records : IsPrefix(Text(k), Text(k)')
  BY <1>1, <1>2, Zenon
<1> QED BY <1>1, <1>3, Zenon DEF Grown

\* An event that was honest is so after the texts have grown.
LEMMA HonestStays ==
  ASSUME LogTypes, LogTypes', Grown, NEW ev \in Events, Honest(ev) PROVE Honest(ev)'
<1>1. ev.record \in Records /\ ev.output \in Texts /\ ev.record[2] \in LogRows
  BY RecordParts, Zenon DEF Events
<1>2. Text(ev.record) \in Texts /\ Text(ev.record)' \in Texts
  BY <1>1, TextTyped, TextTypedNext, Zenon
<1>3. Whole(ev.record)' => IsPrefix(ev.output, Text(ev.record)')
  BY <1>1, <1>2, PrefixTrans, Zenon DEF Grown, Honest
<1> QED BY <1>1, <1>3, Zenon DEF Honest, Grown

\* What is under way stays honest when the texts grow, and so does what is new.
LEMMA NewsStay ==
  ASSUME LogTypes, LogTypes', Grown, NewsInv,
         saved' # NoEvent => saved' = saved \/ Honest(saved)',
         \A i \in 1 .. Len(inbox') : \/ \E j \in 1 .. Len(inbox) : inbox'[i] = inbox[j]
                                    \/ \E ev \in Events : inbox'[i] = ev /\ Honest(ev),
         \A r \in LogRows, n \in LineNos :
           r \notin swept' => IsPrefix(carried'[r][n], buffers'[r].output)
  PROVE  NewsInv'
<1>1. saved' # NoEvent => Honest(saved)'
  BY HonestStays, Zenon DEF NewsInv, LogTypes
<1>2. ASSUME NEW i \in 1 .. Len(inbox') PROVE Honest(inbox[i])'
  <2>1. \A j \in 1 .. Len(inbox) : inbox[j] \in Events /\ Honest(inbox[j])
    BY SMT DEF LogTypes, NewsInv
  <2>2. PICK ev \in Events : inbox'[i] = ev /\ Honest(ev)
    BY <2>1, Zenon
  <2> QED BY <2>2, HonestStays, Zenon
<1> QED BY <1>1, <1>2, Zenon DEF NewsInv

\* What the client has, when nothing was sent.
LEMMA ShownStays ==
  ASSUME LogTypes, LogTypes', Grown, ShownInv, UNCHANGED <<lastLen, shown>> PROVE ShownInv'
<1> SUFFICES ASSUME NEW k \in Records
             PROVE  lastLen'[k] = Len(shown'[k]) /\ (Whole(k)' => IsPrefix(shown'[k], Text(k)'))
  BY Zenon DEF ShownInv
<1>1. shown[k] \in Texts /\ Text(k) \in Texts /\ Text(k)' \in Texts
  BY TextTyped, TextTypedNext, Zenon DEF LogTypes
<1>2. lastLen'[k] = Len(shown'[k]) /\ shown'[k] = shown[k]
  BY Zenon DEF ShownInv
<1>3. Whole(k)' => IsPrefix(shown[k], Text(k)')
  BY <1>1, PrefixTrans, Zenon DEF Grown, ShownInv
<1> QED BY <1>2, <1>3, Zenon

\* What the waiter has, when it read and returned nothing.
LEMMA FrameStays ==
  ASSUME Grown, FrameInv, UNCHANGED <<frame, outcome>> PROVE FrameInv'
BY Zenon DEF FrameInv, Grown

\* The order of the reconciles, when none was saved.
LEMMA OrderStays ==
  ASSUME OrderInv, UNCHANGED <<logs, prior>> PROVE OrderInv'
BY Zenon DEF OrderInv

\* Publish adds the event to the channel, or drops it.
LEMMA Published ==
  ASSUME LogTypes, NEW ev \in Events, PublishLog(ev)
  PROVE  /\ inbox' \in Seq(Events) /\ Len(inbox') <= FeedBuffer
         /\ \A i \in 1 .. Len(inbox') :
              (\E j \in 1 .. Len(inbox) : inbox'[i] = inbox[j]) \/ inbox'[i] = ev
<1>1. inbox \in Seq(Events) /\ Len(inbox) \in Nat /\ Len(inbox) <= FeedBuffer /\ FeedBuffer \in Nat
  BY LogStreamAssumption, SMT DEF LogTypes
<1>2. CASE inbox' = inbox
  BY <1>1, <1>2, Zenon
<1>3. CASE inbox' = Append(inbox, ev) /\ Len(inbox) < FeedBuffer
  <2>1. inbox' \in Seq(Events) /\ Len(inbox') = Len(inbox) + 1 /\ inbox'[Len(inbox) + 1] = ev
    BY <1>1, <1>3, SMT
  <2>2. \A i \in 1 .. Len(inbox) : inbox'[i] = inbox[i]
    BY <1>1, <1>3, SMT
  <2> QED BY <1>1, <1>3, <2>1, <2>2, SMT
<1> QED BY <1>2, <1>3, Zenon DEF PublishLog

\* A channel as it was, or with the oldest event taken, has no other events.
LEMMA NoNews ==
  ASSUME LogTypes, inbox' = inbox
  PROVE  \A i \in 1 .. Len(inbox') : \E j \in 1 .. Len(inbox) : inbox'[i] = inbox[j]
BY Zenon

\* A line arrives.
LEMMA SendLineStep ==
  ASSUME LogInv, NEW r \in LogRows, NEW n \in LineNos, SendLine(r, n), workload' = workload PROVE LogInv'
<1>1. UNCHANGED <<buffers, swept, carried, logs, rewritten, saved, feed, lastLen, lastStatus, shown, inbox,
                  waiter, prior, frame, outcome>>
  BY Zenon DEF SendLine, writerVars, feedVars, waitVars
<1>2. line' \in [LogRows -> [LineNos -> {"unsent", "started", "appended", "done"}]]
  BY Zenon DEF SendLine, LogInv, LogTypes
<1>3. LogTypes'
  BY <1>1, <1>2, Zenon DEF LogInv, LogTypes
<1>4. Grown
  BY <1>1, GrownStill, Zenon DEF LogInv
<1>5. NewsInv'
  BY <1>1, <1>3, <1>4, NewsStay, NoNews, Zenon DEF LogInv, NewsInv
<1> QED BY <1>1, <1>3, <1>4, <1>5, ShownStays, FrameStays, OrderStays, Zenon DEF LogInv

\* The publication of a line: its event tells what the buffer had, or less.
LEMMA PublishLineStep ==
  ASSUME LogInv, NEW r \in LogRows, NEW n \in LineNos, PublishLine(r, n), workload' = workload PROVE LogInv'
<1> DEFINE ev == [record |-> <<"live", r>>, output |-> carried[r][n], status |-> "running"]
<1>1. UNCHANGED <<buffers, swept, logs, rewritten, saved, feed, lastLen, lastStatus, shown,
                  waiter, prior, frame, outcome>>
  BY Zenon DEF PublishLine, writerVars, feedVars, waitVars
<1>2. PICK e \in Events : /\ e.record = <<"live", r>> /\ e.output = carried[r][n] /\ e.status = "running"
                         /\ PublishLog(e)
  <2>1. carried[r][n] \in Texts /\ "running" \in LogStatuses \ {"none"} /\ <<"live", r>> \in Records
    <3>1. carried[r][n] \in Texts
      BY SMT DEF LogInv, LogTypes
    <3>2. "running" \in LogStatuses \ {"none"}
      BY Zenon DEF LogStatuses
    <3> QED BY <3>1, <3>2, RecordParts, Zenon
  <2>2. ev \in Events /\ ev.record = <<"live", r>> /\ ev.output = carried[r][n] /\ ev.status = "running"
    BY <2>1, Zenon DEF Events
  <2> QED BY <2>2, Zenon DEF PublishLine
<1>4. line' \in [LogRows -> [LineNos -> {"unsent", "started", "appended", "done"}]]
  BY Zenon DEF PublishLine, LogInv, LogTypes
<1>5. /\ carried' \in [LogRows -> [LineNos -> Texts]]
      /\ \A q \in LogRows, m \in LineNos : carried'[q][m] = carried[q][m] \/ carried'[q][m] = <<>>
  <2>1. carried' = [carried EXCEPT ![r][n] = <<>>] /\ carried \in [LogRows -> [LineNos -> Texts]]
        /\ <<>> \in Texts
    BY SMT DEF PublishLine, LogInv, LogTypes, Texts
  <2> QED BY <2>1, Zenon
<1>6. inbox' \in Seq(Events) /\ Len(inbox') <= FeedBuffer
  BY <1>2, Published, Zenon DEF LogInv
<1>7. LogTypes'
  BY <1>1, <1>4, <1>5, <1>6, Zenon DEF LogInv, LogTypes
<1>8. Grown
  BY <1>1, GrownStill, Zenon DEF LogInv
<1>9. Honest(e)
  <2>1. e.record[1] = "live" /\ e.record[2] = r
    BY <1>2, RecordParts, Zenon
  <2>2. Text(e.record) = buffers[r].output /\ (Whole(e.record) <=> r \notin swept)
    BY <2>1, Zenon DEF Text, Whole
  <2>3. r \notin swept => IsPrefix(carried[r][n], buffers[r].output)
    BY Zenon DEF LogInv, NewsInv
  <2> QED BY <1>2, <2>2, <2>3, Zenon DEF Honest, TerminalStatuses
<1>10. \A q \in LogRows, m \in LineNos : q \notin swept' => IsPrefix(carried'[q][m], buffers'[q].output)
  <2> SUFFICES ASSUME NEW q \in LogRows, NEW m \in LineNos, q \notin swept
               PROVE  IsPrefix(carried'[q][m], buffers[q].output)
    BY <1>1, Zenon
  <2>1. IsPrefix(carried[q][m], buffers[q].output) /\ buffers[q].output \in Texts
    BY Zenon DEF LogInv, NewsInv, LogTypes, Buffers
  <2> QED BY <1>5, <2>1, PrefixSelf, Zenon
<1>11. NewsInv'
  <2>1. \A i \in 1 .. Len(inbox') : (\E j \in 1 .. Len(inbox) : inbox'[i] = inbox[j]) \/ inbox'[i] = e
    BY <1>2, Published, Zenon DEF LogInv
  <2> QED BY <1>1, <1>7, <1>8, <1>9, <1>10, <2>1, NewsStay, Zenon DEF LogInv
<1> QED BY <1>1, <1>7, <1>8, <1>11, ShownStays, FrameStays, OrderStays, Zenon DEF LogInv

\* PublishLine under liveMu: the buffer grows, and only an evicted one shrinks.
LEMMA AppendLineStep ==
  ASSUME LogInv, NEW r \in LogRows, NEW n \in LineNos, NEW stale \in SUBSET (LogRows \ {r}),
         AppendLine(r, n, stale), workload' = workload
  PROVE  LogInv'
<1> DEFINE fresh == n > buffers[r].last
           text == IF fresh /\ Len(buffers[r].output) < LiveMax
                   THEN Append(buffers[r].output, n) ELSE buffers[r].output
           last == IF fresh THEN n ELSE buffers[r].last
<1>1. UNCHANGED <<logs, rewritten, saved, feed, inbox, lastLen, lastStatus, shown, waiter, prior, frame, outcome>>
  BY Zenon DEF AppendLine, writerVars, feedVars, waitVars
<1>2. /\ buffers \in [LogRows -> Buffers] /\ buffers[r].output \in Texts /\ buffers[r].last \in 0 .. MaxLines
      /\ Len(buffers[r].output) <= LiveMax /\ Len(buffers[r].output) \in Nat
      /\ n \in Nat /\ n > 0 /\ n \in 0 .. MaxLines /\ LiveMax \in Nat /\ MaxLines \in Nat
  BY LogStreamAssumption, SMT DEF LogInv, LogTypes, Buffers, Texts, LineNos
<1>3. text \in Texts /\ IsPrefix(buffers[r].output, text)
  BY <1>2, PrefixAppend, PrefixSelf, Zenon
<1>4. Len(text) <= LiveMax
  <2>1. Len(Append(buffers[r].output, n)) = Len(buffers[r].output) + 1
    BY <1>2, PrefixAppend, Zenon
  <2> QED BY <1>2, <2>1, SMT
<1>5. last \in 0 .. MaxLines /\ last # 0
  BY <1>2, SMT
<1>6. /\ buffers' = [c \in LogRows |->
           CASE c = r -> [output |-> text, last |-> last]
             [] c \in stale -> [output |-> <<>>, last |-> 0]
             [] OTHER -> buffers[c]]
      /\ swept' = swept \cup {c \in stale : buffers[c].last > 0}
      /\ carried' = [carried EXCEPT ![r][n] = text] /\ r \notin stale
      /\ line' = [line EXCEPT ![r][n] = "appended"]
  BY Zenon DEF AppendLine
<1> HIDE DEF text, last
<1>7. [output |-> text, last |-> last] \in Buffers /\ [output |-> <<>>, last |-> 0] \in Buffers
      /\ Len(<<>>) = 0 /\ <<>> \in Texts
  BY <1>2, <1>3, <1>5, SMT DEF Buffers, Texts
<1>8. buffers'[r] \in Buffers /\ buffers'[r].output = text /\ buffers'[r].last = last
  <2>1. buffers'[r] = [output |-> text, last |-> last]
    BY <1>6, Zenon
  <2> QED BY <2>1, <1>7, SMT
<1>9. ASSUME NEW c \in LogRows, c # r
      PROVE  \/ buffers'[c] = buffers[c]
             \/ c \in stale /\ buffers'[c] \in Buffers /\ buffers'[c].output = <<>> /\ buffers'[c].last = 0
  <2>1. buffers'[c] = buffers[c] \/ (c \in stale /\ buffers'[c] = [output |-> <<>>, last |-> 0])
    BY <1>6, <1>9, Zenon
  <2> QED BY <2>1, <1>7, SMT
<1>10. \A c \in LogRows : /\ buffers'[c] \in Buffers /\ Len(buffers'[c].output) <= LiveMax
                          /\ buffers'[c].last = 0 => buffers'[c].output = <<>>
  <2> SUFFICES ASSUME NEW c \in LogRows
               PROVE  /\ buffers'[c] \in Buffers /\ Len(buffers'[c].output) <= LiveMax
                      /\ buffers'[c].last = 0 => buffers'[c].output = <<>>
    BY Zenon
  <2>1. CASE c = r
    BY <2>1, <1>4, <1>5, <1>8, Zenon
  <2>2. CASE c # r /\ buffers'[c] = buffers[c]
    BY <2>2, Zenon DEF LogInv, LogTypes
  <2>3. CASE buffers'[c] \in Buffers /\ buffers'[c].output = <<>>
    <3>1. 0 <= LiveMax
      BY <1>2, SMT
    <3> QED BY <2>3, <3>1, <1>7, Zenon
  <2> QED BY <1>9, <2>1, <2>2, <2>3, Zenon
<1>11. buffers' \in [LogRows -> Buffers]
  BY <1>6, <1>10, Zenon
<1>12. swept' \subseteq LogRows
  BY <1>6, Zenon DEF LogInv, LogTypes
<1>13. line' \in [LogRows -> [LineNos -> {"unsent", "started", "appended", "done"}]]
  BY <1>6, Zenon DEF LogInv, LogTypes
<1>14. carried' \in [LogRows -> [LineNos -> Texts]]
  BY <1>3, <1>6, Zenon DEF LogInv, LogTypes
<1>15. LogTypes'
  BY <1>1, <1>10, <1>11, <1>12, <1>13, <1>14, Zenon DEF LogInv, LogTypes
<1>16. ASSUME NEW c \in LogRows, c \notin swept'
       PROVE  c \notin swept /\ IsPrefix(buffers[c].output, buffers'[c].output)
  <2>1. c \notin swept /\ buffers[c].output \in Texts
    BY <1>6, <1>16, Zenon DEF LogInv, LogTypes, Buffers
  <2>2. CASE c = r
    BY <2>1, <2>2, <1>3, <1>8, Zenon
  <2>3. CASE buffers'[c] = buffers[c]
    BY <2>1, <2>3, PrefixSelf, Zenon
  <2>4. CASE c \in stale /\ buffers'[c].output = <<>>
    <3>1. ~(buffers[c].last > 0) /\ buffers[c].last \in Nat
      BY <1>6, <1>16, <2>4, SMT DEF LogInv, LogTypes, Buffers
    <3>2. buffers[c].last = 0
      BY <3>1, SMT
    <3>3. buffers[c].output = <<>> /\ buffers'[c].output = <<>>
      BY <3>2, <2>4, Zenon DEF LogInv, LogTypes
    <3> QED BY <2>1, <3>3, PrefixSelf, Zenon
  <2> QED BY <1>9, <2>1, <2>2, <2>3, <2>4, Zenon
<1>17. Grown
  <2>1. \A k \in Records : k[1] # "row" => (Whole(k)' => Whole(k) /\ IsPrefix(Text(k), Text(k)'))
    BY <1>16, RecordParts, Zenon DEF Whole, Text
  <2>2. ASSUME NEW k \in Records, k[1] = "row" PROVE Whole(k)' => Whole(k) /\ IsPrefix(Text(k), Text(k)')
    <3>1. Text(k)' = Text(k) /\ (Whole(k)' <=> Whole(k))
      BY <1>1, <2>2, Zenon DEF Whole, Text
    <3> QED BY <3>1, TextTyped, PrefixSelf, Zenon DEF LogInv
  <2> QED BY <1>1, <2>1, <2>2, Zenon DEF Grown
<1>18. \A q \in LogRows, m \in LineNos : q \notin swept' => IsPrefix(carried'[q][m], buffers'[q].output)
  <2> SUFFICES ASSUME NEW q \in LogRows, NEW m \in LineNos, q \notin swept'
               PROVE  IsPrefix(carried'[q][m], buffers'[q].output)
    BY Zenon
  <2>1. CASE q = r /\ m = n
    <3>1. carried'[q][m] = text
      BY <2>1, <1>6, SMT DEF LogInv, LogTypes
    <3> QED BY <2>1, <3>1, <1>3, <1>8, PrefixSelf, Zenon
  <2>2. CASE ~(q = r /\ m = n)
    <3>1. carried'[q][m] = carried[q][m] /\ carried[q][m] \in Texts
      BY <2>2, <1>6, SMT DEF LogInv, LogTypes
    <3>2. IsPrefix(carried[q][m], buffers[q].output) /\ IsPrefix(buffers[q].output, buffers'[q].output)
      BY <1>16, Zenon DEF LogInv, NewsInv
    <3>3. buffers[q].output \in Texts /\ buffers'[q].output \in Texts
      BY <1>10, Zenon DEF LogInv, LogTypes, Buffers
    <3> QED BY <3>1, <3>2, <3>3, PrefixTrans, Zenon
  <2> QED BY <2>1, <2>2, Zenon
<1>19. NewsInv'
  BY <1>1, <1>15, <1>17, <1>18, NewsStay, NoNews, Zenon DEF LogInv
<1> QED BY <1>1, <1>15, <1>17, <1>19, ShownStays, FrameStays, OrderStays, Zenon DEF LogInv

\* A save of the reconciler: the row was not at its end, and the first save of a
\* row comes after all before it.
LEMMA SaveStep ==
  ASSUME LogInv, NEW r \in LogRows, NEW st \in LogStatuses \ {"none"}, NEW output \in Texts,
         SaveLog(r, st, output), logs[r].status \notin TerminalStatuses,
         logs[r].status = "none" => \A q \in 1 .. r - 1 : logs[q].status # "none",
         workload' = workload
  PROVE  LogInv'
<1>1. UNCHANGED <<buffers, swept, line, carried, feed, lastLen, lastStatus, shown, inbox, waiter, prior, frame, outcome>>
  BY Zenon DEF SaveLog, liveVars, feedVars, waitVars
<1>2. /\ logs' = [logs EXCEPT ![r] = [status |-> st, output |-> output]]
      /\ rewritten' = IF IsPrefix(logs[r].output, output) THEN rewritten ELSE rewritten \cup {r}
      /\ saved' = [record |-> <<"row", r>>, output |-> output, status |-> st]
      /\ logs \in [LogRows -> Stored] /\ rewritten \subseteq LogRows
  BY Zenon DEF SaveLog, LogInv, LogTypes
<1>3. [status |-> st, output |-> output] \in Stored
  BY Zenon DEF Stored
<1>4. logs' \in [LogRows -> Stored] /\ \A q \in LogRows \ {r} : logs'[q] = logs[q]
  BY <1>2, <1>3, Zenon
<1>5. logs'[r].status = st /\ logs'[r].output = output
  BY <1>2, SMT
<1>6. saved' \in Events /\ saved'.record = <<"row", r>> /\ saved'.output = output /\ saved'.status = st
  <2>1. <<"row", r>> \in Records
    BY RecordParts, Zenon
  <2>2. [record |-> <<"row", r>>, output |-> output, status |-> st] \in Events
    BY <2>1, Zenon DEF Events
  <2> QED BY <1>2, <2>2, Zenon
<1>7. rewritten' \subseteq LogRows /\ rewritten \subseteq rewritten'
      /\ (r \notin rewritten' => IsPrefix(logs[r].output, output))
  BY <1>2, Zenon
<1>8. LogTypes'
  BY <1>1, <1>4, <1>6, <1>7, Zenon DEF LogInv, LogTypes
<1>9. Grown
  <2>1. ASSUME NEW k \in Records PROVE Whole(k)' => Whole(k) /\ IsPrefix(Text(k), Text(k)')
    <3>1. CASE k[1] = "row" /\ k[2] = r
      BY <3>1, <1>5, <1>7, Zenon DEF Whole, Text
    <3>2. CASE ~(k[1] = "row" /\ k[2] = r)
      <4>1. Text(k)' = Text(k)
        BY <3>2, <1>1, <1>4, RecordParts, Zenon DEF Text
      <4>2. Whole(k)' => Whole(k)
        BY <1>1, <1>7, Zenon DEF Whole
      <4> QED BY <4>1, <4>2, TextTyped, PrefixSelf, Zenon DEF LogInv
    <3> QED BY <3>1, <3>2, Zenon
  <2>2. ASSUME NEW q \in LogRows
        PROVE  /\ logs[q].status \in TerminalStatuses => logs'[q].status = logs[q].status
               /\ logs[q].status # "none" => logs'[q].status # "none"
    BY <1>4, <1>5, Zenon
  <2> QED BY <2>1, <2>2, Zenon DEF Grown
<1>10. Honest(saved)'
  <2>1. saved'.record[1] = "row" /\ saved'.record[2] = r
    BY <1>6, SMT
  <2>2. IsPrefix(output, output)
    BY PrefixSelf, Zenon
  <2> QED BY <1>5, <1>6, <2>1, <2>2, Zenon DEF Honest, Text
<1>11. NewsInv'
  BY <1>1, <1>8, <1>9, <1>10, NewsStay, NoNews, Zenon DEF LogInv, NewsInv
<1>12. OrderInv'
  <2>1. PICK k \in 0 .. MaxLogs : \A q \in LogRows : logs[q].status # "none" <=> q <= k
    BY Zenon DEF LogInv, OrderInv
  <2>2. \E m \in 0 .. MaxLogs : \A q \in LogRows : logs'[q].status # "none" <=> q <= m
    <3>1. CASE logs[r].status # "none"
      BY <3>1, <2>1, <1>4, <1>5, Zenon
    <3>2. CASE logs[r].status = "none"
      <4>1. r = k + 1
        <5>1. r \in Nat /\ r > 0 /\ k \in Nat /\ ~(r <= k)
          BY <2>1, <3>2, LogStreamAssumption, SMT DEF LogRows
        <5>2. r > 1 => r - 1 \in LogRows /\ logs[r - 1].status # "none"
          BY <3>2, <5>1, LogStreamAssumption, SMT DEF LogRows
        <5>3. r > 1 => r - 1 <= k
          BY <2>1, <5>2, Zenon
        <5> QED BY <5>1, <5>3, SMT
      <4>2. \A q \in LogRows : q <= r <=> q = r \/ q <= k
        BY <4>1, LogStreamAssumption, SMT DEF LogRows
      <4>3. r \in 0 .. MaxLogs
        BY LogStreamAssumption, SMT DEF LogRows
      <4>4. \A q \in LogRows : logs'[q].status # "none" <=> q <= r
        BY <2>1, <4>2, <1>4, <1>5, Zenon
      <4> QED BY <4>3, <4>4, Zenon
    <3> QED BY <3>1, <3>2, Zenon
  <2>3. prior # 0 => logs'[prior].status # "none"
    <3>1. prior # 0 => prior \in LogRows /\ logs[prior].status # "none"
      BY LogStreamAssumption, SMT DEF LogInv, LogTypes, OrderInv, LogRows
    <3> QED BY <3>1, <1>9, Zenon DEF Grown
  <2> QED BY <1>1, <2>2, <2>3, Zenon DEF OrderInv
<1> QED BY <1>1, <1>8, <1>9, <1>11, <1>12, ShownStays, FrameStays, Zenon DEF LogInv

\* Each save of the reconciler is one.
LEMMA ReconcilerStep ==
  ASSUME LogInv, NEW r \in LogRows, workload' = workload,
         \/ CreateLog(r) \/ WaitForJobs(r) \/ ProceedAfterJobs(r) \/ LogAttempt(r)
         \/ \E st \in TerminalStatuses : FinishLog(r, st)
  PROVE  LogInv'
<1>1. /\ <<>> \in Texts /\ <<"paused">> \in Texts /\ <<"proceeded">> \in Texts /\ <<"attempt">> \in Texts
      /\ <<"final", "more">> \in Texts
  <2>1. {"paused", "proceeded", "attempt", "final", "more"} \subseteq Nat \cup Words
    BY Zenon DEF Words
  <2>2. \A a, b \in Nat \cup Words : <<a>> \in Seq(Nat \cup Words) /\ <<a, b>> \in Seq(Nat \cup Words)
    BY SMT
  <2>3. <<>> \in Seq(Nat \cup Words)
    BY SMT
  <2> QED BY <2>1, <2>2, <2>3, Zenon DEF Texts
<1>2. /\ {"running", "waiting_jobs", "finished"} \subseteq LogStatuses \ {"none"}
      /\ {"none", "running", "waiting_jobs"} \cap TerminalStatuses = {} /\ TerminalStatuses = {"finished"}
  BY Zenon DEF LogStatuses, TerminalStatuses
<1>3. CASE CreateLog(r)
  <2>1. \A q \in 1 .. r - 1 : logs[q].status # "none"
    BY <1>2, <1>3, Zenon DEF CreateLog
  <2> QED BY <1>1, <1>2, <1>3, <2>1, SaveStep, Zenon DEF CreateLog
<1>4. CASE WaitForJobs(r)
  BY <1>1, <1>2, <1>4, SaveStep, Zenon DEF WaitForJobs
<1>5. CASE ProceedAfterJobs(r)
  BY <1>1, <1>2, <1>5, SaveStep, Zenon DEF ProceedAfterJobs
<1>6. CASE LogAttempt(r)
  BY <1>1, <1>2, <1>6, SaveStep, Zenon DEF LogAttempt
<1>7. ASSUME NEW st \in TerminalStatuses, FinishLog(r, st) PROVE LogInv'
  BY <1>1, <1>2, <1>7, SaveStep, Zenon DEF FinishLog
<1> QED BY <1>3, <1>4, <1>5, <1>6, <1>7, Zenon

\* The hook publishes what was saved.
LEMMA PublishSavedStep ==
  ASSUME LogInv, PublishSaved, workload' = workload PROVE LogInv'
<1>1. UNCHANGED <<logs, rewritten, buffers, swept, line, carried, feed, lastLen, lastStatus, shown, waiter, prior, frame, outcome>>
  BY Zenon DEF PublishSaved, liveVars, feedVars, waitVars
<1>2. PICK ev \in Events : ev = saved /\ Honest(ev) /\ PublishLog(ev)
  BY Zenon DEF PublishSaved, LogInv, LogTypes, NewsInv
<1>3. /\ inbox' \in Seq(Events) /\ Len(inbox') <= FeedBuffer
      /\ \A i \in 1 .. Len(inbox') : (\E j \in 1 .. Len(inbox) : inbox'[i] = inbox[j]) \/ inbox'[i] = ev
  BY <1>2, Published, Zenon DEF LogInv
<1>4. saved' = NoEvent
  BY Zenon DEF PublishSaved
<1>5. LogTypes'
  BY <1>1, <1>3, <1>4, Zenon DEF LogInv, LogTypes
<1>6. Grown
  BY <1>1, GrownStill, Zenon DEF LogInv
<1>7. \A q \in LogRows, m \in LineNos : q \notin swept' => IsPrefix(carried'[q][m], buffers'[q].output)
  BY <1>1, Zenon DEF LogInv, NewsInv
<1>8. NewsInv'
  BY <1>2, <1>3, <1>4, <1>5, <1>6, <1>7, NewsStay, Zenon DEF LogInv
<1> QED BY <1>1, <1>5, <1>6, <1>8, ShownStays, FrameStays, OrderStays, Zenon DEF LogInv

\* The newest row, by the order of the reconciles.
LEMMA Newest ==
  ASSUME LogTypes, OrderInv
  PROVE  /\ NewestLog \in 0 .. MaxLogs
         /\ NewestLog # 0 => NewestLog \in LogRows /\ logs[NewestLog].status # "none"
         /\ NewestLog = 0 => \A r \in LogRows : logs[r].status = "none"
<1> DEFINE Saved == {0} \cup {r \in LogRows : logs[r].status # "none"}
<1>1. PICK k \in 0 .. MaxLogs : \A r \in LogRows : logs[r].status # "none" <=> r <= k
  BY Zenon DEF OrderInv
<1>2. k \in Saved /\ \A y \in Saved : k >= y
  <2>1. \A r \in Saved : r = 0 \/ (r \in LogRows /\ r <= k)
    BY <1>1, Zenon
  <2>2. k = 0 \/ (k \in LogRows /\ k <= k)
    BY LogStreamAssumption, SMT DEF LogRows
  <2>3. k \in Saved
    BY <1>1, <2>2, Zenon
  <2> HIDE DEF Saved
  <2> QED BY <2>1, <2>3, LogStreamAssumption, SMT DEF LogRows
<1>3. NewestLog = CHOOSE r \in Saved : \A q \in Saved : r >= q
  BY Zenon DEF NewestLog
<1>4. NewestLog \in Saved /\ \A y \in Saved : NewestLog >= y
  <2> HIDE DEF Saved
  <2> QED BY <1>2, <1>3, Zenon
<1>5. NewestLog = 0 \/ (NewestLog \in LogRows /\ logs[NewestLog].status # "none")
  BY <1>4, Zenon
<1>6. NewestLog = 0 => \A r \in LogRows : logs[r].status = "none"
  <2> SUFFICES ASSUME NewestLog = 0, NEW r \in LogRows PROVE logs[r].status = "none"
    BY Zenon
  <2>1. ~(0 >= r)
    BY LogStreamAssumption, SMT DEF LogRows
  <2> QED BY <1>4, <2>1, Zenon
<1>7. NewestLog \in 0 .. MaxLogs /\ 0 \notin LogRows
  BY <1>5, LogStreamAssumption, SMT DEF LogRows
<1> QED BY <1>5, <1>6, <1>7, Zenon

\* The handler subscribes, or has emptied its channel.
LEMMA FeedStep ==
  ASSUME LogInv, OpenFeed \/ EndDrain, workload' = workload PROVE LogInv'
<1>1. UNCHANGED <<logs, rewritten, saved, buffers, swept, line, carried, inbox, lastLen, lastStatus, shown, waiter, prior, frame, outcome>>
      /\ feed' \in {"off", "subscribed", "draining", "following", "gone"}
  BY Zenon DEF OpenFeed, EndDrain, writerVars, liveVars, waitVars
<1>2. LogTypes'
  BY <1>1, Zenon DEF LogInv, LogTypes
<1>3. Grown
  BY <1>1, GrownStill, Zenon DEF LogInv
<1>4. NewsInv'
  BY <1>1, <1>2, <1>3, NewsStay, NoNews, Zenon DEF LogInv, NewsInv
<1> QED BY <1>1, <1>2, <1>3, <1>4, ShownStays, FrameStays, OrderStays, Zenon DEF LogInv

\* The stored rows are shown, or the handoff state goes with the request.
LEMMA SnapshotStep ==
  ASSUME LogInv, Snapshot \/ CloseFeed, workload' = workload PROVE LogInv'
<1>1. UNCHANGED <<logs, rewritten, saved, buffers, swept, line, carried, waiter, prior, frame, outcome>>
      /\ feed' \in {"off", "subscribed", "draining", "following", "gone"}
      /\ (inbox' = inbox \/ inbox' = <<>>)
  BY Zenon DEF Snapshot, CloseFeed, writerVars, liveVars, waitVars
<1>2. /\ lastLen' = [k \in Records |-> lastLen'[k]] /\ lastStatus' = [k \in Records |-> lastStatus'[k]]
      /\ shown' = [k \in Records |-> shown'[k]]
      /\ \A k \in Records : \/ lastLen'[k] = 0 /\ lastStatus'[k] = "none" /\ shown'[k] = <<>>
                            \/ /\ lastLen'[k] = Len(shown'[k]) /\ shown'[k] = logs[k[2]].output
                               /\ lastStatus'[k] = logs[k[2]].status /\ k[1] = "row"
  <2>1. CASE Snapshot
    BY <2>1, Zenon DEF Snapshot
  <2>2. CASE CloseFeed
    BY <2>2, Zenon DEF CloseFeed
  <2> QED BY <2>1, <2>2, Zenon
<1>3. <<>> \in Texts /\ Len(<<>>) = 0 /\ 0 \in Nat /\ "none" \in LogStatuses /\ <<>> \in Seq(Events) /\ 0 <= FeedBuffer
      /\ \A s \in Texts : Len(s) \in Nat
  BY LogStreamAssumption, SMT DEF Texts, LogStatuses
<1>4. ASSUME NEW k \in Records
      PROVE  /\ lastLen'[k] \in Nat /\ lastStatus'[k] \in LogStatuses /\ shown'[k] \in Texts
             /\ lastLen'[k] = Len(shown'[k]) /\ IsPrefix(shown'[k], Text(k))
  <2>1. k[2] \in LogRows /\ Text(k) \in Texts
    BY TextTyped, RecordParts, Zenon DEF LogInv
  <2>2. CASE lastLen'[k] = 0 /\ lastStatus'[k] = "none" /\ shown'[k] = <<>>
    BY <2>1, <2>2, <1>3, PrefixSelf, Zenon
  <2>3. CASE /\ lastLen'[k] = Len(shown'[k]) /\ shown'[k] = logs[k[2]].output
             /\ lastStatus'[k] = logs[k[2]].status /\ k[1] = "row"
    <3>1. logs[k[2]].output \in Texts /\ logs[k[2]].status \in LogStatuses /\ Text(k) = logs[k[2]].output
      BY <2>1, <2>3, Zenon DEF LogInv, LogTypes, Stored, Text
    <3> QED BY <2>3, <3>1, <1>3, PrefixSelf, Zenon
  <2> QED BY <1>2, <2>2, <2>3, Zenon
<1>5. lastLen' \in [Records -> Nat] /\ lastStatus' \in [Records -> LogStatuses] /\ shown' \in [Records -> Texts]
  BY <1>2, <1>4, Zenon
<1>6. inbox' \in Seq(Events) /\ Len(inbox') <= FeedBuffer
      /\ \A i \in 1 .. Len(inbox') : \E j \in 1 .. Len(inbox) : inbox'[i] = inbox[j]
  <2>1. CASE inbox' = inbox
    BY <2>1, Zenon DEF LogInv, LogTypes
  <2>2. CASE inbox' = <<>>
    <3>1. 1 .. 0 = {}
      BY SMT
    <3> QED BY <2>2, <3>1, <1>3, Zenon
  <2> QED BY <1>1, <2>1, <2>2, Zenon
<1>7. LogTypes'
  BY <1>1, <1>5, <1>6, Zenon DEF LogInv, LogTypes
<1>8. Grown
  BY <1>1, GrownStill, Zenon DEF LogInv
<1>9. NewsInv'
  <2>1. \A q \in LogRows, m \in LineNos : q \notin swept' => IsPrefix(carried'[q][m], buffers'[q].output)
    BY <1>1, Zenon DEF LogInv, NewsInv
  <2> QED BY <1>1, <1>6, <1>7, <1>8, <2>1, NewsStay, Zenon DEF LogInv
<1>10. ShownInv'
  <2>1. \A k \in Records : Text(k)' = Text(k)
    BY <1>1, Zenon DEF Text
  <2> QED BY <1>4, <2>1, Zenon DEF ShownInv
<1> QED BY <1>1, <1>7, <1>8, <1>9, <1>10, FrameStays, OrderStays, Zenon DEF LogInv

\* applyStatus: a terminal status is announced only of a row that has it.
LEMMA Announced ==
  ASSUME LogInv, NEW k \in Records, NEW st \in LogStatuses, ApplyStatus(k, st),
         st \in TerminalStatuses => k[1] = "row" /\ logs[k[2]].status = st
  PROVE  /\ lastStatus' \in [Records -> LogStatuses]
         /\ frame' \in [row : 0 .. MaxLogs, status : LogStatuses]
         /\ frame'.status \in TerminalStatuses =>
              frame'.row \in LogRows /\ logs[frame'.row].status = frame'.status
<1>1. lastStatus' \in [Records -> LogStatuses]
  BY Zenon DEF ApplyStatus, LogInv, LogTypes
<1>2. k[2] \in LogRows /\ k[2] \in 0 .. MaxLogs /\ 0 \in 0 .. MaxLogs
  BY RecordParts, LogStreamAssumption, SMT DEF LogRows
<1>3. CASE frame' = frame
  BY <1>1, <1>3, Zenon DEF LogInv, LogTypes, FrameInv
<1>4. CASE frame' = [row |-> IF k[1] = "row" THEN k[2] ELSE 0, status |-> st]
  <2>1. /\ frame' \in [row : 0 .. MaxLogs, status : LogStatuses] /\ frame'.status = st
        /\ k[1] = "row" => frame'.row = k[2]
    BY <1>2, <1>4, SMT
  <2> QED BY <1>1, <1>2, <2>1, Zenon
<1> QED BY <1>3, <1>4, Zenon DEF ApplyStatus

\* The recovery ticker announces the status the newest row has.
LEMMA RecoverStep ==
  ASSUME LogInv, RecoverStatus, workload' = workload PROVE LogInv'
<1>1. UNCHANGED <<logs, rewritten, saved, buffers, swept, line, carried, feed, inbox, lastLen, shown, waiter, prior, outcome>>
  BY Zenon DEF RecoverStatus, writerVars, liveVars
<1>2. NewestLog \in LogRows
  BY Newest, Zenon DEF RecoverStatus, LogInv
<1>3. PICK k \in Records : k = <<"row", NewestLog>> /\ k[1] = "row" /\ k[2] = NewestLog
  BY <1>2, RecordParts, Zenon
<1>4. PICK st \in LogStatuses : st = logs[k[2]].status /\ ApplyStatus(k, st)
  BY <1>2, <1>3, Zenon DEF RecoverStatus, LogInv, LogTypes, Stored
<1>5. /\ lastStatus' \in [Records -> LogStatuses]
      /\ frame' \in [row : 0 .. MaxLogs, status : LogStatuses]
      /\ frame'.status \in TerminalStatuses =>
           frame'.row \in LogRows /\ logs[frame'.row].status = frame'.status
  BY <1>3, <1>4, Announced, Zenon
<1>6. LogTypes'
  BY <1>1, <1>5, Zenon DEF LogInv, LogTypes
<1>7. Grown
  BY <1>1, GrownStill, Zenon DEF LogInv
<1>8. NewsInv'
  BY <1>1, <1>6, <1>7, NewsStay, NoNews, Zenon DEF LogInv, NewsInv
<1>9. FrameInv'
  BY <1>1, <1>5, Zenon DEF LogInv, FrameInv
<1> QED BY <1>1, <1>6, <1>7, <1>8, <1>9, ShownStays, OrderStays, Zenon DEF LogInv

\* The handler takes an event: the client's text stays a beginning.
LEMMA ConsumeStep ==
  ASSUME LogInv, Consume, workload' = workload PROVE LogInv'
<1>1. UNCHANGED <<logs, rewritten, saved, buffers, swept, line, carried, feed, waiter, prior, outcome>>
  BY Zenon DEF Consume, writerVars, liveVars
<1>2. inbox \in Seq(Events) /\ inbox # <<>> /\ Len(inbox) <= FeedBuffer /\ inbox' = Tail(inbox) /\ FeedBuffer \in Nat
  BY LogStreamAssumption, SMT DEF Consume, LogInv, LogTypes
<1>3. /\ inbox' \in Seq(Events) /\ Len(inbox') <= FeedBuffer
      /\ \A i \in 1 .. Len(inbox') : \E j \in 1 .. Len(inbox) : inbox'[i] = inbox[j]
  <2>1. inbox' \in Seq(Events) /\ Len(inbox') = Len(inbox) - 1 /\ Len(inbox) \in Nat
    BY <1>2, SMT
  <2>2. \A i \in 1 .. Len(inbox') : i + 1 \in 1 .. Len(inbox) /\ inbox'[i] = inbox[i + 1]
    BY <1>2, <2>1, SMT
  <2>3. Len(inbox') <= FeedBuffer
    BY <1>2, <2>1, SMT
  <2> QED BY <2>1, <2>2, <2>3, Zenon
<1>4. PICK ev \in Events : /\ ev = Head(inbox) /\ Honest(ev)
                           /\ ApplyOutput(ev) /\ ApplyStatus(ev.record, ev.status)
  <2>1. 1 \in 1 .. Len(inbox) /\ Head(inbox) = inbox[1] /\ Head(inbox) \in Events
    BY <1>2, SMT
  <2>2. Honest(Head(inbox))
    BY <2>1, Zenon DEF LogInv, NewsInv
  <2> QED BY <2>1, <2>2, Zenon DEF Consume
<1>5. PICK k \in Records : k = ev.record
  BY Zenon DEF Events
<1>6. PICK output \in Texts : output = ev.output
  BY Zenon DEF Events
<1>7. PICK st \in LogStatuses : st = ev.status
  BY Zenon DEF Events
<1>8. /\ lastStatus' \in [Records -> LogStatuses]
      /\ frame' \in [row : 0 .. MaxLogs, status : LogStatuses]
      /\ frame'.status \in TerminalStatuses =>
           frame'.row \in LogRows /\ logs[frame'.row].status = frame'.status
  BY <1>4, <1>5, <1>7, Announced, Zenon DEF Honest
<1>9. /\ lastLen \in [Records -> Nat] /\ shown \in [Records -> Texts] /\ lastLen[k] = Len(shown[k])
      /\ shown[k] \in Texts /\ Text(k) \in Texts
      /\ Whole(k) => IsPrefix(shown[k], Text(k)) /\ IsPrefix(output, Text(k))
  BY <1>4, <1>5, <1>6, TextTyped, Zenon DEF LogInv, LogTypes, ShownInv, Honest
<1>10. /\ lastLen' \in [Records -> Nat] /\ shown' \in [Records -> Texts]
       /\ \A q \in Records \ {k} : lastLen'[q] = lastLen[q] /\ shown'[q] = shown[q]
       /\ lastLen'[k] = Len(shown'[k]) /\ (Whole(k) => IsPrefix(shown'[k], Text(k)))
  <2>1. CASE Len(output) > lastLen[k]
    <3> DEFINE all == shown[k] \o SubSeq(output, Len(shown[k]) + 1, Len(output))
    <3>1. lastLen' = [lastLen EXCEPT ![k] = Len(output)] /\ shown' = [shown EXCEPT ![k] = all]
      BY <2>1, <1>4, <1>5, <1>6, <1>9, Zenon DEF ApplyOutput
    <3>2. all \in Texts /\ Len(all) = Len(output) /\ (Whole(k) => IsPrefix(all, Text(k)))
      BY <2>1, <1>9, PrefixExtended, Zenon
    <3> HIDE DEF all
    <3>3. Len(output) \in Nat
      BY SMT DEF Texts
    <3> QED BY <3>1, <3>2, <3>3, <1>9, Zenon
  <2>2. CASE ~(Len(output) > lastLen[k])
    <3>1. lastLen' = lastLen /\ shown' = shown
      BY <2>2, <1>4, <1>5, <1>6, Zenon DEF ApplyOutput
    <3> QED BY <3>1, <1>9, Zenon
  <2> QED BY <2>1, <2>2, Zenon
<1>11. LogTypes'
  BY <1>1, <1>3, <1>8, <1>10, Zenon DEF LogInv, LogTypes
<1>12. Grown
  BY <1>1, GrownStill, Zenon DEF LogInv
<1>13. NewsInv'
  <2>1. \A q \in LogRows, m \in LineNos : q \notin swept' => IsPrefix(carried'[q][m], buffers'[q].output)
    BY <1>1, Zenon DEF LogInv, NewsInv
  <2> QED BY <1>1, <1>3, <1>11, <1>12, <2>1, NewsStay, Zenon DEF LogInv
<1>14. ShownInv'
  <2>1. \A q \in Records : Text(q)' = Text(q) /\ (Whole(q)' <=> Whole(q))
    BY <1>1, Zenon DEF Text, Whole
  <2> QED BY <1>10, <2>1, Zenon DEF ShownInv, LogInv
<1>15. FrameInv'
  BY <1>1, <1>8, Zenon DEF LogInv, FrameInv
<1> QED BY <1>1, <1>11, <1>13, <1>14, <1>15, OrderStays, Zenon DEF LogInv

\* The wait begins, and ends with what it has read: a frame, or the newest row.
LEMMA WaiterStep ==
  ASSUME LogInv, WaitTrigger \/ Report, workload' = workload PROVE LogInv'
<1>1. UNCHANGED <<logs, rewritten, saved, buffers, swept, line, carried, feed, inbox, lastLen, lastStatus, shown>>
      /\ waiter' \in {"opening", "waiting", "done"}
  BY Zenon DEF WaitTrigger, Report, writerVars, liveVars, feedVars
<1>2. /\ NewestLog \in 0 .. MaxLogs
      /\ NewestLog # 0 => NewestLog \in LogRows /\ logs[NewestLog].status # "none"
      /\ NewestLog = 0 => \A r \in LogRows : logs[r].status = "none"
  BY Newest, Zenon DEF LogInv
<1>3. Grown
  BY <1>1, GrownStill, Zenon DEF LogInv
<1>4. CASE WaitTrigger
  <2>1. prior' = NewestLog /\ frame' = frame /\ outcome' = outcome
    BY <1>4, Zenon DEF WaitTrigger
  <2>2. LogTypes'
    BY <1>1, <1>2, <2>1, Zenon DEF LogInv, LogTypes
  <2>3. NewsInv'
    BY <1>1, <1>3, <2>2, NewsStay, NoNews, Zenon DEF LogInv, NewsInv
  <2>4. OrderInv'
    BY <1>1, <1>2, <2>1, Zenon DEF LogInv, OrderInv
  <2> QED BY <1>1, <1>3, <2>1, <2>2, <2>3, <2>4, ShownStays, FrameStays, Zenon DEF LogInv
<1>5. CASE Report
  <2> DEFINE adopt == frame.status = "none" /\ NewestLog # prior
             row == IF adopt THEN NewestLog ELSE frame.row
             st == IF adopt THEN logs[NewestLog].status ELSE frame.status
  <2>1. /\ outcome' = [row |-> row, status |-> st, completed |-> st \in TerminalStatuses]
        /\ prior' = 0 /\ frame' = NoFrame
    BY <1>5, Zenon DEF Report
  <2>2. adopt => NewestLog \in LogRows
    <3>1. prior # 0 => prior \in LogRows /\ logs[prior].status # "none"
      BY LogStreamAssumption, SMT DEF LogInv, LogTypes, OrderInv, LogRows
    <3> QED BY <3>1, <1>2, Zenon
  <2>3. /\ row \in 0 .. MaxLogs /\ st \in LogStatuses
        /\ st \in TerminalStatuses => row \in LogRows /\ logs[row].status = st
    <3>1. CASE adopt
      BY <3>1, <1>2, <2>2, Zenon DEF LogInv, LogTypes, Stored
    <3>2. CASE ~adopt
      BY <3>2, Zenon DEF LogInv, LogTypes, FrameInv
    <3> QED BY <3>1, <3>2, Zenon
  <2> HIDE DEF adopt, row, st
  <2>4. /\ outcome' \in [row : 0 .. MaxLogs, status : LogStatuses, completed : BOOLEAN]
        /\ outcome'.row = row /\ outcome'.status = st /\ (outcome'.completed => st \in TerminalStatuses)
    <3>1. PICK done \in BOOLEAN : done <=> st \in TerminalStatuses
      BY Zenon
    <3>2. outcome' = [row |-> row, status |-> st, completed |-> done]
      <4>1. CASE st \in TerminalStatuses
        BY <2>1, <3>1, <4>1, Zenon
      <4>2. CASE st \notin TerminalStatuses
        BY <2>1, <3>1, <4>2, Zenon
      <4> QED BY <4>1, <4>2, Zenon
    <3>3. outcome' \in [row : 0 .. MaxLogs, status : LogStatuses, completed : BOOLEAN]
      BY <2>3, <3>2, Zenon
    <3>4. outcome'.row = row /\ outcome'.status = st /\ outcome'.completed = done
      BY <3>2, Zenon
    <3> QED BY <3>1, <3>3, <3>4, Zenon
  <2>5. /\ frame' \in [row : 0 .. MaxLogs, status : LogStatuses] /\ prior' \in 0 .. MaxLogs
        /\ frame'.status \notin TerminalStatuses
    BY <2>1, LogStreamAssumption, SMT DEF NoFrame, LogStatuses, TerminalStatuses
  <2>6. LogTypes'
    BY <1>1, <2>4, <2>5, Zenon DEF LogInv, LogTypes
  <2>7. NewsInv'
    BY <1>1, <1>3, <2>6, NewsStay, NoNews, Zenon DEF LogInv, NewsInv
  <2>8. OrderInv'
    BY <1>1, <2>1, Zenon DEF LogInv, OrderInv
  <2>9. FrameInv'
    BY <1>1, <2>3, <2>4, <2>5, Zenon DEF FrameInv
  <2> QED BY <1>1, <1>3, <2>6, <2>7, <2>8, <2>9, ShownStays, Zenon DEF LogInv
<1> QED BY <1>4, <1>5, Zenon

\* The log is empty at the start.
LEMMA LogInitInv == LogStreamInit => LogInv
<1> SUFFICES ASSUME LogStreamInit PROVE LogInv
  BY Zenon
<1>1. <<>> \in Texts /\ Len(<<>>) = 0 /\ 0 \in Nat /\ "none" \in LogStatuses /\ <<>> \in Seq(Events)
      /\ 0 <= FeedBuffer /\ 0 <= LiveMax /\ 0 \in 0 .. MaxLines /\ 0 \in 0 .. MaxLogs /\ 1 .. 0 = {}
  BY LogStreamAssumption, SMT DEF Texts, LogStatuses
<1>2. /\ logs \in [LogRows -> Stored] /\ buffers \in [LogRows -> Buffers]
      /\ \A r \in LogRows : /\ logs[r].status = "none" /\ logs[r].output = <<>>
                            /\ buffers[r].output = <<>> /\ buffers[r].last = 0
  <2>1. [status |-> "none", output |-> <<>>] \in Stored /\ [output |-> <<>>, last |-> 0] \in Buffers
    BY <1>1, Zenon DEF Stored, Buffers
  <2> QED BY <2>1, Zenon DEF LogStreamInit
<1>3. /\ frame \in [row : 0 .. MaxLogs, status : LogStatuses]
      /\ outcome \in [row : 0 .. MaxLogs, status : LogStatuses, completed : BOOLEAN]
      /\ frame.status = "none" /\ outcome.completed = FALSE
  BY <1>1, SMT DEF LogStreamInit, NoFrame
<1>4. LogTypes
  BY <1>1, <1>2, <1>3, Zenon DEF LogStreamInit, LogTypes
<1>5. IsPrefix(<<>>, <<>>)
  BY <1>1, PrefixSelf, Zenon
<1>6. NewsInv
  BY <1>1, <1>2, <1>5, Zenon DEF LogStreamInit, NewsInv
<1>7. ShownInv
  <2>1. \A k \in Records : Text(k) = <<>>
    BY <1>2, RecordParts, Zenon DEF Text
  <2> QED BY <1>1, <1>5, <2>1, Zenon DEF LogStreamInit, ShownInv
<1>8. OrderInv
  <2>1. \A r \in LogRows : ~(r <= 0)
    BY LogStreamAssumption, SMT DEF LogRows
  <2> QED BY <1>1, <1>2, <2>1, Zenon DEF LogStreamInit, OrderInv
<1>9. FrameInv
  BY <1>3, Zenon DEF FrameInv, TerminalStatuses
<1> QED BY <1>4, <1>6, <1>7, <1>8, <1>9, Zenon DEF LogInv

\* Every step keeps it.
LEMMA LogStep == LogInv /\ [LogStreamNext]_logStreamVars => LogInv'
<1> SUFFICES ASSUME LogInv, [LogStreamNext]_logStreamVars PROVE LogInv'
  BY Zenon
<1>1. CASE UNCHANGED logStreamVars
  <2>1. UNCHANGED <<workload, logs, rewritten, saved, buffers, swept, line, carried, feed, inbox, lastLen, lastStatus,
                    shown, waiter, prior, frame, outcome>>
    BY <1>1, Zenon DEF logStreamVars, writerVars, liveVars, feedVars, waitVars
  <2>2. LogTypes'
    BY <2>1, Zenon DEF LogInv, LogTypes
  <2>3. Grown
    BY <2>1, GrownStill, Zenon DEF LogInv
  <2>4. NewsInv'
    BY <2>1, <2>2, <2>3, NewsStay, NoNews, Zenon DEF LogInv, NewsInv
  <2> QED BY <2>1, <2>2, <2>3, <2>4, ShownStays, FrameStays, OrderStays, Zenon DEF LogInv
<1>2. CASE LogStreamNext
  BY <1>2, SendLineStep, PublishLineStep, AppendLineStep, ReconcilerStep, PublishSavedStep, FeedStep,
     SnapshotStep, ConsumeStep, RecoverStep, WaiterStep, Zenon DEF LogStreamNext
<1> QED BY <1>1, <1>2, Zenon

\* What the invariant says of the client and of the waiter.
LEMMA LogInvSafe == LogInv => LogStreamSafety
<1> SUFFICES ASSUME LogInv PROVE LogStreamSafety
  BY Zenon
<1>1. LogStreamTypeOK
  BY Zenon DEF LogInv, LogTypes, LogStreamTypeOK, Stored, Buffers
<1>2. ShownIsPrefix
  <2> SUFFICES ASSUME NEW r \in LogRows
               PROVE  /\ r \notin rewritten => IsPrefix(shown[<<"row", r>>], logs[r].output)
                      /\ r \notin swept => IsPrefix(shown[<<"live", r>>], buffers[r].output)
    BY Zenon DEF ShownIsPrefix
  <2>1. PICK k \in Records : k = <<"row", r>> /\ k[1] = "row" /\ k[2] = r
    BY RecordParts, Zenon
  <2>2. PICK m \in Records : m = <<"live", r>> /\ m[1] # "row" /\ m[2] = r
    BY RecordParts, Zenon
  <2>3. Text(k) = logs[r].output /\ (Whole(k) <=> r \notin rewritten)
    BY <2>1, Zenon DEF Text, Whole
  <2>4. Text(m) = buffers[r].output /\ (Whole(m) <=> r \notin swept)
    BY <2>2, Zenon DEF Text, Whole
  <2> QED BY <2>1, <2>2, <2>3, <2>4, Zenon DEF LogInv, ShownInv
<1>3. CompletedIsReal
  BY Zenon DEF LogInv, FrameInv, CompletedIsReal
<1> QED BY <1>1, <1>2, <1>3, Zenon DEF LogStreamSafety

\* Whatever is dropped, delayed or published out of order, a client of the live
\* log shows a beginning of each record, and a wait reported as completed names
\* a reconcile that ended as it says (internal/logstream, the stream route and
\* awaitReconcile), for any number of reconciles and lines and any capacities.
THEOREM LogStreamCorrect == LogStreamSpec => []LogStreamSafety
BY LogInitInv, LogStep, LogInvSafe, PTL DEF LogStreamSpec

=============================================================================
