---------------------------- MODULE WorkerProofs ----------------------------
(***************************************************************************)
(* What the worker promises: the theorems of WorkerHandlers, JobContainer  *)
(* and Spool, for every value of their constants.                          *)
(***************************************************************************)
EXTENDS WorkerHandlers, JobContainer, Spool, FiniteSetTheorems, TLAPS

(***************************************************************************)
(* The command handlers, for any number of commands, redelivered copies    *)
(* and semaphores.                                                         *)
(***************************************************************************)

\* Every step keeps the worker's tables (the sync.Maps, the semaphore
\* channels, the queue counter and the spool) in their types.
LEMMA TypeStep == TypeOK /\ [Next]_vars => TypeOK'
<1> SUFFICES ASSUME TypeOK, [Next]_vars PROVE TypeOK'
  BY Zenon
<1> USE ConstantsAssumption
    DEF TypeOK, Steps, Replies, Cmd, Kind, Sem, Goto, Reply, control
<1>1. ASSUME NEW d \in Copies, Receive(d) PROVE TypeOK'
  <2>1. CASE RejectDraining(d)
    BY <2>1 DEF RejectDraining
  <2>2. CASE DispatchThrottled(d)
    BY <2>2 DEF DispatchThrottled, Scheduled
  <2>3. CASE HandleRunJob(d)
    BY <2>3 DEF HandleRunJob, Scheduled, Fresh
  <2>4. QED
    BY <1>1, <2>1, <2>2, <2>3, Zenon DEF Receive
<1>2. ASSUME NEW d \in Copies, Goroutine(d) PROVE TypeOK'
  <2>1. CASE Acquire(d) \/ LeaveQueue(d) \/ Release(d)
    BY <2>1 DEF Acquire, LeaveQueue, Release
  <2>2. CASE CheckActive(d) \/ Claim(d) \/ Execute(d)
    BY <2>2 DEF CheckActive, Claim, Execute
  <2>3. CASE CheckCompleted(d)
    BY <2>3 DEF CheckCompleted, Fresh
  <2>4. CASE Evict(d) \/ CacheResult(d)
    BY <2>4 DEF Evict, CacheResult
  <2>5. CASE Unclaim(d)
    BY <2>5, Zenon DEF Unclaim
  <2>6. CASE StoreJob(d) \/ ReportJob(d) \/ CleanupJob(d)
    BY <2>6 DEF StoreJob, ReportJob, CleanupJob
  <2>7. CASE StoreActive(d) \/ Cleanup(d)
    BY <2>7 DEF StoreActive, Cleanup
  <2>8. CASE SendAnswer(d)
    BY <2>8 DEF SendAnswer
  <2>9. QED
    BY <1>2, <2>1, <2>2, <2>3, <2>4, <2>5, <2>6, <2>7, <2>8, Zenon DEF Goroutine
<1>3. ASSUME NEW c \in Commands, HandleCancelCommand(c) \/ Expire(c)
      PROVE TypeOK'
  BY <1>3 DEF HandleCancelCommand, Expire, Fresh
<1>4. CASE StartDrain \/ DrainCount
  BY <1>4, Zenon DEF StartDrain, DrainCount
<1>5. CASE UNCHANGED vars
  BY <1>5, Zenon DEF vars
<1>6. QED
  BY <1>1, <1>2, <1>3, <1>4, <1>5, Zenon DEF Next

\* The worker's tables always have their types.
THEOREM TypeCorrect == Spec => []TypeOK
<1>1. Init => TypeOK
  BY ConstantsAssumption DEF Init, TypeOK, Steps, Replies
<1>2. QED
  BY <1>1, TypeStep, PTL DEF Spec

(***************************************************************************)
(* Mutual exclusion of redelivered copies                                  *)
(***************************************************************************)

\* The claim protects a durable command from LoadOrStore until
\* finishDurableCommand deletes it.
ClaimHeld == \A d \in Copies : Executing(d) => Cmd(d) \in claimed

\* No step of the read loop or of a goroutine lets a second copy execute
\* while the claim is held, or drops the claim of a copy that executes.
LEMMA ClaimStep ==
  TypeOK /\ ClaimHeld /\ AtMostOneExecutor /\ [Next]_vars
    => ClaimHeld' /\ AtMostOneExecutor'
<1> SUFFICES ASSUME TypeOK, ClaimHeld, AtMostOneExecutor, [Next]_vars
             PROVE  ClaimHeld' /\ AtMostOneExecutor'
  BY Zenon
<1> USE ConstantsAssumption
    DEF ClaimHeld, AtMostOneExecutor, Executing, Cmd, Kind, Goto
<1>0. pc \in [Copies -> Steps] /\ claimed \subseteq Commands
  BY Zenon DEF TypeOK
<1>1. ASSUME NEW d \in Copies, Receive(d)
      PROVE  ClaimHeld' /\ AtMostOneExecutor'
  <2>1. CASE RejectDraining(d)
    BY <1>0, <2>1, Zenon DEF RejectDraining
  <2>2. CASE DispatchThrottled(d)
    BY <1>0, <2>2 DEF DispatchThrottled, Scheduled
  <2>3. CASE HandleRunJob(d)
    BY <1>0, <2>3, Zenon DEF HandleRunJob, Scheduled
  <2>4. QED
    BY <1>1, <2>1, <2>2, <2>3, Zenon DEF Receive
<1>2. ASSUME NEW d \in Copies, Goroutine(d)
      PROVE  ClaimHeld' /\ AtMostOneExecutor'
  <2>1. CASE Acquire(d) \/ LeaveQueue(d) \/ Release(d)
    BY <1>0, <2>1 DEF Acquire, LeaveQueue, Release
  <2>2. CASE CheckActive(d) \/ CheckCompleted(d) \/ Evict(d)
    BY <1>0, <2>2 DEF CheckActive, CheckCompleted, Evict
  <2>3. CASE Claim(d)
    BY <1>0, <2>3, Zenon DEF Claim
  <2>4. CASE StoreJob(d)
    BY <1>0, <2>4, Zenon DEF StoreJob
  <2>5. CASE StoreActive(d) \/ Execute(d) \/ CacheResult(d)
    BY <1>0, <2>5 DEF StoreActive, Execute, CacheResult
  <2>6. CASE Unclaim(d)
    BY <1>0, <2>6, Zenon DEF Unclaim
  <2>7. CASE ReportJob(d) \/ SendAnswer(d) \/ Cleanup(d) \/ CleanupJob(d)
    BY <1>0, <2>7 DEF ReportJob, SendAnswer, Cleanup, CleanupJob
  <2>8. QED
    BY <1>2, <2>1, <2>2, <2>3, <2>4, <2>5, <2>6, <2>7, Zenon DEF Goroutine
<1>3. CASE UNCHANGED <<pc, claimed>>
  BY <1>3, Zenon
<1>4. ASSUME NEW c \in Commands, HandleCancelCommand(c) \/ Expire(c)
      PROVE  UNCHANGED <<pc, claimed>>
  BY <1>4, Zenon DEF HandleCancelCommand, Expire
<1>5. CASE StartDrain \/ DrainCount \/ UNCHANGED vars
  BY <1>3, <1>5, Zenon DEF StartDrain, DrainCount, vars
<1>6. QED
  BY <1>1, <1>2, <1>3, <1>4, <1>5, Zenon DEF Next

\* Copies of one durable command never execute at the same time, whatever
\* the number of redeliveries and the interleaving (beginDurableCommand and
\* finishDurableCommand).
THEOREM ExecutionIsExclusive == Spec => []AtMostOneExecutor
<1>1. Init => ClaimHeld /\ AtMostOneExecutor
  BY Zenon DEF Init, ClaimHeld, AtMostOneExecutor, Executing
<1>2. QED
  BY <1>1, TypeCorrect, ClaimStep, PTL DEF Spec

(***************************************************************************)
(* Slot and queue accounting                                               *)
(***************************************************************************)

\* How a step of copy d may move it between waiting for, holding and not
\* needing a slot, with the counter change that goes with each move.
Keeps(d, q) ==
  /\ pc[d] \in Holding <=> q \in Holding
  /\ pc[d] \in {"queued", "admitted"} <=> q \in {"queued", "admitted"}
  /\ UNCHANGED <<held, queuedTasks>>
Takes(d, q) ==
  /\ pc[d] = "wire" /\ q = "begin" /\ HasSlot(Sem(d))
  /\ held' = [held EXCEPT ![Sem(d)] = @ + 1] /\ UNCHANGED queuedTasks
Enqueues(d, q) ==
  /\ pc[d] = "wire" /\ q = "queued" /\ ~IsQueueFull
  /\ queuedTasks' = queuedTasks + 1 /\ UNCHANGED held
Admits(d, q) ==
  /\ pc[d] = "queued" /\ q = "admitted" /\ HasSlot(Sem(d))
  /\ held' = [held EXCEPT ![Sem(d)] = @ + 1] /\ UNCHANGED queuedTasks
Leaves(d, q) ==
  /\ pc[d] = "admitted" /\ q = "begin"
  /\ queuedTasks' = queuedTasks - 1 /\ UNCHANGED held
Frees(d, q) ==
  /\ pc[d] = "release" /\ q = "done"
  /\ held' = [held EXCEPT ![Sem(d)] = @ - 1] /\ UNCHANGED queuedTasks

\* Every action of a copy is one of these moves: a handler that returned
\* early without its deferred release would be none of them.
LEMMA EveryStepIsAMove ==
  ASSUME TypeOK, NEW d \in Copies, Receive(d) \/ Goroutine(d)
  PROVE  \E q \in Steps :
           /\ pc' = [pc EXCEPT ![d] = q]
           /\ \/ Keeps(d, q) \/ Takes(d, q) \/ Enqueues(d, q)
              \/ Admits(d, q) \/ Leaves(d, q) \/ Frees(d, q)
<1> USE DEF Goto, Steps, Holding, Keeps
<1>1. CASE RejectDraining(d)
  BY <1>1, Zenon DEF RejectDraining
<1>2. CASE DispatchThrottled(d)
  BY <1>2, Zenon DEF DispatchThrottled, Scheduled, Takes, Enqueues
<1>3. CASE HandleRunJob(d)
  BY <1>3, Zenon DEF HandleRunJob, Scheduled, Takes, Enqueues
<1>4. CASE Acquire(d) \/ LeaveQueue(d) \/ Release(d)
  BY <1>4, Zenon DEF Acquire, LeaveQueue, Release, Admits, Leaves, Frees
<1>5. CASE CheckActive(d) \/ CheckCompleted(d) \/ Evict(d) \/ Claim(d)
  BY <1>5, Zenon DEF CheckActive, CheckCompleted, Evict, Claim
<1>6. CASE StoreJob(d) \/ StoreActive(d) \/ Execute(d) \/ CacheResult(d)
  BY <1>6, Zenon DEF StoreJob, StoreActive, Execute, CacheResult
<1>7. CASE Unclaim(d) \/ ReportJob(d) \/ SendAnswer(d)
  BY <1>7, Zenon DEF Unclaim, ReportJob, SendAnswer
<1>8. CASE Cleanup(d) \/ CleanupJob(d)
  BY <1>8, Zenon DEF Cleanup, CleanupJob
<1>9. QED
  BY <1>1, <1>2, <1>3, <1>4, <1>5, <1>6, <1>7, <1>8, Zenon DEF Receive, Goroutine

\* The copies that hold or wait for a slot are finitely many.
LEMMA FiniteHolders ==
  /\ IsFiniteSet(Waiting)
  /\ \A s \in Sems : IsFiniteSet(HoldersOf(s))
BY ConstantsAssumption, FS_Subset, Zenon DEF Waiting, HoldersOf

\* A step of one copy keeps the counters equal to what they count.
LEMMA AccountingStep ==
  ASSUME TypeOK, ThrottleAccounting, NEW d \in Copies,
         Receive(d) \/ Goroutine(d)
  PROVE  ThrottleAccounting'
<1> PICK q \in Steps :
           /\ pc' = [pc EXCEPT ![d] = q]
           /\ \/ Keeps(d, q) \/ Takes(d, q) \/ Enqueues(d, q)
              \/ Admits(d, q) \/ Leaves(d, q) \/ Frees(d, q)
  BY EveryStepIsAMove, Zenon
<1>0. /\ pc \in [Copies -> Steps] /\ held \in [Sems -> Int]
      /\ queuedTasks \in Int /\ Sem(d) \in Sems
      /\ Limit \in [Sems -> Nat] /\ MaxQueueDepth \in Nat
  BY ConstantsAssumption, Zenon DEF TypeOK, Sem
<1>1. \A e \in Copies : pc'[e] = IF e = d THEN q ELSE pc[e]
  BY <1>0, Zenon
<1>2. ASSUME NEW s \in Sems
      PROVE  held'[s] = Cardinality(HoldersOf(s)') /\ held'[s] <= Limit[s]
  <2>0. /\ held[s] = Cardinality(HoldersOf(s)) /\ held[s] <= Limit[s]
        /\ IsFiniteSet(HoldersOf(s))
        /\ held[s] \in Int /\ Limit[s] \in Int
    BY <1>0, FiniteHolders DEF ThrottleAccounting
  <2>1. CASE held' = held /\ (pc[d] \in Holding <=> q \in Holding)
    <3>1. HoldersOf(s)' = HoldersOf(s)
      BY <1>1, <2>1, Zenon DEF HoldersOf, Sem
    <3>2. QED
      BY <2>0, <2>1, <3>1, Zenon
  <2>2. CASE s # Sem(d) /\ held'[s] = held[s]
    <3>1. HoldersOf(s)' = HoldersOf(s)
      BY <1>1, <2>2, Zenon DEF HoldersOf, Sem
    <3>2. QED
      BY <2>0, <2>2, <3>1, Zenon
  <2>3. CASE /\ s = Sem(d) /\ pc[d] \notin Holding /\ q \in Holding
             /\ HasSlot(s) /\ held'[s] = held[s] + 1
    <3>1. HoldersOf(s)' = HoldersOf(s) \cup {d} /\ d \notin HoldersOf(s)
      BY <1>1, <2>3, Zenon DEF HoldersOf, Sem
    <3>2. Cardinality(HoldersOf(s)') = held[s] + 1
      BY <2>0, <3>1, FS_AddElement, Zenon
    <3>3. QED
      BY <2>0, <2>3, <3>2 DEF HasSlot
  <2>4. CASE /\ s = Sem(d) /\ pc[d] \in Holding /\ q \notin Holding
             /\ held'[s] = held[s] - 1
    <3>1. HoldersOf(s)' = HoldersOf(s) \ {d} /\ d \in HoldersOf(s)
      BY <1>1, <2>4, Zenon DEF HoldersOf, Sem
    <3>2. Cardinality(HoldersOf(s)') = held[s] - 1
      BY <2>0, <3>1, FS_RemoveElement, Zenon
    <3>3. QED
      BY <2>0, <2>4, <3>2
  <2>5. CASE Keeps(d, q) \/ Enqueues(d, q) \/ Leaves(d, q)
    BY <2>1, <2>5, Zenon DEF Keeps, Enqueues, Leaves, Holding, Steps
  <2>6. CASE Takes(d, q) \/ Admits(d, q)
    BY <1>0, <2>2, <2>3, <2>6, Zenon DEF Takes, Admits, Holding, Steps
  <2>7. CASE Frees(d, q)
    BY <1>0, <2>2, <2>4, <2>7, Zenon DEF Frees, Holding, Steps
  <2>8. QED
    BY <2>5, <2>6, <2>7, Zenon
<1>3. queuedTasks' = Cardinality(Waiting') /\ queuedTasks' <= MaxQueueDepth
  <2>0. /\ queuedTasks = Cardinality(Waiting) /\ queuedTasks <= MaxQueueDepth
        /\ IsFiniteSet(Waiting)
    BY FiniteHolders, Zenon DEF ThrottleAccounting
  <2>1. CASE /\ queuedTasks' = queuedTasks
             /\ pc[d] \in {"queued", "admitted"} <=> q \in {"queued", "admitted"}
    <3>1. Waiting' = Waiting
      BY <1>1, <2>1, Zenon DEF Waiting
    <3>2. QED
      BY <2>0, <2>1, <3>1, Zenon
  <2>2. CASE Enqueues(d, q)
    <3>1. Waiting' = Waiting \cup {d} /\ d \notin Waiting
      BY <1>1, <2>2, Zenon DEF Waiting, Enqueues
    <3>2. Cardinality(Waiting') = queuedTasks + 1
      BY <2>0, <3>1, FS_AddElement, Zenon
    <3>3. QED
      BY <1>0, <2>2, <3>2 DEF Enqueues, IsQueueFull
  <2>3. CASE Leaves(d, q)
    <3>1. Waiting' = Waiting \ {d} /\ d \in Waiting
      BY <1>1, <2>3 DEF Waiting, Leaves
    <3>2. Cardinality(Waiting') = queuedTasks - 1
      BY <2>0, <3>1, FS_RemoveElement, Zenon
    <3>3. QED
      BY <1>0, <2>0, <2>3, <3>2 DEF Leaves
  <2>4. CASE Keeps(d, q) \/ Takes(d, q) \/ Admits(d, q) \/ Frees(d, q)
    BY <2>1, <2>4, Zenon DEF Keeps, Takes, Admits, Frees
  <2>5. QED
    BY <2>2, <2>3, <2>4, Zenon
<1>4. QED
  BY <1>2, <1>3, Zenon DEF ThrottleAccounting

\* The semaphores and the queue counter always equal the number of copies
\* they stand for and respect their limits, for every limit and every number
\* of commands: no interleaving leaks a slot or over-admits.
THEOREM ThrottleIsExact == Spec => []ThrottleAccounting
<1>1. Init => ThrottleAccounting
  <2> SUFFICES ASSUME Init PROVE ThrottleAccounting
    BY Zenon
  <2>1. Waiting = {} /\ \A s \in Sems : HoldersOf(s) = {}
    BY Zenon DEF Init, Waiting, HoldersOf, Holding
  <2>2. Cardinality(Waiting) = 0 /\ \A s \in Sems : Cardinality(HoldersOf(s)) = 0
    BY <2>1, FS_EmptySet, Zenon
  <2>3. QED
    BY <2>2, ConstantsAssumption DEF Init, ThrottleAccounting
<1>2. TypeOK /\ ThrottleAccounting /\ [Next]_vars => ThrottleAccounting'
  <2> SUFFICES ASSUME TypeOK, ThrottleAccounting, [Next]_vars
               PROVE  ThrottleAccounting'
    BY Zenon
  <2>1. CASE UNCHANGED <<pc, held, queuedTasks>>
    BY <2>1, Zenon DEF ThrottleAccounting, Waiting, HoldersOf
  <2>2. ASSUME NEW c \in Commands, HandleCancelCommand(c) \/ Expire(c)
        PROVE  UNCHANGED <<pc, held, queuedTasks>>
    BY <2>2, Zenon DEF HandleCancelCommand, Expire
  <2>3. CASE StartDrain \/ DrainCount \/ UNCHANGED vars
    BY <2>1, <2>3, Zenon DEF StartDrain, DrainCount, vars
  <2>4. QED
    BY <2>1, <2>2, <2>3, AccountingStep, Zenon DEF Next
<1>3. QED
  BY <1>1, <1>2, TypeCorrect, PTL DEF Spec

-----------------------------------------------------------------------------
(***************************************************************************)
(* What a worker's answers and its drain promise, for any number of        *)
(* commands, redelivered copies and semaphores.                            *)
(***************************************************************************)

(***************************************************************************)
(* Answers come from finished runs.  The cache hands a result to later     *)
(* copies, so the claim must also be made of every cached entry.           *)
(***************************************************************************)
Finished == {"unclaim", "send", "cleanup", "unjob", "release", "done"}

\* x, if it is a copy and not an acknowledgement, is one of c that finished.
FromFinished(x, c) == x \in Copies => Cmd(x) = c /\ pc[x] \in Finished

AnswerInv ==
  /\ \A c \in Commands : completed[c] # None => FromFinished(completed[c].by, c)
  /\ \A r \in sent : FromFinished(r.by, r.cmd)

\* A copy that has finished stays finished.
LEMMA FinishedStays ==
  ASSUME TypeOK, NEW d \in Copies, Receive(d) \/ Goroutine(d), NEW e \in Copies,
         pc[e] \in Finished
  PROVE  pc'[e] \in Finished
<1> USE DEF TypeOK, Finished, Goto
<1>1. CASE Receive(d)
  BY <1>1, Zenon DEF Receive, RejectDraining, DispatchThrottled, HandleRunJob, Scheduled
<1>2. CASE Goroutine(d)
  BY <1>2, Zenon DEF Goroutine, Acquire, LeaveQueue, CheckActive, CheckCompleted, Evict, Claim,
              StoreJob, StoreActive, Execute, CacheResult, Unclaim, ReportJob,
              SendAnswer, Cleanup, CleanupJob, Release
<1> QED
  BY <1>1, <1>2, Zenon

\* Every entry a step adds to the cache or to the spool comes from a finished
\* run, if those before it do.
LEMMA AnswerStep ==
  ASSUME TypeOK, AnswerInv, NEW d \in Copies, Receive(d) \/ Goroutine(d)
  PROVE  AnswerInv'
<1> USE DEF AnswerInv, FromFinished
<1>1. /\ Cmd(d) \in Commands /\ "queued" \notin Copies /\ "rejected" \notin Copies
      /\ None \notin Copies
  BY ConstantsAssumption, Zenon DEF Cmd
<1>2. \A x, c : FromFinished(x, c) => FromFinished(x, c)'
  BY FinishedStays, Zenon DEF Cmd
<1>3. /\ completed \in [Commands -> [age : {"fresh", "stale"}, by : Replies] \cup {None}]
      /\ sent \subseteq [cmd : Commands, by : Replies]
      /\ pc \in [Copies -> Steps]
  BY Zenon DEF TypeOK
<1>4. CASE RejectDraining(d)
  BY <1>1, <1>2, <1>3, <1>4 DEF RejectDraining, Reply
<1>5. CASE DispatchThrottled(d)
  BY <1>1, <1>2, <1>3, <1>5 DEF DispatchThrottled, Reply
<1>6. CASE HandleRunJob(d)
  <2>1. \A r \in sent' : r \in sent \/ FromFinished(r.by, r.cmd)
    BY <1>1, <1>3, <1>6 DEF HandleRunJob, Reply, Fresh
  <2>2. \A c \in Commands : \/ completed'[c] = completed[c] \/ completed'[c] = None
                            \/ completed'[c].by = "queued"
    BY <1>1, <1>3, <1>6 DEF HandleRunJob, Reply
  <2> QED
    BY <1>1, <1>2, <2>1, <2>2, Zenon
<1>7. CASE CheckCompleted(d)
  <2>1. \A r \in sent' : r \in sent \/ FromFinished(r.by, r.cmd)
    BY <1>1, <1>3, <1>7 DEF CheckCompleted, Reply, Fresh
  <2> QED
    BY <1>2, <2>1, <1>7, Zenon DEF CheckCompleted
<1>8. CASE CacheResult(d)
  <2>1. pc'[d] \in Finished /\ Cmd(d)' = Cmd(d)
    BY <1>3, <1>8, Zenon DEF CacheResult, Goto, Finished, Cmd
  <2>2. \A c \in Commands : \/ completed'[c] = completed[c]
                            \/ c = Cmd(d) /\ completed'[c].by = d
    BY <1>1, <1>3, <1>8, Zenon DEF CacheResult
  <2> QED
    BY <1>2, <2>1, <2>2, <1>8, Zenon DEF CacheResult
<1>9. CASE SendAnswer(d)
  <2>1. pc'[d] \in Finished /\ Cmd(d)' = Cmd(d)
    BY <1>3, <1>9, Zenon DEF SendAnswer, Goto, Finished, Cmd
  <2> QED
    BY <1>2, <2>1, <1>9 DEF SendAnswer, Reply
<1>10. CASE Evict(d) \/ Unclaim(d)
  <2>1. \A c \in Commands : completed'[c] = completed[c] \/ completed'[c] = None
    BY <1>1, <1>3, <1>10, Zenon DEF Evict, Unclaim
  <2> QED
    BY <1>2, <2>1, <1>10, Zenon DEF Evict, Unclaim
<1>11. CASE UNCHANGED <<completed, sent>>
  BY <1>2, <1>11, Zenon
<1> QED
  BY <1>4, <1>5, <1>6, <1>7, <1>8, <1>9, <1>10, <1>11, Zenon
  DEF Receive, Goroutine, Acquire, LeaveQueue, CheckActive, Claim, StoreJob, StoreActive,
      Execute, ReportJob, Cleanup, CleanupJob, Release

\* Whatever the redeliveries, the interleaving and the expiry of the cache, a
\* result the worker sends was produced by a finished execution of the command
\* it is sent for (beginDurableCommand's replay and finishDurableCommand).
THEOREM AnswersAreReal == Spec => []AnswerFromFinishedRun
<1>1. Init => AnswerInv
  BY Zenon DEF Init, AnswerInv
<1>2. TypeOK /\ AnswerInv /\ [Next]_vars => AnswerInv'
  <2> SUFFICES ASSUME TypeOK, AnswerInv, [Next]_vars PROVE AnswerInv'
    BY Zenon
  <2>1. CASE UNCHANGED <<pc, completed, sent>>
    BY <2>1, Zenon DEF AnswerInv, FromFinished, Cmd
  <2>2. ASSUME NEW c \in Commands, HandleCancelCommand(c) PROVE AnswerInv'
    BY <2>1, <2>2, Zenon DEF HandleCancelCommand
  <2>3. ASSUME NEW c \in Commands, Expire(c) PROVE AnswerInv'
    <3>1. \A q \in Commands : completed[q] = None => completed'[q] = None
      BY <2>3, Zenon DEF Expire, Fresh, TypeOK
    <3>2. \A q \in Commands : completed[q] # None => completed'[q].by = completed[q].by
      BY <2>3, Zenon DEF Expire, Fresh, TypeOK
    <3> QED
      BY <2>3, <3>1, <3>2, Zenon DEF Expire, AnswerInv, FromFinished, Cmd
  <2>4. CASE StartDrain \/ DrainCount \/ UNCHANGED vars
    BY <2>1, <2>4, Zenon DEF StartDrain, DrainCount, vars
  <2> QED
    BY <2>2, <2>3, <2>4, AnswerStep, Zenon DEF Next
<1>3. AnswerInv => AnswerFromFinishedRun
  BY Zenon DEF AnswerInv, FromFinished, AnswerFromFinishedRun, Finished
<1> QED
  BY <1>1, <1>2, <1>3, TypeCorrect, PTL DEF Spec

(***************************************************************************)
(* The drain.  While the only copy of a command is unanswered its entry in *)
(* ActiveCommands exists, so the count cannot be zero.                     *)
(***************************************************************************)
Registered ==
  \A d \in Copies :
    SoleCopy(d) /\ pc[d] \in Unanswered => activeCommands[Cmd(d)] # None

Answered(d) == [cmd |-> Cmd(d), by |-> d] \in sent

DrainInv ==
  \A d \in inFlight :
    SoleCopy(d) =>
      /\ pc[d] \in Unanswered \/ Answered(d)
      /\ phase \in {"counted", "drained"} => Answered(d)

\* A copy that left the wire does not return to it, and one that leaves the
\* unanswered steps has been answered.
LEMMA DrainMoves ==
  ASSUME TypeOK, NEW d \in Copies, Receive(d) \/ Goroutine(d)
  PROVE  /\ \A e \in Copies : e # d => pc'[e] = pc[e]
         /\ pc'[d] # "wire"
         /\ sent \subseteq sent' /\ UNCHANGED <<phase, inFlight>>
         /\ pc[d] \in Unanswered => pc'[d] \in Unanswered \/ Answered(d)'
<1> USE DEF TypeOK, Goto, Unanswered, control, Reply, Answered, Cmd
<1>1. CASE Receive(d)
  BY <1>1, Zenon DEF Receive, RejectDraining, DispatchThrottled, HandleRunJob, Scheduled
<1>2. CASE Goroutine(d)
  BY <1>2, Zenon DEF Goroutine, Acquire, LeaveQueue, CheckActive, CheckCompleted, Evict, Claim,
              StoreJob, StoreActive, Execute, CacheResult, Unclaim, ReportJob,
              SendAnswer, Cleanup, CleanupJob, Release
<1> QED
  BY <1>1, <1>2, Zenon

\* A step of one copy of a command never makes another copy the sole one.
LEMMA SoleCopyShrinks ==
  ASSUME TypeOK, NEW d \in Copies, Receive(d) \/ Goroutine(d), NEW e \in Copies
  PROVE  SoleCopy(e)' => SoleCopy(e) /\ (e = d \/ Cmd(e) # Cmd(d))
  BY DrainMoves, Zenon DEF SoleCopy, Cmd

\* Every step keeps the sole copy of an unanswered command in activeCommands.
LEMMA RegisteredStep ==
  ASSUME TypeOK, Registered, NEW d \in Copies, Receive(d) \/ Goroutine(d)
  PROVE  Registered'
<1> SUFFICES ASSUME NEW e \in Copies, SoleCopy(e)', pc'[e] \in Unanswered
             PROVE  activeCommands'[Cmd(e)] # None
  BY Zenon DEF Registered, Cmd
<1>1. SoleCopy(e) /\ (e = d \/ Cmd(e) # Cmd(d))
  BY SoleCopyShrinks, Zenon
<1>2. /\ Cmd(d) \in Commands /\ Cmd(e) \in Commands /\ None \notin Copies
      /\ pc \in [Copies -> Steps] /\ pc'[e] \in Unanswered
      /\ activeCommands \in [Commands -> Copies \cup {None}]
  BY ConstantsAssumption, Zenon DEF TypeOK, Cmd
<1>3. CASE e # d
  <2>1. activeCommands'[Cmd(e)] = activeCommands[Cmd(e)] /\ pc'[e] = pc[e]
    BY <1>1, <1>2, <1>3, DrainMoves, Zenon
    DEF Receive, Goroutine, RejectDraining, DispatchThrottled, HandleRunJob, Acquire,
        LeaveQueue, CheckActive, CheckCompleted, Evict, Claim, StoreJob, StoreActive,
        Execute, CacheResult, Unclaim, ReportJob, SendAnswer, Cleanup, CleanupJob, Release
  <2> QED
    BY <1>1, <1>2, <2>1, Zenon DEF Registered
<1>4. CASE e = d /\ StoreActive(d)
  BY <1>2, <1>4, Zenon DEF StoreActive
<1>5. CASE e = d /\ ~StoreActive(d)
  <2>1. pc[d] \in Unanswered /\ activeCommands' = activeCommands
    BY <1>2, <1>5, Zenon
    DEF Receive, Goroutine, RejectDraining, DispatchThrottled, HandleRunJob, Scheduled,
        Acquire, LeaveQueue, CheckActive, CheckCompleted, Evict, Claim, StoreJob, Execute,
        CacheResult, Unclaim, ReportJob, SendAnswer, Cleanup, CleanupJob, Release,
        Unanswered, Goto
  <2> QED
    BY <1>1, <1>5, <2>1, Zenon DEF Registered
<1> QED
  BY <1>3, <1>4, <1>5, Zenon

\* Every step keeps what the drain counts running or answered.
LEMMA DrainStep ==
  ASSUME TypeOK, DrainInv, NEW d \in Copies, Receive(d) \/ Goroutine(d)
  PROVE  DrainInv'
<1> SUFFICES ASSUME NEW e \in inFlight', SoleCopy(e)'
             PROVE  /\ pc'[e] \in Unanswered \/ Answered(e)'
                    /\ phase' \in {"counted", "drained"} => Answered(e)'
  BY Zenon DEF DrainInv
<1>1. e \in inFlight /\ e \in Copies /\ UNCHANGED <<phase, inFlight>>
  BY DrainMoves, Zenon DEF TypeOK
<1>2. SoleCopy(e)
  BY <1>1, SoleCopyShrinks, Zenon
<1>3. Answered(e) => Answered(e)'
  BY DrainMoves, Zenon DEF Answered, Cmd
<1>4. pc[e] \in Unanswered => pc'[e] \in Unanswered \/ Answered(e)'
  BY <1>1, DrainMoves, Zenon
<1> QED
  BY <1>1, <1>2, <1>3, <1>4, Zenon DEF DrainInv

\* drainAndFlush never reports a drained worker while the answer of a command
\* that was executing at the start of the shutdown, and was delivered once, is
\* not in the spool, for any number of commands, jobs and copies.
THEOREM DrainIsComplete == Spec => []DrainWaitsForRunning
<1>1. Init => Registered /\ DrainInv
  BY Zenon DEF Init, Registered, DrainInv, Unanswered
<1>2. TypeOK /\ Registered /\ DrainInv /\ [Next]_vars => Registered' /\ DrainInv'
  <2> SUFFICES ASSUME TypeOK, Registered, DrainInv, [Next]_vars
               PROVE  Registered' /\ DrainInv'
    BY Zenon
  <2>1. CASE UNCHANGED <<pc, activeCommands, sent, phase, inFlight>>
    BY <2>1, Zenon DEF Registered, DrainInv, SoleCopy, Answered, Cmd
  <2>2. ASSUME NEW c \in Commands, HandleCancelCommand(c) \/ Expire(c)
        PROVE  UNCHANGED <<pc, activeCommands, sent, phase, inFlight>>
    BY <2>2, Zenon DEF HandleCancelCommand, Expire, control
  <2>3. CASE StartDrain
    BY <2>3, Zenon DEF StartDrain, Registered, DrainInv, SoleCopy, Answered, Cmd
  <2>4. CASE DrainCount
    <3>1. Registered'
      BY <2>4, Zenon DEF DrainCount, Registered, SoleCopy, Cmd
    <3>2. phase' = "counted" =>
            \A e \in inFlight : SoleCopy(e) => pc[e] \notin Unanswered
      BY <2>4, ConstantsAssumption DEF DrainCount, Registered, TypeOK, Cmd
    <3> QED
      BY <2>4, <3>1, <3>2, Zenon DEF DrainCount, DrainInv, SoleCopy, Answered, Cmd
  <2>5. CASE UNCHANGED vars
    BY <2>1, <2>5, Zenon DEF vars
  <2>6. ASSUME NEW d \in Copies, Receive(d) \/ Goroutine(d)
        PROVE  Registered' /\ DrainInv'
    BY <2>6, RegisteredStep, DrainStep, Zenon
  <2> QED
    BY <2>1, <2>2, <2>3, <2>4, <2>5, <2>6, Zenon DEF Next
<1>3. TypeOK /\ DrainInv => DrainWaitsForRunning
  BY Zenon DEF DrainInv, DrainWaitsForRunning, Answered
<1> QED
  BY <1>1, <1>2, <1>3, TypeCorrect, PTL DEF Spec

(***************************************************************************)
(* A job's container, its files and its kill, for any number of            *)
(* deliveries.                                                             *)
(***************************************************************************)

\* The inductive invariant.  While the worker lives, the position of RunJob
\* says what is on the disk and whether the container can exist: it is started
\* on the way from "start" to "run" and nowhere else, so that a kill which met
\* a container has met the only one.
JobInv ==
  /\ JobContainerTypeOK
  /\ ~died =>
       /\ jobStep \in {"idle", "configs"} => staged = {}
       /\ jobStep = "auth" => staged \subseteq {"configs"}
       /\ jobStep \in {"start", "run", "stop"} => staged \subseteq {"configs", "auth"}
       /\ jobStep = "done" => staged \subseteq {"emptyDir"}
       /\ container = "running" => jobStep \in {"run", "stop"} \/ (jobStep = "done" /\ stopFailed)
       /\ kill = "stopped" => container = "none" /\ jobStep \in {"stop", "done"}

\* Every step keeps it.
LEMMA JobInvStep == JobInv /\ [JobContainerNext]_jobVars => JobInv'
<1> SUFFICES ASSUME JobInv, [JobContainerNext]_jobVars PROVE JobInv'
  BY Zenon
<1> USE JobContainerAssumption DEF JobInv, JobContainerTypeOK, Returns
<1>1. CASE BeginJob
  <2>1. executions' \in 0 .. MaxExecutions  BY <1>1 DEF BeginJob
  <2>2. jobStep' \in {"configs", "done"} /\ staged' = staged  BY <1>1, Zenon DEF BeginJob
  <2> QED BY <1>1, <2>1, <2>2, Zenon DEF BeginJob
<1>2. CASE StageConfigs  BY <1>2, Zenon DEF StageConfigs
<1>3. CASE StageAuth  BY <1>3, Zenon DEF StageAuth
<1>4. CASE StartContainer  BY <1>4, Zenon DEF StartContainer
<1>5. ASSUME NEW code \in {"zero", "other"}, ContainerExits(code) PROVE JobInv'
  BY <1>5, Zenon DEF ContainerExits
<1>6. CASE TimeIsUp  BY <1>6 DEF TimeIsUp
<1>7. CASE ClientKilled  BY <1>7, Zenon DEF ClientKilled
<1>8. CASE StopContainer  BY <1>8, Zenon DEF StopContainer
<1>9. CASE KillJob
  <2>1. CASE container = "running" /\ container' = "none"
    BY <1>9, <2>1, Zenon DEF KillJob
  <2>2. CASE kill' = "failed" /\ UNCHANGED <<container, exit, jobStep, answer, staged>>
    BY <1>9, <2>2 DEF KillJob
  <2> QED BY <1>9, <2>1, <2>2, Zenon DEF KillJob
<1>10. CASE WorkerDies  BY <1>10, Zenon DEF WorkerDies
<1>11. CASE UNCHANGED jobVars  BY <1>11 DEF jobVars
<1> QED
  BY <1>1, <1>2, <1>3, <1>4, <1>5, <1>6, <1>7, <1>8, <1>9, <1>10, <1>11, Zenon
     DEF JobContainerNext

\* A run that was answered has no container and no file left, and a kill that
\* was answered with "stopped" stopped the run for good, wherever in RunJob it
\* came (worker/executor/runner.go).
THEOREM JobContainerCorrect == JobContainerSpec => []JobContainerSafety
<1>1. JobContainerInit => JobInv
  <2> SUFFICES ASSUME JobContainerInit PROVE JobInv
    BY Zenon
  <2>1. executions \in 0 .. MaxExecutions
    BY JobContainerAssumption DEF JobContainerInit
  <2>2. JobContainerTypeOK
    BY <2>1, Zenon DEF JobContainerInit, JobContainerTypeOK
  <2> QED BY <2>2, Zenon DEF JobContainerInit, JobInv
<1>2. JobInv => JobContainerSafety
  <2> SUFFICES ASSUME JobInv PROVE JobContainerSafety
    BY Zenon
  <2>1. JobContainerTypeOK /\ JobFilesAreReleased /\ KilledStaysStopped
    BY Zenon DEF JobInv, JobFilesAreReleased, KilledStaysStopped
  <2>2. AnsweredJobIsNotRunning
    BY Zenon DEF JobInv, AnsweredJobIsNotRunning, JobContainerTypeOK
  <2> QED BY <2>1, <2>2, Zenon DEF JobContainerSafety
<1> QED BY <1>1, <1>2, JobInvStep, PTL DEF JobContainerSpec

(***************************************************************************)
(* The worker's outbox: a stored result is kept until the server has it,   *)
(* and the spool implements the abstract outbox, for every number of       *)
(* flushes.                                                                *)
(***************************************************************************)

\* Nothing happened that excuses a lost message, and nobody has it yet.
Owed == ~struck /\ sealed /\ ~purged /\ ~delivered

\* The inductive invariant. A message that is owed is in its file and on the
\* disk, so that neither a process that dies nor a power failure outside a
\* rewrite can take it; an acknowledgement is a sign that the server has it;
\* and nothing exists of a message that has not been written.
SpoolInv ==
  /\ wire \in Int /\ acks \in Int
  /\ spoolFile \in {"none", "msg", "torn"} /\ onDisk \in {"none", "msg"}
  /\ writer \in {"new", "stored", "synced", "done"}
  /\ promised /\ Owed => spoolFile = "msg" /\ onDisk = "msg"
  /\ promised => writer \in {"synced", "done"}
  /\ spoolFile = "torn" => writer \in {"new", "done"}
  /\ acks > 0 => delivered
  /\ writer = "new" => spoolFile = "none" /\ ~(wire > 0) /\ ~delivered /\ flusher = "idle"

\* Initially there is no message, so nothing is owed.
LEMMA SpoolInvInit == SpoolInit => SpoolInv
BY DEF SpoolInit, SpoolInv, Owed

\* Every step keeps the invariant.
LEMMA SpoolInvStep == SpoolInv /\ [SpoolNext]_spoolVars => SpoolInv'
<1> SUFFICES ASSUME SpoolInv, [SpoolNext]_spoolVars PROVE SpoolInv'
  BY Zenon
<1> USE DEF SpoolInv, Owed
<1>1. CASE EnqueueWrite  BY <1>1, Zenon DEF EnqueueWrite, Put
<1>2. CASE EnqueueSync   BY <1>2, Zenon DEF EnqueueSync, Sync
<1>3. CASE SendFirst     BY <1>3 DEF SendFirst
<1>4. CASE ListPending   BY <1>4, Zenon DEF ListPending
<1>5. CASE MarkRead      BY <1>5, Zenon DEF MarkRead
<1>6. CASE MarkWrite     BY <1>6, Zenon DEF MarkWrite, Put
<1>7. CASE MarkSync      BY <1>7, Zenon DEF MarkSync, Sync
<1>8. CASE FlushSend     BY <1>8 DEF FlushSend
<1>9. CASE Deliver       BY <1>9 DEF Deliver
<1>10. CASE LoseOne      BY <1>10 DEF LoseOne
<1>11. CASE AckPersistent BY <1>11 DEF AckPersistent
<1>12. CASE Restart
  <2>1. sealed' => sealed  BY <1>12, Zenon DEF Restart
  <2> QED BY <1>12, <2>1 DEF Restart, Processes
<1>13. CASE PowerFails
  <2>1. ~struck' => ~struck /\ ~(~synced /\ spoolFile = "msg" /\ onDisk = "msg")
    BY <1>13, Zenon DEF PowerFails
  <2>2. promised' /\ Owed' => spoolFile' = "msg" /\ onDisk' = "msg"
    BY <1>13, <2>1, Zenon DEF PowerFails, Processes
  <2> QED BY <1>13, <2>2 DEF PowerFails, Processes
<1>14. CASE Purge        BY <1>14, Zenon DEF Purge
<1>15. CASE UNCHANGED spoolVars BY <1>15, Zenon DEF spoolVars
<1> QED
  BY <1>1, <1>2, <1>3, <1>4, <1>5, <1>6, <1>7, <1>8, <1>9, <1>10, <1>11,
     <1>12, <1>13, <1>14, <1>15, Zenon DEF SpoolNext

\* The invariant holds throughout.
LEMMA SpoolInvHolds == SpoolSpec => []SpoolInv
BY SpoolInvInit, SpoolInvStep, PTL DEF SpoolSpec

\* A result that Enqueue stored stays in its file until the server has it,
\* unless the token changed, the worker was revoked, or power failed while
\* MarkAttempt was rewriting it (worker/spool/store.go).
THEOREM SpoolKeepsStored == SpoolSpec => []StoredIsKept
<1>1. SpoolInv => StoredIsKept  BY Zenon DEF SpoolInv, StoredIsKept, Owed
<1> QED BY <1>1, SpoolInvHolds, PTL

\* The initial states of the spool are those of an empty outbox.
LEMMA ContractInit == SpoolInit => Contract!OutboxInit
BY Zenon DEF SpoolInit, Contract!OutboxInit

\* Every step of the spool is a step of the outbox or changes nothing of it.
LEMMA ContractStep ==
  SpoolInv /\ [SpoolNext]_spoolVars => [Contract!OutboxNext]_(Contract!outboxVars)
<1> SUFFICES ASSUME SpoolInv, [SpoolNext]_spoolVars
             PROVE  [Contract!OutboxNext]_(Contract!outboxVars)
  BY Zenon
<1> USE DEF SpoolInv, Owed, Contract!outboxVars, Contract!OutboxNext
<1>1. CASE EnqueueWrite  BY <1>1, Zenon DEF EnqueueWrite, Put, Contract!Take
<1>2. CASE EnqueueSync   BY <1>2, Zenon DEF EnqueueSync, Sync, Contract!Promise
<1>3. CASE SendFirst     BY <1>3, Zenon DEF SendFirst
<1>4. CASE ListPending   BY <1>4, Zenon DEF ListPending, Contract!Drop
<1>5. CASE MarkRead      BY <1>5, Zenon DEF MarkRead
<1>6. CASE MarkWrite     BY <1>6, Zenon DEF MarkWrite, Put, Contract!Resurface
<1>7. CASE MarkSync      BY <1>7, Zenon DEF MarkSync, Sync
<1>8. CASE FlushSend     BY <1>8, Zenon DEF FlushSend
<1>9. CASE Deliver       BY <1>9, Zenon DEF Deliver, Contract!See
<1>10. CASE LoseOne      BY <1>10, Zenon DEF LoseOne
<1>11. CASE AckPersistent BY <1>11, Zenon DEF AckPersistent, Contract!Drop
<1>12. CASE Restart      BY <1>12, Zenon DEF Restart, Processes, Contract!Excuse
<1>13. CASE PowerFails
  BY <1>13, Zenon DEF PowerFails, Processes, Contract!Drop, Contract!Excuse, Contract!Resurface
<1>14. CASE Purge        BY <1>14, Zenon DEF Purge, Contract!Drop, Contract!Excuse
<1>15. CASE UNCHANGED spoolVars BY <1>15, Zenon DEF spoolVars
<1> QED
  BY <1>1, <1>2, <1>3, <1>4, <1>5, <1>6, <1>7, <1>8, <1>9, <1>10, <1>11,
     <1>12, <1>13, <1>14, <1>15, Zenon DEF SpoolNext

\* The spool implements the outbox: a message reaches the server only after
\* it was stored, and a stored one is dropped only when the server has it or
\* with an excuse, for any number of flushes, restarts and power failures.
THEOREM SpoolImplementsOutbox == SpoolSpec => KeepsContract
BY ContractInit, ContractStep, SpoolInvHolds, PTL
   DEF SpoolSpec, KeepsContract, Contract!OutboxSpec
=============================================================================
