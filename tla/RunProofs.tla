----------------------------- MODULE RunProofs ------------------------------
(***************************************************************************)
(* What runs and when: the theorems of JobRuns, Schedules and Executor,    *)
(* for every value of their constants.                                     *)
(***************************************************************************)
EXTENDS JobRuns, Schedules, Executor, TLAPS

(***************************************************************************)
(* The types of the job runs and two promises about them, for any set of   *)
(* runs and any number of faults. Neither promise is inductive. That a     *)
(* recorded success is real needs to be said of every place a verdict      *)
(* passes on its way: the worker, the spool and the goroutine that         *)
(* completes the run. That a settled run stays settled needs that nothing  *)
(* is known of a run whose record was not created yet, so that CreateRun   *)
(* never meets a settled one.                                              *)
(***************************************************************************)

Statuses == {"none", "pending", "running"} \cup Terminal
CallerSteps == {"none", "created", "dispatching", "accepted", "failed", "done"}
JobSteps == {"none", "queued", "active", "success", "error", "over"}

\* The places a verdict passes hold values of their kind.
VerdictsTyped ==
  /\ status \in [Runs -> Statuses]
  /\ caller \in [Runs -> CallerSteps]
  /\ job \in [Runs -> JobSteps]
  /\ outbox \subseteq Messages /\ completing \subseteq Completions

\* Nothing has happened to a run that was not created.
Untouched(r) ==
  /\ status[r] = "none" /\ job[r] = "none"
  /\ r \notin toWorker /\ r \notin replying
NotYetCreated == \A r \in Runs : caller[r] = "none" => Untouched(r)

\* A message is about a run that was created, and a success about one of
\* which a container exited with success.
Honest(m) == /\ caller[m.run] # "none"
             /\ m.kind = "success" => m.run \in succeeded
MessagesAreHonest == \A m \in outbox \cup completing : Honest(m)

VerdictsAreReal ==
  \A r \in Runs : status[r] = "success" \/ job[r] = "success" => r \in succeeded

VerdictInv == VerdictsTyped /\ NotYetCreated /\ MessagesAreHonest /\ VerdictsAreReal

\* No run has a verdict at the start.
LEMMA VerdictInit == Init => VerdictInv
  BY Zenon DEF Init, VerdictInv, VerdictsTyped, NotYetCreated, Untouched,
         MessagesAreHonest, Honest, VerdictsAreReal, Statuses, CallerSteps, JobSteps,
         Terminal

\* The dispatching goroutine creates and moves a record.
LEMMA CallerKeepsVerdicts ==
  ASSUME VerdictInv, NEW r \in Runs,
         FailBeforeDispatch(r) \/ CreateRun(r) \/ ServerStep(r)
  PROVE  VerdictInv'
<1> USE DEF VerdictInv, VerdictsTyped, NotYetCreated, Untouched, MessagesAreHonest,
            Honest, VerdictsAreReal, Statuses, CallerSteps, Terminal, Save, SaveFails,
            Goto, record, calls, link, container
<1>1. CASE FailBeforeDispatch(r)
  BY <1>1 DEF FailBeforeDispatch
<1>2. CASE CreateRun(r)
  BY <1>2 DEF CreateRun
<1>3. CASE Prepare(r)
  <2>1. \E step \in CallerSteps \ {"none"} : Goto(r, step)
    BY <1>3, Zenon DEF Prepare
  <2>2. caller[r] # "none" /\ status' = status /\ toWorker' \subseteq toWorker \cup {r}
    BY <1>3, Zenon DEF Prepare
  <2>3. UNCHANGED <<job, replying, succeeded, outbox, completing>>
    BY <1>3, Zenon DEF Prepare
  <2> QED
    BY <2>1, <2>2, <2>3
<1>4. CASE DispatchReturns(r)
  <2>1. \E step \in CallerSteps \ {"none"} : Goto(r, step)
    BY <1>4, Zenon DEF DispatchReturns
  <2>2. UNCHANGED <<status, job, toWorker, replying, succeeded, outbox, completing>>
    BY <1>4, Zenon DEF DispatchReturns
  <2>3. caller[r] # "none"
    BY <1>4, Zenon DEF DispatchReturns
  <2> QED
    BY <2>1, <2>2, <2>3
<1>5. CASE FailRun(r)
  BY <1>5 DEF FailRun
<1>6. CASE SetJobRunStarted(r)
  BY <1>6 DEF SetJobRunStarted
<1> QED
  BY <1>1, <1>2, <1>3, <1>4, <1>5, <1>6, Zenon DEF ServerStep

\* The worker turns a command into a verdict and the verdict into a message.
LEMMA WorkerKeepsVerdicts ==
  ASSUME VerdictInv, NEW r \in Runs, WorkerStep(r)
  PROVE  VerdictInv'
<1> USE DEF VerdictInv, VerdictsTyped, NotYetCreated, Untouched, MessagesAreHonest,
            Honest, VerdictsAreReal, JobSteps, Messages, record, calls, link
<1>1. CASE HandleRunJob(r)
  BY <1>1 DEF HandleRunJob
<1>2. CASE ReplyAccepted(r)
  BY <1>2 DEF ReplyAccepted
<1>3. CASE StartJob(r)
  BY <1>3, Zenon DEF StartJob
<1>4. CASE FinishJob(r)
  BY <1>4 DEF FinishJob
<1>5. CASE ReportJobCompleted(r)
  BY <1>5 DEF ReportJobCompleted
<1> QED
  BY <1>1, <1>2, <1>3, <1>4, <1>5, Zenon DEF WorkerStep

\* A message is read, then its verdict is recorded.
LEMMA MessagesKeepVerdicts ==
  ASSUME VerdictInv, NEW m \in Messages, ReadMessage(m) \/ HandleJobCompleted(m)
  PROVE  VerdictInv'
<1> USE DEF VerdictInv, VerdictsTyped, NotYetCreated, Untouched, MessagesAreHonest,
            Honest, VerdictsAreReal, record, calls, link, container
<1>1. CASE ReadMessage(m)
  BY <1>1, Zenon DEF ReadMessage
<1>2. CASE HandleJobCompleted(m)
  <2>1. m \in completing /\ m.run \in Runs /\ m.kind \in {"success", "error"}
    BY <1>2, Zenon DEF HandleJobCompleted, Completions, Messages
  <2>2. CASE SaveFails
    BY <1>2, <2>1, <2>2, Zenon DEF HandleJobCompleted, SaveFails
  <2>3. CASE Save(m.run, m.kind)
    BY <1>2, <2>1, <2>3 DEF HandleJobCompleted, Save, Statuses, Terminal
  <2> QED
    BY <1>2, <2>2, <2>3, Zenon DEF HandleJobCompleted
<1> QED
  BY <1>1, <1>2, Zenon

\* The judges settle runs whose record exists, never as a success.
LEMMA JudgesKeepVerdicts ==
  ASSUME VerdictInv,
         \/ ReconcileActiveJobs
         \/ HandleWorkerDisconnect
         \/ \E r \in Runs : MarkForgottenRuns(r)
         \/ ServerRestart
  PROVE  VerdictInv'
<1> USE DEF VerdictInv, VerdictsTyped, NotYetCreated, Untouched, MessagesAreHonest,
            Honest, VerdictsAreReal, Statuses, Terminal, record, calls, link, container
<1>1. CASE ReconcileActiveJobs
  BY <1>1 DEF ReconcileActiveJobs, Settle, SaveFails
<1>2. CASE HandleWorkerDisconnect
  BY <1>2 DEF HandleWorkerDisconnect, Settle, SaveFails
<1>3. ASSUME NEW r \in Runs, MarkForgottenRuns(r) PROVE VerdictInv'
  BY <1>3 DEF MarkForgottenRuns, Save, SaveFails
<1>4. CASE ServerRestart
  <2>1. PICK lost \in SUBSET {r \in Runs : status[r] = "pending"} :
          status' = [r \in Runs |-> IF status[r] = "pending" /\ r \notin lost
                                    THEN "error" ELSE status[r]]
    BY <1>4, Zenon DEF ServerRestart
  <2>2. caller' = [r \in Runs |-> IF caller[r] = "none" THEN "none" ELSE "done"]
    BY <1>4, Zenon DEF ServerRestart
  <2>3. /\ completing' = {} /\ toWorker' = {}
        /\ UNCHANGED <<job, replying, succeeded, outbox>>
    BY <1>4, Zenon DEF ServerRestart
  <2>4. VerdictsTyped' /\ VerdictsAreReal'
    BY <2>1, <2>2, <2>3, Zenon DEF CallerSteps
  <2>5. NotYetCreated'
    BY <2>1, <2>2, <2>3, Zenon
  <2>6. MessagesAreHonest'
    BY <2>2, <2>3, Zenon DEF Messages
  <2> QED
    BY <2>4, <2>5, <2>6, Zenon
<1> QED
  BY <1>1, <1>2, <1>3, <1>4, Zenon

\* The rest touches no verdict; a crash of the worker forgets some.
LEMMA OthersKeepVerdicts ==
  ASSUME VerdictInv,
         \/ \E r \in Runs : Age(r)
         \/ Heartbeat \/ Notice \/ Reconnect \/ RunHook \/ FireTimer
         \/ Break \/ WorkerCrash \/ UNCHANGED vars
  PROVE  VerdictInv'
<1> USE DEF VerdictInv, VerdictsTyped, NotYetCreated, Untouched, MessagesAreHonest,
            Honest, VerdictsAreReal, record, calls, link, container
<1>1. CASE (\E r \in Runs : Age(r)) \/ Heartbeat \/ Notice \/ RunHook \/ FireTimer
  BY <1>1, Zenon DEF Age, Heartbeat, Notice, RunHook, FireTimer
<1>2. CASE Reconnect
  BY <1>2, Zenon DEF Reconnect
<1>3. CASE Break
  BY <1>3, Zenon DEF Break
<1>4. CASE WorkerCrash
  BY <1>4, Zenon DEF WorkerCrash, JobSteps
<1>5. CASE UNCHANGED vars
  BY <1>5, Zenon DEF vars
<1> QED
  BY <1>1, <1>2, <1>3, <1>4, <1>5, Zenon

\* Every step of the scheduler and of the workers keeps the verdicts honest.
LEMMA VerdictNext == VerdictInv /\ [Next]_vars => VerdictInv'
<1> SUFFICES ASSUME VerdictInv, [Next]_vars PROVE VerdictInv'
  BY Zenon
<1>1. CASE \E r \in Runs : FailBeforeDispatch(r) \/ CreateRun(r) \/ ServerStep(r)
  BY <1>1, CallerKeepsVerdicts, Zenon
<1>2. CASE \E r \in Runs : WorkerStep(r)
  BY <1>2, WorkerKeepsVerdicts, Zenon
<1>3. CASE \E m \in Messages : ReadMessage(m) \/ HandleJobCompleted(m)
  BY <1>3, MessagesKeepVerdicts, Zenon
<1>4. CASE \/ ReconcileActiveJobs \/ HandleWorkerDisconnect
           \/ \E r \in Runs : MarkForgottenRuns(r)
           \/ ServerRestart
  BY <1>4, JudgesKeepVerdicts, Zenon
<1>5. CASE \/ \E r \in Runs : Age(r)
           \/ Heartbeat \/ Notice \/ Reconnect \/ RunHook \/ FireTimer
           \/ Break \/ WorkerCrash \/ UNCHANGED vars
  BY <1>5, OthersKeepVerdicts, Zenon
<1> QED
  BY <1>1, <1>2, <1>3, <1>4, <1>5, Zenon DEF Next, Hook

\* Verdicts are honest in every reachable state.
LEMMA VerdictInvariant == Spec => []VerdictInv
  BY VerdictInit, VerdictNext, PTL DEF Spec

\* However many runs there are and however often connections break, the server
\* restarts, the worker crashes or a save fails: a record that says success is
\* about a run of which a container exited with success (HandleJobCompleted and
\* the judges in scheduler.go).
THEOREM JobSuccessIsReal == Spec => []SuccessIsReal
<1>1. VerdictInv => SuccessIsReal
  BY Zenon DEF VerdictInv, VerdictsAreReal, SuccessIsReal
<1> QED
  BY <1>1, VerdictInvariant, PTL

-----------------------------------------------------------------------------
Settling == \A r \in Runs : status[r] \in Terminal => status'[r] \in Terminal

\* A step never takes a settled run back.
LEMMA StepsSettle == VerdictInv /\ [Next]_vars => Settling
<1> SUFFICES ASSUME VerdictInv, [Next]_vars PROVE Settling
  BY Zenon
<1> USE DEF Settling, Terminal, VerdictInv, VerdictsTyped, Statuses
<1>1. ASSUME NEW r \in Runs, FailBeforeDispatch(r) \/ CreateRun(r) PROVE Settling
  BY <1>1, Zenon DEF FailBeforeDispatch, CreateRun, Save, NotYetCreated, Untouched
<1>2. ASSUME NEW r \in Runs, ServerStep(r) PROVE Settling
  BY <1>2, Zenon DEF ServerStep, Prepare, DispatchReturns, FailRun, SetJobRunStarted, Save,
              SaveFails, record
<1>3. ASSUME NEW r \in Runs, WorkerStep(r) \/ Age(r) PROVE Settling
  BY <1>3, Zenon DEF WorkerStep, HandleRunJob, ReplyAccepted, StartJob, FinishJob,
              ReportJobCompleted, Age, record
<1>4. ASSUME NEW r \in Runs, MarkForgottenRuns(r) PROVE Settling
  BY <1>4, Zenon DEF MarkForgottenRuns, Save, SaveFails, record
<1>5. ASSUME NEW m \in Messages, ReadMessage(m) PROVE Settling
  BY <1>5, Zenon DEF ReadMessage, record
<1>6. ASSUME NEW m \in Messages, HandleJobCompleted(m) PROVE Settling
  <2>1. m.run \in Runs /\ m.kind \in {"success", "error"}
    BY <1>6, Zenon DEF HandleJobCompleted, Completions, Messages
  <2> QED
    BY <1>6, <2>1, Zenon DEF HandleJobCompleted, Save, SaveFails, record
<1>7. CASE ReconcileActiveJobs \/ HandleWorkerDisconnect
  BY <1>7, Zenon DEF ReconcileActiveJobs, HandleWorkerDisconnect, Settle, SaveFails, record
<1>8. CASE Heartbeat \/ Notice \/ Reconnect \/ RunHook \/ FireTimer \/ Break \/ WorkerCrash
  BY <1>8, Zenon DEF Heartbeat, Notice, Reconnect, RunHook, FireTimer, Break, WorkerCrash, record
<1>9. CASE ServerRestart
  BY <1>9, Zenon DEF ServerRestart
<1>10. CASE UNCHANGED vars
  BY <1>10, Zenon DEF vars, record
<1> QED
  BY <1>1, <1>2, <1>3, <1>4, <1>5, <1>6, <1>7, <1>8, <1>9, <1>10, Zenon DEF Next, Hook

\* A run that was settled is never shown as pending or running again, for any
\* number of runs and faults: neither the acceptance (setJobRunStarted) nor a
\* judge nor a redelivered completion takes it back.
THEOREM JobSettledStaysSettled == Spec => SettledStaysSettled
<1>1. VerdictInv /\ [Next]_vars => [Settling]_vars
  BY StepsSettle, Zenon
<1> QED
  BY <1>1, VerdictInvariant, PTL DEF Spec, SettledStaysSettled, Settling

-----------------------------------------------------------------------------
\* A fault is counted, within the bound.
LEMMA FaultType ==
  ASSUME TypeOK, NEW kind \in {"break", "restart", "crash", "save"}, Fault(kind)
  PROVE  faults' \in [{"break", "restart", "crash", "save"} -> 0 .. MaxFaults]
<1>1. faults \in [{"break", "restart", "crash", "save"} -> 0 .. MaxFaults]  BY Zenon DEF TypeOK
<1>2. faults[kind] + 1 \in 0 .. MaxFaults  BY <1>1, BoundsAssumption DEF Fault
<1> QED BY <1>1, <1>2, Zenon DEF Fault

\* What is written to a record has its type.
LEMMA RecordType ==
  ASSUME TypeOK,
         \/ \E r \in Runs, st \in Statuses : Save(r, st)
         \/ SaveFails
         \/ \E S \in SUBSET Runs, st \in Statuses : Settle(S, st)
         \/ UNCHANGED <<record, faults>>
  PROVE  /\ status' \in [Runs -> Statuses] /\ age' \in [Runs -> Ages]
         /\ faults' \in [{"break", "restart", "crash", "save"} -> 0 .. MaxFaults]
<1>1. /\ status \in [Runs -> Statuses] /\ age \in [Runs -> Ages]
      /\ faults \in [{"break", "restart", "crash", "save"} -> 0 .. MaxFaults]
      /\ 0 \in Ages /\ "error" \in Statuses
  BY DEF TypeOK, Statuses, Ages, Terminal
<1>2. ASSUME NEW r \in Runs, NEW st \in Statuses, Save(r, st)
      PROVE  /\ status' \in [Runs -> Statuses] /\ age' \in [Runs -> Ages] /\ faults' = faults
  BY <1>1, <1>2, Zenon DEF Save
<1>3. ASSUME SaveFails
      PROVE  /\ status' = status /\ age' = age
             /\ faults' \in [{"break", "restart", "crash", "save"} -> 0 .. MaxFaults]
  BY <1>3, FaultType, Zenon DEF SaveFails, record
<1>4. ASSUME NEW S \in SUBSET Runs, NEW st \in Statuses, Settle(S, st), ~SaveFails
      PROVE  /\ status' \in [Runs -> Statuses] /\ age' \in [Runs -> Ages] /\ faults' = faults
  BY <1>1, <1>4, Zenon DEF Settle
<1> QED BY <1>1, <1>2, <1>3, <1>4, Zenon DEF record

\* The steps on the server keep the types.
LEMMA JobServerTypes ==
  ASSUME TypeOK, NEW r \in Runs,
         \/ FailBeforeDispatch(r) \/ CreateRun(r) \/ ServerStep(r)
         \/ MarkForgottenRuns(r) \/ Age(r)
  PROVE  TypeOK'
<1> USE DEF record, calls, link, container
<1>0. status[r] \in Statuses /\ {"error", "stalled", "pending", "running", "forgotten"} \subseteq Statuses
  BY Zenon DEF TypeOK, Statuses, Terminal
<1>1. CASE FailBeforeDispatch(r) \/ CreateRun(r) \/ FailRun(r) \/ SetJobRunStarted(r)
  <2>1. \/ \E k \in Runs, st \in Statuses : Save(k, st)
        \/ SaveFails \/ UNCHANGED <<record, faults>>
    BY <1>0, <1>1, Zenon DEF FailBeforeDispatch, CreateRun, FailRun, SetJobRunStarted
  <2>2. caller' \in [Runs -> CallerSteps]
    BY <1>1 DEF FailBeforeDispatch, CreateRun, FailRun, SetJobRunStarted, Goto, TypeOK,
       CallerSteps
  <2>3. UNCHANGED <<chan, completing, beat, seen, link, toWorker, container, outbox>>
    BY <1>1, Zenon DEF FailBeforeDispatch, CreateRun, FailRun, SetJobRunStarted
  <2>4. /\ status' \in [Runs -> Statuses] /\ age' \in [Runs -> Ages]
        /\ faults' \in [{"break", "restart", "crash", "save"} -> 0 .. MaxFaults]
    BY <2>1, RecordType, Zenon
  <2> QED BY <2>2, <2>3, <2>4, Zenon DEF TypeOK, CallerSteps, Statuses
<1>2. CASE Prepare(r)
  <2>1. \/ \E k \in Runs, st \in Statuses : Save(k, st)
        \/ UNCHANGED <<record, faults>>
    BY <1>0, <1>2, Zenon DEF Prepare
  <2>2. /\ status' \in [Runs -> Statuses] /\ age' \in [Runs -> Ages]
        /\ faults' \in [{"break", "restart", "crash", "save"} -> 0 .. MaxFaults]
    BY <2>1, RecordType, Zenon
  <2>3. caller' \in [Runs -> CallerSteps] /\ toWorker' \subseteq Runs
    BY <1>2, Zenon DEF Prepare, Goto, TypeOK, CallerSteps
  <2>4. UNCHANGED <<chan, completing, beat, seen, link, container, outbox>>
    BY <1>2, Zenon DEF Prepare
  <2> QED BY <2>2, <2>3, <2>4, Zenon DEF TypeOK, CallerSteps, Statuses
<1>3. CASE DispatchReturns(r)  BY <1>3, Zenon DEF DispatchReturns, Goto, TypeOK
<1>4. CASE MarkForgottenRuns(r)
  <2>1. SaveFails \/ \E k \in Runs, st \in Statuses : Save(k, st)
    BY <1>0, <1>4, Zenon DEF MarkForgottenRuns
  <2>2. /\ status' \in [Runs -> Statuses] /\ age' \in [Runs -> Ages]
        /\ faults' \in [{"break", "restart", "crash", "save"} -> 0 .. MaxFaults]
    BY <2>1, RecordType, Zenon
  <2> QED BY <1>4, <2>2, Zenon DEF MarkForgottenRuns, TypeOK, Statuses
<1>5. CASE Age(r)
  <2>1. age' \in [Runs -> Ages]  BY <1>5 DEF Age, TypeOK, Ages
  <2> QED BY <1>5, <2>1, Zenon DEF Age, TypeOK
<1> QED BY <1>1, <1>2, <1>3, <1>4, <1>5, Zenon DEF ServerStep

\* The steps of the worker, and of the messages between both, keep the types.
LEMMA JobMessageTypes ==
  ASSUME TypeOK,
         \/ \E r \in Runs : WorkerStep(r)
         \/ \E m \in Messages : ReadMessage(m) \/ HandleJobCompleted(m)
  PROVE  TypeOK'
<1> USE DEF record, calls, link, container
<1>1. ASSUME NEW r \in Runs, HandleRunJob(r) PROVE TypeOK'
  BY <1>1 DEF HandleRunJob, TypeOK, Messages
<1>2. ASSUME NEW r \in Runs, ReplyAccepted(r) PROVE TypeOK'
  BY <1>2 DEF ReplyAccepted, TypeOK, Messages
<1>3. ASSUME NEW r \in Runs, StartJob(r) \/ FinishJob(r) PROVE TypeOK'
  BY <1>3, Zenon DEF StartJob, FinishJob, TypeOK
<1>4. ASSUME NEW r \in Runs, ReportJobCompleted(r) PROVE TypeOK'
  BY <1>4 DEF ReportJobCompleted, TypeOK, Messages
<1>5. ASSUME NEW m \in Messages, ReadMessage(m) PROVE TypeOK'
  <2>1. m.run \in Runs /\ (m \notin Completions => m.kind \in {"accepted", "rejected"})
    BY Zenon DEF Messages, Completions
  <2>2. chan' \in [Runs -> {"none", "accepted", "rejected"}]
    BY <1>5, <2>1, Zenon DEF ReadMessage, TypeOK
  <2>3. outbox' \subseteq Messages /\ seen' \subseteq Messages /\ completing' \subseteq Completions
    BY <1>5, Zenon DEF ReadMessage, TypeOK
  <2> QED BY <1>5, <2>2, <2>3, Zenon DEF ReadMessage, TypeOK
<1>6. ASSUME NEW m \in Messages, HandleJobCompleted(m) PROVE TypeOK'
  <2>1. m \in Completions  BY <1>6, Zenon DEF HandleJobCompleted, TypeOK
  <2>2. m.run \in Runs /\ m.kind \in Statuses
    BY <2>1, Zenon DEF Completions, Messages, Statuses, Terminal
  <2>3. SaveFails \/ \E k \in Runs, st \in Statuses : Save(k, st)
    BY <1>6, <2>2, Zenon DEF HandleJobCompleted
  <2>4. /\ status' \in [Runs -> Statuses] /\ age' \in [Runs -> Ages]
        /\ faults' \in [{"break", "restart", "crash", "save"} -> 0 .. MaxFaults]
    BY <2>3, RecordType, Zenon
  <2>5. completing' \subseteq Completions  BY <1>6, Zenon DEF HandleJobCompleted, TypeOK
  <2> QED BY <1>6, <2>4, <2>5, Zenon DEF HandleJobCompleted, TypeOK, Statuses
<1> QED BY <1>1, <1>2, <1>3, <1>4, <1>5, <1>6, Zenon DEF WorkerStep

\* The judges, the connection and the restarts keep the types.
LEMMA JobJudgeTypes ==
  ASSUME TypeOK,
         Heartbeat \/ ReconcileActiveJobs \/ Hook \/ Break \/ ServerRestart \/ WorkerCrash
  PROVE  TypeOK'
<1> USE DEF record, calls, link, container
<1>1. CASE Heartbeat  BY <1>1, Zenon DEF Heartbeat, TypeOK
<1>2. CASE ReconcileActiveJobs \/ HandleWorkerDisconnect
  <2>1. \E S \in SUBSET Runs, st \in Statuses : Settle(S, st)
    BY <1>2, Zenon DEF ReconcileActiveJobs, HandleWorkerDisconnect, Statuses
  <2>2. /\ status' \in [Runs -> Statuses] /\ age' \in [Runs -> Ages]
        /\ faults' \in [{"break", "restart", "crash", "save"} -> 0 .. MaxFaults]
    BY <2>1, RecordType, Zenon
  <2>3. /\ beat' \in SUBSET SUBSET Runs /\ timer' \subseteq {"armed", "firing"}
        /\ UNCHANGED <<calls, completing, seen, conn, hooks, toWorker, container, outbox>>
    BY <1>2, Zenon DEF ReconcileActiveJobs, HandleWorkerDisconnect, TypeOK
  <2> QED BY <2>2, <2>3, Zenon DEF TypeOK, Statuses
<1>3. CASE Notice \/ Reconnect \/ RunHook \/ FireTimer
  BY <1>3, Zenon DEF Notice, Reconnect, RunHook, FireTimer, TypeOK
<1>4. CASE Break  BY <1>4, FaultType, Zenon DEF Break, TypeOK
<1>5. CASE ServerRestart
  <2>1. faults' \in [{"break", "restart", "crash", "save"} -> 0 .. MaxFaults]
    BY <1>5, FaultType, Zenon DEF ServerRestart
  <2>2. status' \in [Runs -> Statuses] /\ age' \in [Runs -> Ages]
    BY <1>5 DEF ServerRestart, TypeOK, Statuses, Terminal, Ages
  <2>3. /\ caller' \in [Runs -> CallerSteps]
        /\ chan' \in [Runs -> {"none", "accepted", "rejected"}]
    BY <1>5, Zenon DEF ServerRestart, TypeOK, CallerSteps
  <2> QED BY <1>5, <2>1, <2>2, <2>3, Zenon DEF ServerRestart, TypeOK, Statuses, CallerSteps
<1>6. CASE WorkerCrash
  <2>1. faults' \in [{"break", "restart", "crash", "save"} -> 0 .. MaxFaults]
    BY <1>6, FaultType, Zenon DEF WorkerCrash
  <2> QED BY <1>6, <2>1, Zenon DEF WorkerCrash, TypeOK
<1> QED BY <1>1, <1>2, <1>3, <1>4, <1>5, <1>6, Zenon DEF Hook

\* The job_runs records, the calls that dispatch them, the spool and the
\* goroutines that settle them keep their types, for any number of runs and
\* faults: no answer reaches a call that is not one for it (ReadMessage).
THEOREM JobTypeCorrect == Spec => []TypeOK
<1>1. Init => TypeOK
  BY BoundsAssumption DEF Init, TypeOK, Ages, Terminal
<1>2. TypeOK /\ [Next]_vars => TypeOK'
  <2> SUFFICES ASSUME TypeOK, [Next]_vars PROVE TypeOK'  BY Zenon
  <2>1. CASE UNCHANGED vars
    BY <2>1, Zenon DEF TypeOK, vars, record, calls, link, container
  <2> QED BY <2>1, JobServerTypes, JobMessageTypes, JobJudgeTypes, Zenon DEF Next
<1> QED BY <1>1, <1>2, PTL DEF Spec

(***************************************************************************)
(* The ticker of a stack and the cron entry of a job follow their rows,    *)
(* for any number of savers, entries and restarts. That is true after the  *)
(* hook has run; between the commit of a row and its hook it is not, so    *)
(* the invariant follows the hook that is alone with the row from step to  *)
(* step.                                                                   *)
(***************************************************************************)

SaverRows == [at : {"rest"} \cup StackHooks \cup JobHooks, on : BOOLEAN, entry : EntryIds \cup {NoEntry}]

\* What a saver's step does to the table of savers.
LEMMA RunsRow ==
  ASSUME saver \in [Savers -> SaverRows], NEW p \in Savers,
         NEW at \in {"rest"} \cup StackHooks \cup JobHooks, NEW on \in BOOLEAN, RunsHook(p, at, on)
  PROVE  /\ saver' \in [Savers -> SaverRows] /\ saver'[p].at = at /\ saver'[p].on = on
         /\ \A q \in Savers : q # p => saver'[q] = saver[q]
<1>1. saver' = [saver EXCEPT ![p] = [at |-> at, on |-> on, entry |-> saver[p].entry]]
  <2>1. saver[p] \in SaverRows
    BY Zenon
  <2>2. saver' = [saver EXCEPT ![p] = [saver[p] EXCEPT !.at = at, !.on = on]]
    BY Zenon DEF RunsHook
  <2>3. ASSUME NEW r \in SaverRows
        PROVE  [r EXCEPT !.at = at, !.on = on] = [at |-> at, on |-> on, entry |-> r.entry]
    <3>1. [r EXCEPT !.at = at] = [at |-> at, on |-> r.on, entry |-> r.entry]
      BY <2>3 DEF SaverRows
    <3>2. [[at |-> at, on |-> r.on, entry |-> r.entry] EXCEPT !.on = on]
            = [at |-> at, on |-> on, entry |-> r.entry]
      OBVIOUS
    <3> QED BY <3>1, <3>2, Zenon
  <2> QED BY <2>1, <2>2, <2>3, Zenon
<1>2. [at |-> at, on |-> on, entry |-> saver[p].entry] \in SaverRows
  BY Zenon DEF SaverRows
<1> QED BY <1>1, <1>2, Zenon

\* A saver that rests has nothing in its hands.
LEMMA RestsRow ==
  ASSUME saver \in [Savers -> SaverRows], NEW p \in Savers, Rests(p)
  PROVE  /\ saver' \in [Savers -> SaverRows] /\ saver'[p].at = "rest"
         /\ \A q \in Savers : q # p => saver'[q] = saver[q]
<1>1. AtRest \in SaverRows /\ AtRest.at = "rest"
  BY Zenon DEF AtRest, SaverRows
<1> QED BY <1>1, Zenon DEF Rests

\* The hook that is alone with the stack has the row it will act on.
StackInv ==
  /\ TickersAreCancellable /\ TickerFollowsRow
  /\ \A p \in Savers : saver[p].at \in StackHooks /\ ~stackRaced =>
       /\ \A q \in Savers : saver[q].at \in StackHooks => q = p
       /\ saver[p].at = "registerStack" =>
            stackRow.life = "kept" /\ (saver[p].on <=> ~stackRow.paused)
       /\ saver[p].at = "unregisterStack" => stackRow.life = "deleted"

\* The registration that is alone with the job: the entry is in the map, or
\* there is none, or it is in the hands of the registration.
JobInv ==
  /\ EntryFollowsJob
  /\ \A p \in Savers : saver[p].at \in JobHooks /\ ~jobRaced =>
       /\ \A q \in Savers : saver[q].at \in JobHooks => q = p
       /\ saver[p].at \in {"findJob", "removeEntry", "unregisterJob"} =>
            cronEntries = {entryMap} \ {NoEntry}
       /\ saver[p].at = "unregisterJob" => jobRow.life = "deleted"
       /\ saver[p].at \in {"findJob", "removeEntry", "addEntry", "storeEntry"} => jobRow.life = "kept"
       /\ saver[p].at = "removeEntry" => (saver[p].on <=> jobRow.enabled)
       /\ saver[p].at \in {"addEntry", "storeEntry"} => jobRow.enabled
       /\ saver[p].at = "addEntry" => cronEntries = {} /\ entryMap = NoEntry
       /\ saver[p].at = "storeEntry" =>
            jobFile /\ cronEntries = {saver[p].entry} /\ saver[p].entry # NoEntry

\* A step of the stack's side.
LEMMA StackSaved ==
  ASSUME SchedulesTypeOK, StackInv, JobInv, NEW p \in Savers,
         CreateStack(p) \/ UpdateStack(p) \/ DeleteStack(p)
  PROVE  SchedulesTypeOK' /\ StackInv' /\ JobInv'
<1>1. PICK row \in [life : {"kept", "deleted"}, paused : BOOLEAN], hook \in StackHooks :
        /\ SaveStack(p, row, hook)
        /\ hook = "registerStack" => row.life = "kept"
        /\ hook = "unregisterStack" => row.life = "deleted"
  <2> DEFINE Rows == [life : {"kept", "deleted"}, paused : BOOLEAN]
  <2>1. CASE CreateStack(p)
    <3>1. \A b \in BOOLEAN : [life |-> "kept", paused |-> b] \in Rows /\ [life |-> "kept", paused |-> b].life = "kept"
      BY Zenon
    <3> HIDE DEF Rows
    <3> QED BY <2>1, <3>1, Zenon DEF CreateStack, StackHooks
  <2>2. CASE UpdateStack(p)
    <3>1. PICK b \in BOOLEAN : SaveStack(p, [stackRow EXCEPT !.paused = b], "registerStack")
      BY <2>2, Zenon DEF UpdateStack
    <3>2. [stackRow EXCEPT !.paused = b] = [life |-> "kept", paused |-> b]
      BY <2>2 DEF UpdateStack, SchedulesTypeOK
    <3>3. SaveStack(p, [life |-> "kept", paused |-> b], "registerStack")
      BY <3>1, <3>2, Zenon
    <3>4. [life |-> "kept", paused |-> b] \in Rows /\ [life |-> "kept", paused |-> b].life = "kept"
      BY Zenon
    <3> HIDE DEF Rows
    <3> QED BY <3>3, <3>4, Zenon DEF StackHooks
  <2>3. CASE DeleteStack(p)
    <3>1. [life |-> "deleted", paused |-> FALSE] \in Rows /\ [life |-> "deleted", paused |-> FALSE].life = "deleted"
      BY Zenon
    <3> HIDE DEF Rows
    <3> QED BY <2>3, <3>1, Zenon DEF DeleteStack, StackHooks
  <2> QED BY <2>1, <2>2, <2>3, Zenon
<1>2. saver \in [Savers -> SaverRows] /\ saver[p].at = "rest" /\ RunsHook(p, hook, ~row.paused)
  BY <1>1, Zenon DEF SaveStack, SchedulesTypeOK, SaverRows
<1>3. /\ saver' \in [Savers -> SaverRows] /\ saver'[p].at = hook
      /\ saver'[p].on = (~row.paused)
      /\ \A q \in Savers : q # p => saver'[q] = saver[q]
  BY <1>2, RunsRow, Zenon
<1>4. /\ stackRow' = row /\ stackRaced' = (Others(p, StackHooks) # {})
      /\ UNCHANGED <<tickers, tickerMap, jobRow, cronEntries, entryMap, jobRaced, jobFile, fresh, restarts>>
  BY <1>1, Zenon DEF SaveStack, JobSide
<1>5. SchedulesTypeOK'
  BY <1>3, <1>4 DEF SchedulesTypeOK, SaverRows, Lives
<1>6. StackInv'
  <2>1. ~stackRaced' => \A q \in Savers : q # p => saver[q].at \notin StackHooks
    BY <1>4, Zenon DEF Others
  <2> QED BY <1>1, <1>3, <1>4, <2>1, Zenon DEF StackInv, TickersAreCancellable, TickerFollowsRow
<1>7. \A q \in Savers : saver'[q].at \in JobHooks => q # p /\ saver'[q] = saver[q]
  BY <1>3, Zenon DEF StackHooks, JobHooks
<1>8. \A q \in Savers : saver[q].at \in JobHooks => q # p /\ saver'[q] = saver[q]
  BY <1>2, <1>3, Zenon DEF StackHooks, JobHooks
<1>9. JobInv'
  BY <1>4, <1>7, <1>8, Zenon DEF JobInv, EntryFollowsJob
<1> QED BY <1>5, <1>6, <1>9, Zenon

\* The hook of the stack runs.
LEMMA StackHook ==
  ASSUME SchedulesTypeOK, StackInv, JobInv, NEW p \in Savers, RegisterStack(p) \/ UnregisterStack(p)
  PROVE  SchedulesTypeOK' /\ StackInv' /\ JobInv'
<1>1. saver \in [Savers -> SaverRows] /\ saver[p].at \in StackHooks /\ Rests(p)
  BY Zenon DEF RegisterStack, UnregisterStack, SchedulesTypeOK, SaverRows, StackHooks
<1>2. /\ saver' \in [Savers -> SaverRows] /\ saver'[p].at = "rest"
      /\ \A q \in Savers : q # p => saver'[q] = saver[q]
  BY <1>1, RestsRow, Zenon
<1>3. UNCHANGED <<stackRow, stackRaced, jobRow, cronEntries, entryMap, jobRaced, jobFile, restarts>>
  BY Zenon DEF RegisterStack, UnregisterStack, JobSide
<1>4. Cancel(tickers) = {}
  BY Zenon DEF StackInv, TickersAreCancellable, Cancel
<1>5. \/ /\ saver[p].at = "registerStack" /\ saver[p].on /\ fresh <= MaxEntries
         /\ tickers' = {fresh} /\ tickerMap' = fresh /\ fresh' = fresh + 1
      \/ /\ saver[p].at = "unregisterStack" \/ ~saver[p].on
         /\ tickers' = {} /\ tickerMap' = NoEntry /\ fresh' = fresh
  BY <1>4, Zenon DEF RegisterStack, UnregisterStack
<1>6. fresh \in 1 .. MaxEntries + 1 /\ MaxEntries \in Nat /\ NoEntry \notin EntryIds
  BY SchedulesAssumption, Zenon DEF SchedulesTypeOK, EntryIds
<1>7. /\ tickers' \subseteq EntryIds /\ tickerMap' \in EntryIds \cup {NoEntry}
      /\ fresh' \in 1 .. MaxEntries + 1 /\ tickers' = {tickerMap'} \ {NoEntry}
  <2>1. fresh <= MaxEntries => fresh \in EntryIds /\ fresh + 1 \in 1 .. MaxEntries + 1
    BY <1>6 DEF EntryIds
  <2> QED BY <1>5, <1>6, <2>1, Zenon
<1>8. SchedulesTypeOK'
  BY <1>2, <1>3, <1>7, Zenon DEF SchedulesTypeOK, SaverRows
<1>9. TickerFollowsRow'
  <2> SUFFICES ASSUME ~stackRaced PROVE tickers' # {} <=> stackRow.life = "kept" /\ ~stackRow.paused
    BY <1>3, Zenon DEF TickerFollowsRow
  <2>1. /\ saver[p].at = "registerStack" =>
             stackRow.life = "kept" /\ (saver[p].on <=> ~stackRow.paused)
        /\ saver[p].at = "unregisterStack" => stackRow.life = "deleted"
    BY <1>1, Zenon DEF StackInv
  <2> QED BY <1>1, <1>5, <2>1, Zenon DEF StackHooks
<1>10. StackInv'
  BY <1>2, <1>3, <1>7, <1>9, Zenon DEF StackInv, TickersAreCancellable, StackHooks
<1>11. \A q \in Savers : /\ saver'[q].at \in JobHooks => q # p /\ saver'[q] = saver[q]
                         /\ saver[q].at \in JobHooks => q # p /\ saver'[q] = saver[q]
  BY <1>1, <1>2, Zenon DEF StackHooks, JobHooks
<1>12. JobInv'
  BY <1>3, <1>11, Zenon DEF JobInv, EntryFollowsJob
<1> QED BY <1>8, <1>10, <1>12, Zenon

\* The savers of the job's side leave the stack's side as it is.
LEMMA StackKept ==
  ASSUME StackInv, UNCHANGED StackSide,
         \A q \in Savers : saver[q].at \in StackHooks \/ saver'[q].at \in StackHooks
                             => saver'[q] = saver[q]
  PROVE  StackInv'
BY Zenon DEF StackInv, StackSide, TickersAreCancellable, TickerFollowsRow

\* A save of the job, or of its repository, commits.
LEMMA JobSaved ==
  ASSUME SchedulesTypeOK, StackInv, JobInv, NEW p \in Savers,
         CreateJob(p) \/ UpdateJob(p) \/ DeleteJob(p) \/ FetchAndSaveRepository(p)
  PROVE  SchedulesTypeOK' /\ StackInv' /\ JobInv'
<1>1. saver \in [Savers -> SaverRows] /\ saver[p].at = "rest"
  BY Zenon DEF CreateJob, UpdateJob, DeleteJob, FetchAndSaveRepository, SaveJob, SchedulesTypeOK, SaverRows
<1>2. /\ UNCHANGED StackSide /\ UNCHANGED <<cronEntries, entryMap, fresh, restarts>>
      /\ jobFile' \in BOOLEAN
  BY Zenon DEF CreateJob, UpdateJob, DeleteJob, FetchAndSaveRepository, SaveJob, SchedulesTypeOK
<1>3. CASE jobRow.life # "kept" /\ FetchAndSaveRepository(p)
  <2>1. UNCHANGED <<jobRow, saver, jobRaced>>
    BY <1>3, Zenon DEF FetchAndSaveRepository, SyncJobsForRepo
  <2>2. SchedulesTypeOK'
    BY <1>2, <2>1, Zenon DEF SchedulesTypeOK, StackSide
  <2>3. JobInv'
    BY <1>2, <1>3, <2>1, Zenon DEF JobInv, EntryFollowsJob
  <2> QED BY <1>2, <2>1, <2>2, <2>3, StackKept, Zenon
<1>4. ASSUME NEW row \in [life : {"kept", "deleted"}, enabled : BOOLEAN],
             NEW hook \in {"findJob", "unregisterJob"},
             jobRow' = row, RunsHook(p, hook, FALSE),
             jobRaced' = (jobRaced \/ Others(p, JobHooks) # {}),
             hook = "findJob" => row.life = "kept", hook = "unregisterJob" => row.life = "deleted"
      PROVE  SchedulesTypeOK' /\ StackInv' /\ JobInv'
  <2>1. /\ saver' \in [Savers -> SaverRows] /\ saver'[p].at = hook
        /\ \A q \in Savers : q # p => saver'[q] = saver[q]
    BY <1>1, <1>4, RunsRow, Zenon DEF JobHooks
  <2>2. SchedulesTypeOK'
    BY <1>2, <1>4, <2>1 DEF SchedulesTypeOK, SaverRows, StackSide, Lives
  <2>3. StackInv'
    BY <1>1, <1>2, <2>1, StackKept, Zenon DEF StackHooks
  <2>4. ASSUME ~jobRaced' PROVE ~jobRaced /\ \A q \in Savers : q # p => saver[q].at \notin JobHooks
    BY <1>4, <2>4, Zenon DEF Others
  <2>5. ~jobRaced' => cronEntries' = {entryMap'} \ {NoEntry}
    BY <1>1, <1>2, <2>4, Zenon DEF JobInv, EntryFollowsJob, JobHooks
  <2>6. JobInv'
    BY <1>4, <2>1, <2>4, <2>5 DEF JobInv, EntryFollowsJob, JobHooks
  <2> QED BY <2>2, <2>3, <2>6, Zenon
<1>5. CASE FetchAndSaveRepository(p) /\ jobRow.life = "kept"
  <2>1. jobRow \in [life : {"kept", "deleted"}, enabled : BOOLEAN]
    BY <1>5, Zenon DEF SchedulesTypeOK
  <2> QED BY <1>4, <1>5, <2>1, Zenon DEF FetchAndSaveRepository, SyncJobsForRepo
<1>6. CASE CreateJob(p)
  <2>1. PICK b \in BOOLEAN : SaveJob(p, [life |-> "kept", enabled |-> b], "findJob")
    BY <1>6, Zenon DEF CreateJob
  <2>2. [life |-> "kept", enabled |-> b] \in [life : {"kept", "deleted"}, enabled : BOOLEAN]
    BY Zenon
  <2> QED BY <1>4, <2>1, <2>2, Zenon DEF SaveJob
<1>7. CASE UpdateJob(p)
  <2>1. PICK b \in BOOLEAN : SaveJob(p, [jobRow EXCEPT !.enabled = b], "findJob")
    BY <1>7, Zenon DEF UpdateJob
  <2>2. /\ [jobRow EXCEPT !.enabled = b] \in [life : {"kept", "deleted"}, enabled : BOOLEAN]
        /\ [jobRow EXCEPT !.enabled = b].life = "kept"
    BY <1>7, Zenon DEF UpdateJob, SchedulesTypeOK
  <2> QED BY <1>4, <2>1, <2>2, Zenon DEF SaveJob
<1>8. CASE DeleteJob(p)
  <2>1. SaveJob(p, [life |-> "deleted", enabled |-> FALSE], "unregisterJob")
    BY <1>8, Zenon DEF DeleteJob
  <2>2. [life |-> "deleted", enabled |-> FALSE] \in [life : {"kept", "deleted"}, enabled : BOOLEAN]
    BY Zenon
  <2> QED BY <1>4, <2>1, <2>2, Zenon DEF SaveJob
<1> QED BY <1>3, <1>5, <1>6, <1>7, <1>8, Zenon

\* A registration steps on, or a removal runs: one step of the job's hooks.
LEMMA JobHook ==
  ASSUME SchedulesTypeOK, StackInv, JobInv, NEW p \in Savers,
         FindJob(p) \/ RemoveEntry(p) \/ AddEntry(p) \/ StoreEntry(p) \/ UnregisterJob(p)
  PROVE  SchedulesTypeOK' /\ StackInv' /\ JobInv'
<1>1. saver \in [Savers -> SaverRows] /\ saver[p].at \in JobHooks /\ saver[p].entry \in EntryIds \cup {NoEntry}
  BY Zenon DEF FindJob, RemoveEntry, AddEntry, StoreEntry, UnregisterJob, SchedulesTypeOK, SaverRows, JobHooks
<1>2. UNCHANGED StackSide /\ UNCHANGED <<jobRow, jobFile, jobRaced, restarts>>
  BY Zenon DEF FindJob, RemoveEntry, AddEntry, StoreEntry, UnregisterJob, JobSide
<1>3. fresh \in 1 .. MaxEntries + 1 /\ MaxEntries \in Nat /\ NoEntry \notin EntryIds
  BY SchedulesAssumption, Zenon DEF SchedulesTypeOK, EntryIds
<1>4. fresh <= MaxEntries => fresh \in EntryIds /\ fresh + 1 \in 1 .. MaxEntries + 1
  BY <1>3 DEF EntryIds
<1>5. jobRow.enabled \in BOOLEAN /\ cronEntries \subseteq EntryIds /\ entryMap \in EntryIds \cup {NoEntry}
  BY Zenon DEF SchedulesTypeOK
<1>6. ASSUME NEW at \in {"rest"} \cup JobHooks, saver' \in [Savers -> SaverRows], saver'[p].at = at,
             \A q \in Savers : q # p => saver'[q] = saver[q],
             cronEntries' \subseteq EntryIds, entryMap' \in EntryIds \cup {NoEntry},
             fresh' \in 1 .. MaxEntries + 1,
             ~jobRaced =>
               /\ at \in {"rest", "findJob", "removeEntry", "unregisterJob"} =>
                    cronEntries' = {entryMap'} \ {NoEntry}
               /\ at = "rest" =>
                    (cronEntries' # {} <=> jobRow.life = "kept" /\ jobRow.enabled /\ jobFile)
               /\ at = "unregisterJob" => jobRow.life = "deleted"
               /\ at \in {"findJob", "removeEntry", "addEntry", "storeEntry"} => jobRow.life = "kept"
               /\ at = "removeEntry" => (saver'[p].on <=> jobRow.enabled)
               /\ at \in {"addEntry", "storeEntry"} => jobRow.enabled
               /\ at = "addEntry" => cronEntries' = {} /\ entryMap' = NoEntry
               /\ at = "storeEntry" =>
                    jobFile /\ cronEntries' = {saver'[p].entry} /\ saver'[p].entry # NoEntry
      PROVE  SchedulesTypeOK' /\ StackInv' /\ JobInv'
  <2>1. SchedulesTypeOK'
    BY <1>2, <1>6, Zenon DEF SchedulesTypeOK, SaverRows, StackSide
  <2>2. StackInv'
    BY <1>1, <1>2, <1>6, StackKept, Zenon DEF StackHooks, JobHooks
  <2>3. ~jobRaced => \A q \in Savers : q # p => saver'[q].at \notin JobHooks
    BY <1>1, <1>6, Zenon DEF JobInv
  <2>4. ASSUME ~jobRaced PROVE EntryFollowsJob'
    BY <1>2, <1>6, <2>4, Zenon DEF EntryFollowsJob
  <2>5. jobRaced => EntryFollowsJob'
    BY <1>2, Zenon DEF EntryFollowsJob
  <2>6. JobInv'
    BY <1>2, <1>6, <2>3, <2>4, <2>5, Zenon DEF JobInv
  <2> QED BY <2>1, <2>2, <2>6, Zenon
<1>7. ASSUME ~jobRaced
      PROVE  /\ saver[p].at \in {"findJob", "removeEntry", "unregisterJob"} =>
                  cronEntries = {entryMap} \ {NoEntry}
             /\ saver[p].at = "unregisterJob" => jobRow.life = "deleted"
             /\ saver[p].at \in {"findJob", "removeEntry", "addEntry", "storeEntry"} => jobRow.life = "kept"
             /\ saver[p].at = "removeEntry" => (saver[p].on <=> jobRow.enabled)
             /\ saver[p].at \in {"addEntry", "storeEntry"} => jobRow.enabled
             /\ saver[p].at = "addEntry" => cronEntries = {} /\ entryMap = NoEntry
             /\ saver[p].at = "storeEntry" =>
                  jobFile /\ cronEntries = {saver[p].entry} /\ saver[p].entry # NoEntry
  BY <1>1, <1>7, Zenon DEF JobInv
<1>8. CASE FindJob(p) /\ jobRow.life = "kept"
  <2>1. saver' \in [Savers -> SaverRows] /\ saver'[p].at = "removeEntry" /\ saver'[p].on = jobRow.enabled
        /\ \A q \in Savers : q # p => saver'[q] = saver[q]
    BY <1>1, <1>5, <1>8, RunsRow, Zenon DEF FindJob, JobHooks
  <2>2. UNCHANGED <<cronEntries, entryMap, fresh>> /\ saver[p].at = "findJob"
    BY <1>8, Zenon DEF FindJob, JobSide
  <2> QED BY <1>3, <1>5, <1>6, <1>7, <1>8, <2>1, <2>2, Zenon DEF JobHooks
<1>9. CASE FindJob(p) /\ jobRow.life # "kept"
  <2>1. saver' \in [Savers -> SaverRows] /\ saver'[p].at = "rest"
        /\ \A q \in Savers : q # p => saver'[q] = saver[q]
    BY <1>1, <1>9, RestsRow, Zenon DEF FindJob
  <2>2. UNCHANGED <<cronEntries, entryMap, fresh>> /\ saver[p].at = "findJob"
    BY <1>9, Zenon DEF FindJob, JobSide
  <2>3. jobRaced
    BY <1>7, <1>9, <2>2, Zenon
  <2> QED BY <1>3, <1>5, <1>6, <2>1, <2>2, <2>3, Zenon
<1>10. ASSUME ~jobRaced, cronEntries' = cronEntries \ {entryMap},
              saver[p].at \in {"removeEntry", "unregisterJob"}
       PROVE  cronEntries' = {}
  BY <1>7, <1>10, Zenon
<1>11. CASE RemoveEntry(p) /\ saver[p].on
  <2>1. saver' \in [Savers -> SaverRows] /\ saver'[p].at = "addEntry"
        /\ \A q \in Savers : q # p => saver'[q] = saver[q]
    BY <1>1, <1>11, RunsRow, Zenon DEF RemoveEntry, JobHooks
  <2>2. /\ saver[p].at = "removeEntry" /\ fresh' = fresh
        /\ cronEntries' = cronEntries \ {entryMap} /\ entryMap' = NoEntry
    BY <1>11, Zenon DEF RemoveEntry
  <2>3. ~jobRaced => cronEntries' = {} /\ jobRow.life = "kept" /\ jobRow.enabled
    BY <1>7, <1>10, <1>11, <2>2, Zenon
  <2>4. cronEntries' \subseteq EntryIds
    BY <1>5, <2>2, Zenon
  <2> QED BY <1>3, <1>6, <2>1, <2>2, <2>3, <2>4, Zenon DEF JobHooks
<1>12. CASE (RemoveEntry(p) /\ ~saver[p].on) \/ UnregisterJob(p)
  <2>1. saver' \in [Savers -> SaverRows] /\ saver'[p].at = "rest"
        /\ \A q \in Savers : q # p => saver'[q] = saver[q]
    BY <1>1, <1>12, RestsRow, Zenon DEF RemoveEntry, UnregisterJob
  <2>2. /\ saver[p].at = "unregisterJob" \/ (saver[p].at = "removeEntry" /\ ~saver[p].on) 
        /\ fresh' = fresh /\ cronEntries' = cronEntries \ {entryMap} /\ entryMap' = NoEntry
    BY <1>12, Zenon DEF RemoveEntry, UnregisterJob
  <2>3. ~jobRaced => cronEntries' = {} /\ ~(jobRow.life = "kept" /\ jobRow.enabled)
    BY <1>7, <1>10, <2>2, Zenon
  <2>4. cronEntries' \subseteq EntryIds
    BY <1>5, <2>2, Zenon
  <2> QED BY <1>3, <1>6, <2>1, <2>2, <2>3, <2>4, Zenon
<1>13. CASE AddEntry(p) /\ jobFile
  <2>1. /\ saver[p].at = "addEntry" /\ fresh <= MaxEntries /\ cronEntries' = cronEntries \cup {fresh}
        /\ fresh' = fresh + 1 /\ entryMap' = entryMap
    BY <1>13, Zenon DEF AddEntry
  <2>2. saver' \in [Savers -> SaverRows] /\ saver'[p].at = "storeEntry" /\ saver'[p].entry = fresh
        /\ \A q \in Savers : q # p => saver'[q] = saver[q]
    <3>1. saver' = [saver EXCEPT ![p] = [saver[p] EXCEPT !.at = "storeEntry", !.entry = fresh]]
      BY <1>13, Zenon DEF AddEntry
    <3>2. ASSUME NEW r \in SaverRows
          PROVE  [r EXCEPT !.at = "storeEntry", !.entry = fresh]
                   = [at |-> "storeEntry", on |-> r.on, entry |-> fresh]
      <4>1. [r EXCEPT !.at = "storeEntry"] = [at |-> "storeEntry", on |-> r.on, entry |-> r.entry]
        BY <3>2 DEF SaverRows
      <4>2. [[at |-> "storeEntry", on |-> r.on, entry |-> r.entry] EXCEPT !.entry = fresh]
              = [at |-> "storeEntry", on |-> r.on, entry |-> fresh]
        OBVIOUS
      <4> QED BY <4>1, <4>2, Zenon
    <3>3. saver[p] \in SaverRows
      BY <1>1, Zenon
    <3>4. saver' = [saver EXCEPT ![p] = [at |-> "storeEntry", on |-> saver[p].on, entry |-> fresh]]
      BY <3>1, <3>2, <3>3, Zenon
    <3>5. [at |-> "storeEntry", on |-> saver[p].on, entry |-> fresh] \in SaverRows
      BY <1>4, <2>1, <3>3, Zenon DEF SaverRows, JobHooks
    <3> QED BY <1>1, <3>4, <3>5, Zenon
  <2>3. ~jobRaced => cronEntries' = {fresh} /\ jobRow.life = "kept" /\ jobRow.enabled
    BY <1>7, <2>1, Zenon
  <2>4. cronEntries' \subseteq EntryIds /\ entryMap' \in EntryIds \cup {NoEntry}
        /\ fresh' \in 1 .. MaxEntries + 1 /\ fresh # NoEntry
    BY <1>3, <1>4, <1>5, <2>1, Zenon
  <2> QED BY <1>6, <1>13, <2>2, <2>3, <2>4, Zenon DEF JobHooks
<1>14. CASE AddEntry(p) /\ ~jobFile
  <2>1. saver' \in [Savers -> SaverRows] /\ saver'[p].at = "rest"
        /\ \A q \in Savers : q # p => saver'[q] = saver[q]
    BY <1>1, <1>14, RestsRow, Zenon DEF AddEntry
  <2>2. UNCHANGED <<cronEntries, entryMap, fresh>> /\ saver[p].at = "addEntry"
    BY <1>14, Zenon DEF AddEntry
  <2> QED BY <1>3, <1>5, <1>6, <1>7, <1>14, <2>1, <2>2, Zenon
<1>15. CASE StoreEntry(p)
  <2>1. saver' \in [Savers -> SaverRows] /\ saver'[p].at = "rest"
        /\ \A q \in Savers : q # p => saver'[q] = saver[q]
    BY <1>1, <1>15, RestsRow, Zenon DEF StoreEntry
  <2>2. /\ UNCHANGED <<cronEntries, fresh>> /\ saver[p].at = "storeEntry"
        /\ entryMap' = saver[p].entry
    BY <1>15, Zenon DEF StoreEntry
  <2>3. ~jobRaced => cronEntries' = {entryMap'} \ {NoEntry} /\ cronEntries' # {}
                     /\ jobRow.life = "kept" /\ jobRow.enabled /\ jobFile
    BY <1>7, <2>2, Zenon
  <2> QED BY <1>1, <1>3, <1>5, <1>6, <2>1, <2>2, <2>3, Zenon
<1> QED BY <1>8, <1>9, <1>11, <1>12, <1>13, <1>14, <1>15, Zenon

\* The schedulers start from the rows, and no hook is under way.
LEMMA SchedulersRestarted ==
  ASSUME SchedulesTypeOK, RestartSchedulers
  PROVE  SchedulesTypeOK' /\ StackInv' /\ JobInv'
<1>1. /\ UNCHANGED <<stackRow, jobRow, jobFile>> /\ fresh' = 3
      /\ stackRaced' = FALSE /\ jobRaced' = FALSE /\ saver' = [p \in Savers |-> AtRest]
      /\ tickers' = Start /\ tickerMap' = TheOne(tickers')
      /\ cronEntries' = StartJobs /\ entryMap' = TheOne(cronEntries')
  BY Zenon DEF RestartSchedulers
<1>2. TheOne({}) = NoEntry /\ TheOne({1}) = 1 /\ TheOne({2}) = 2
  BY Zenon DEF TheOne
<1>3. 1 \in EntryIds /\ 2 \in EntryIds /\ NoEntry \notin EntryIds /\ 3 \in 1 .. MaxEntries + 1
  BY SchedulesAssumption DEF EntryIds
<1>4. /\ tickers' \subseteq EntryIds /\ tickerMap' \in EntryIds \cup {NoEntry}
      /\ tickers' = {tickerMap'} \ {NoEntry}
      /\ tickers' # {} <=> stackRow.life = "kept" /\ ~stackRow.paused
  BY <1>1, <1>2, <1>3, Zenon DEF Start
<1>5. /\ cronEntries' \subseteq EntryIds /\ entryMap' \in EntryIds \cup {NoEntry}
      /\ cronEntries' = {entryMap'} \ {NoEntry}
      /\ cronEntries' # {} <=> jobRow.life = "kept" /\ jobRow.enabled /\ jobFile
  BY <1>1, <1>2, <1>3, Zenon DEF StartJobs
<1>6. restarts' \in 0 .. MaxRestarts
  BY SchedulesAssumption DEF RestartSchedulers, SchedulesTypeOK
<1>7. saver' \in [Savers -> SaverRows] /\ \A p \in Savers : saver'[p].at = "rest"
  BY <1>1, Zenon DEF AtRest, SaverRows
<1>8. SchedulesTypeOK'
  BY <1>1, <1>3, <1>4, <1>5, <1>6, <1>7, Zenon DEF SchedulesTypeOK, SaverRows
<1>9. StackInv'
  BY <1>1, <1>4, <1>7, Zenon DEF StackInv, StackHooks, TickersAreCancellable, TickerFollowsRow
<1>10. JobInv'
  BY <1>1, <1>5, <1>7, Zenon DEF JobInv, JobHooks, EntryFollowsJob
<1> QED BY <1>8, <1>9, <1>10, Zenon

\* Tickers and cron entries follow their rows, and none is out of reach of its
\* scheduler (RegisterStack, UnregisterStack, RegisterJob, UnregisterJob and the
\* hooks that call them), for any number of concurrent savers.
THEOREM SchedulesCorrect == SchedulesSpec => []SchedulesSafety
<1> DEFINE Inv == SchedulesTypeOK /\ StackInv /\ JobInv
<1>1. SchedulesInit => Inv
  <2> SUFFICES ASSUME SchedulesInit PROVE Inv
    BY Zenon
  <2>1. saver \in [Savers -> SaverRows] /\ \A p \in Savers : saver[p].at = "rest"
    BY Zenon DEF SchedulesInit, AtRest, SaverRows
  <2>2. SchedulesTypeOK
    <3>1. 1 \in 1 .. MaxEntries + 1 /\ 0 \in 0 .. MaxRestarts
      BY SchedulesAssumption
    <3> QED BY <2>1, <3>1, Zenon DEF SchedulesInit, SchedulesTypeOK, SaverRows, Lives
  <2>3. StackInv
    BY <2>1, Zenon DEF SchedulesInit, StackInv, StackHooks, TickersAreCancellable, TickerFollowsRow
  <2>4. JobInv
    BY <2>1, Zenon DEF SchedulesInit, JobInv, JobHooks, EntryFollowsJob
  <2> QED BY <2>2, <2>3, <2>4, Zenon
<1>2. Inv /\ [SchedulesNext]_scheduleVars => Inv'
  <2> SUFFICES ASSUME Inv, [SchedulesNext]_scheduleVars PROVE Inv'
    BY Zenon
  <2>1. CASE RestartSchedulers
    BY <2>1, SchedulersRestarted, Zenon
  <2>2. CASE \E p \in Savers : CreateStack(p) \/ UpdateStack(p) \/ DeleteStack(p)
    BY <2>2, StackSaved, Zenon
  <2>3. CASE \E p \in Savers : CreateJob(p) \/ UpdateJob(p) \/ DeleteJob(p) \/ FetchAndSaveRepository(p)
    BY <2>3, JobSaved, Zenon
  <2>4. CASE \E p \in Savers : RegisterStack(p) \/ UnregisterStack(p)
    BY <2>4, StackHook, Zenon
  <2>5. CASE \E p \in Savers : FindJob(p) \/ RemoveEntry(p) \/ AddEntry(p) \/ StoreEntry(p) \/ UnregisterJob(p)
    BY <2>5, JobHook, Zenon
  <2>6. CASE UNCHANGED scheduleVars
    <3>1. SchedulesTypeOK'
      BY <2>6, Zenon DEF SchedulesTypeOK, scheduleVars
    <3>2. StackInv' /\ JobInv'
      BY <2>6, Zenon DEF scheduleVars, StackInv, JobInv, TickersAreCancellable, TickerFollowsRow, EntryFollowsJob
    <3> QED BY <3>1, <3>2, Zenon
  <2> QED BY <2>1, <2>2, <2>3, <2>4, <2>5, <2>6, Zenon DEF SchedulesNext, HookStep
<1>3. Inv => SchedulesSafety
  BY Zenon DEF SchedulesSafety, StackInv, JobInv
<1> QED BY <1>1, <1>2, <1>3, PTL DEF SchedulesSpec

(***************************************************************************)
(* The commands of the executor, for any number of them.                   *)
(***************************************************************************)

Containers ==
  [stack : {"own", "other"}, project : {"p", "q"}, service : {"a", "b", "c", "x"}, rev : {1, 2}]
Stages == {"idle", "auth", "workdir", "pull", "down", "up", "preflight", "remove", "volumes",
           "back"}

\* The host has containers of the stack and of the other one, whose container
\* is the one it had.
HostOK == host \subseteq Containers /\ \A c \in host : c.stack = "other" => c = OtherStack

\* An idle executor has nothing in progress; one at work has no result yet; the
\* stages after the preflight belong to a migration, which deletes volumes only
\* when told to, and has removed every container of the stack before.
StageOK ==
  /\ stage = "idle" => command = NoCommand
  /\ stage = "idle" /\ ~crashed => dirs = {}
  /\ stage # "idle" => result = NoResult /\ command \in Commands
  /\ stage \in {"preflight", "remove", "volumes", "back"} => command.kind = "migrate"
  /\ command.kind = "migrate" => command.rev = 2 /\ stage # "down"
  /\ stage = "volumes" => command.volumes
  /\ command.kind = "migrate" /\ stage \in {"volumes", "up"} => Own = {}

ExecutorInv == ExecutorTypeOK /\ HostOK /\ StageOK

\* The containers of each revision.
LEMMA RunningType ==
  /\ Running("p", 1) = {Container("own", "p", "a", 1), Container("own", "p", "b", 1)}
  /\ Running("q", 2) = {Container("own", "q", "a", 2), Container("own", "q", "c", 2)}
BY DEF Running, Services

\* What a command carries.
LEMMA CommandType ==
  /\ \A cmd \in Commands : /\ cmd.kind \in CommandKinds /\ cmd.rev \in {1, 2}
                           /\ cmd.orphans \in BOOLEAN /\ cmd.networks \in BOOLEAN
                           /\ cmd.volumes \in BOOLEAN
  /\ NoCommand.kind = "none"
BY Zenon DEF Commands, NoCommand

\* The results are results.
LEMMA ResultType ==
  /\ NoResult \in Results /\ NoResult.status = "none" /\ NoResult.timedOut = ""
  /\ \A s \in {"none", "ok", "error", "rolledback", "rollbackfailed"} : \A t \in {"", "pull", "up"} :
       /\ [status |-> s, timedOut |-> t] \in Results
       /\ [status |-> s, timedOut |-> t].status = s
       /\ [status |-> s, timedOut |-> t].timedOut = t
BY Zenon DEF Results, NoResult

\* Initially revision 1 runs as project p, and nothing is in progress.
LEMMA ExecutorInvInit == ExecutorInit => ExecutorInv
<1> SUFFICES ASSUME ExecutorInit PROVE ExecutorInv
  BY Zenon
<1>1. HostOK
  BY RunningType DEF ExecutorInit, Containers, Container, OtherStack, HostOK
<1>2. started \in 0 .. MaxCommands
  BY ExecutorAssumption DEF ExecutorInit
<1>3. ExecutorTypeOK
  BY <1>1, <1>2, ResultType, Zenon DEF ExecutorInit, ExecutorTypeOK, Containers, HostOK
<1>4. StageOK
  BY CommandType, Zenon DEF ExecutorInit, StageOK
<1> QED BY <1>1, <1>3, <1>4, Zenon DEF ExecutorInv

\* A step on the way to the answer.
LEMMA ProgressStep ==
  ASSUME ExecutorInv, stage # "idle", UNCHANGED <<command, result, started, crashed, identity>>,
         stage' \in Stages \ {"idle"}, HostOK', volume' \in BOOLEAN,
         dirs' \subseteq {"auth", "work"}, context' \in {"live", "deadline", "cancelled"},
         stage' \in {"preflight", "remove", "volumes", "back"} => command.kind = "migrate",
         stage' = "down" => command.kind # "migrate",
         stage' = "volumes" => command.volumes,
         command.kind = "migrate" /\ stage' \in {"volumes", "up"} => Own' = {}
  PROVE  ExecutorInv' /\ WithdrawnIsNoTimeout /\ MigrationIsAllOrNothing
<1>1. ExecutorTypeOK'
  BY Zenon DEF ExecutorInv, ExecutorTypeOK, Stages, HostOK, Containers
<1>2. StageOK'
  BY Zenon DEF ExecutorInv, StageOK
<1>3. result' = NoResult
  BY Zenon DEF ExecutorInv, StageOK
<1> QED
  BY <1>1, <1>2, <1>3, ResultType, Zenon DEF ExecutorInv, WithdrawnIsNoTimeout, MigrationIsAllOrNothing

\* The answer.
LEMMA AnswerStep ==
  ASSUME ExecutorInv, stage # "idle",
         NEW end \in {"none", "ok", "error", "rolledback", "rollbackfailed"},
         NEW timedOut \in {"", "pull", "up"},
         Answer(end, timedOut), UNCHANGED <<started, crashed>>,
         HostOK', volume' \in BOOLEAN, identity' \in {"p", "q"},
         context = "cancelled" => timedOut = ""
  PROVE  ExecutorInv' /\ WithdrawnIsNoTimeout /\ result'.status = end
<1>1. result' \in Results /\ result'.status = end /\ result'.timedOut = timedOut
  BY ResultType, Zenon DEF Answer
<1>2. ExecutorTypeOK'
  BY <1>1, Zenon DEF ExecutorInv, ExecutorTypeOK, HostOK, Containers, Answer
<1>3. StageOK'
  BY CommandType, Zenon DEF StageOK, Answer
<1> QED BY <1>1, <1>2, <1>3, Zenon DEF ExecutorInv, WithdrawnIsNoTimeout

\* Containers only go.
LEMMA HostShrinks == ASSUME HostOK, host' \subseteq host PROVE HostOK'
BY Zenon DEF HostOK

\* What docker compose up leaves on the host.
LEMMA HostUpped ==
  ASSUME HostOK, NEW project \in {"p", "q"}, NEW rev \in {1, 2},
         NEW part \in SUBSET Services(rev), NEW orphans,
         host' = Upped(project, rev, part, orphans)
  PROVE  /\ HostOK'
         /\ project = "q" => {c \in host' : c.stack = "other"} = {c \in host : c.stack = "other"}
         /\ Own = {} => {c \in host' : c.stack = "own"} = {Container("own", project, s, rev) : s \in part}
<1>1. \A s \in part : /\ Container("own", project, s, rev) \in Containers
                      /\ Container("own", project, s, rev).stack = "own"
  BY Zenon DEF Container, Containers, Services
<1>2. \A c \in host' : c \in host \/ \E s \in part : c = Container("own", project, s, rev)
  BY Zenon DEF Upped
<1>3. HostOK'
  BY <1>1, <1>2, Zenon DEF HostOK
<1>4. OtherStack.project = "p"
  BY Zenon DEF OtherStack, Container
<1>5. ASSUME project = "q"
      PROVE  {c \in host' : c.stack = "other"} = {c \in host : c.stack = "other"}
  <2>1. ASSUME NEW c \in host, c.stack = "other" PROVE c \in host'
    BY <1>4, <1>5, <2>1, Zenon DEF HostOK, Upped
  <2> QED BY <2>1, <1>1, <1>2, Zenon
<1>6. ASSUME Own = {}
      PROVE  {c \in host' : c.stack = "own"} = {Container("own", project, s, rev) : s \in part}
  <2>1. \A s \in part : Container("own", project, s, rev) \in host'
    BY Zenon DEF Upped
  <2> QED BY <1>1, <1>2, <1>6, <2>1 DEF Own
<1> QED BY <1>3, <1>5, <1>6, Zenon

\* What a step must not do.
Conduct ==
  /\ WithdrawnIsNoTimeout /\ MigrationIsAllOrNothing /\ MigrationSparesOthers /\ VolumesSurvive

\* The step that timed out, if the deadline and not a cancellation ended it.
LEMMA TimedOutType ==
  ASSUME NEW step \in {"pull", "up"}
  PROVE  TimedOut(step) \in {"", "pull", "up"} /\ (context = "cancelled" => TimedOut(step) = "")
BY Zenon DEF TimedOut

\* The steps that leave the host alone.
LEMMA QuietStep ==
  ASSUME ExecutorInv,
         \/ \E cmd \in Commands : Sent(cmd) /\ Accept(cmd)
         \/ CancelCommand \/ Deadline \/ Crash \/ PrepareAuth \/ PrepareWorkDir
         \/ Pull \/ Preflight
  PROVE  ExecutorInv' /\ Conduct
<1>1. UNCHANGED <<host, volume, identity>>
  BY Zenon DEF Accept, CancelCommand, Deadline, Crash, PrepareAuth, PrepareWorkDir, Pull, Preflight
<1>2. HostOK' /\ volume' \in BOOLEAN /\ identity' \in {"p", "q"} /\ Own' = Own
  BY <1>1, HostShrinks, Zenon DEF ExecutorInv, ExecutorTypeOK, Own
<1>3. MigrationSparesOthers /\ VolumesSurvive
  BY <1>1, Zenon DEF MigrationSparesOthers, VolumesSurvive
<1>4. stage # "idle" => command.kind \in CommandKinds
  BY CommandType, Zenon DEF ExecutorInv, StageOK
<1>5. SUFFICES ExecutorInv' /\ WithdrawnIsNoTimeout /\ MigrationIsAllOrNothing
  BY <1>3, Zenon DEF Conduct
<1>6. ASSUME NEW cmd \in Commands, Sent(cmd), Accept(cmd)
      PROVE  ExecutorInv' /\ WithdrawnIsNoTimeout /\ MigrationIsAllOrNothing
  <2>1. started' \in 0 .. MaxCommands
    BY <1>6, ExecutorAssumption DEF Accept, ExecutorInv, ExecutorTypeOK
  <2>2. stage' \in {"auth", "workdir"} /\ result' = NoResult /\ command' = cmd
    BY <1>6, Zenon DEF Accept, FirstStage
  <2>3. ExecutorTypeOK'
    BY <1>1, <1>6, <2>1, <2>2, ResultType, Zenon DEF Accept, ExecutorInv, ExecutorTypeOK
  <2>4. StageOK'
    BY <1>6, <2>2, Zenon DEF Sent, StageOK
  <2>5. command.kind # "migrate" /\ stage = "idle"
    BY <1>6, CommandType, Zenon DEF Accept, ExecutorInv, StageOK
  <2> QED
    BY <1>2, <2>3, <2>4, <2>5, Zenon DEF ExecutorInv, WithdrawnIsNoTimeout, MigrationIsAllOrNothing
<1>7. CASE CancelCommand \/ Deadline
  <2>1. /\ stage # "idle" /\ UNCHANGED <<command, result, started, crashed, dirs, stage>>
        /\ context' \in {"live", "deadline", "cancelled"}
    BY <1>7, Zenon DEF CancelCommand, Deadline
  <2>2. /\ stage' \in Stages \ {"idle"} /\ dirs' \subseteq {"auth", "work"}
    BY <2>1, Zenon DEF ExecutorInv, ExecutorTypeOK, Stages
  <2>3. /\ stage \in {"preflight", "remove", "volumes", "back"} => command.kind = "migrate"
        /\ stage = "down" => command.kind # "migrate"
        /\ stage = "volumes" => command.volumes
        /\ command.kind = "migrate" /\ stage \in {"volumes", "up"} => Own = {}
    BY Zenon DEF ExecutorInv, StageOK
  <2> QED BY <1>1, <1>2, <2>1, <2>2, <2>3, ProgressStep, Zenon
<1>8. CASE Crash
  <2>1. result' = NoResult
    BY <1>8, Zenon DEF Crash, ExecutorInv, StageOK
  <2>2. ExecutorTypeOK'
    BY <1>1, <1>8, Zenon DEF Crash, ExecutorInv, ExecutorTypeOK
  <2>3. StageOK'
    BY <1>8, CommandType, Zenon DEF Crash, StageOK
  <2> QED
    BY <1>2, <2>1, <2>2, <2>3, ResultType, Zenon
       DEF ExecutorInv, WithdrawnIsNoTimeout, MigrationIsAllOrNothing
\* A step that fails answers with an error.
<1>9. ASSUME stage # "idle", UNCHANGED <<started, crashed>>, NEW timedOut \in {"", "pull", "up"},
             context = "cancelled" => timedOut = "", Answer("error", timedOut)
      PROVE  ExecutorInv' /\ WithdrawnIsNoTimeout /\ MigrationIsAllOrNothing
  BY <1>2, <1>9, AnswerStep, Zenon DEF MigrationIsAllOrNothing
<1>10. CASE PrepareAuth
  <2>1. CASE Answer("error", "")
    BY <1>9, <1>10, <2>1, Zenon DEF PrepareAuth
  <2>2. CASE stage' = "workdir" /\ dirs' \in {dirs, dirs \cup {"auth"}} /\ UNCHANGED <<command, context, result>>
    <3>1. /\ dirs' \subseteq {"auth", "work"} /\ context' \in {"live", "deadline", "cancelled"}
          /\ stage' \in Stages \ {"idle"}
      BY <2>2, Zenon DEF ExecutorInv, ExecutorTypeOK, Stages
    <3> QED BY <1>1, <1>2, <1>10, <2>2, <3>1, ProgressStep, Zenon DEF PrepareAuth
  <2> QED BY <1>10, <2>1, <2>2, Zenon DEF PrepareAuth, StepTo
<1>11. CASE PrepareWorkDir
  <2>1. CASE Answer("error", "")
    BY <1>9, <1>11, <2>1, Zenon DEF PrepareWorkDir
  <2>2. CASE /\ stage' = IF command.kind = "teardown" THEN "down" ELSE "pull"
             /\ dirs' = dirs \cup {"work"} /\ UNCHANGED <<command, context, result>>
    <3>1. /\ dirs' \subseteq {"auth", "work"} /\ context' \in {"live", "deadline", "cancelled"}
          /\ stage' \in Stages \ {"idle"}
      BY <2>2, Zenon DEF ExecutorInv, ExecutorTypeOK, Stages
    <3> QED BY <1>1, <1>2, <1>11, <2>2, <3>1, ProgressStep, Zenon DEF PrepareWorkDir
  <2> QED BY <1>11, <2>1, <2>2, Zenon DEF PrepareWorkDir, StepTo
<1>12. CASE Pull
  <2>1. CASE Answer("error", TimedOut("pull"))
    BY <1>9, <1>12, <2>1, TimedOutType, Zenon DEF Pull
  <2>2. CASE stage' = UpStep /\ UNCHANGED <<command, dirs, context, result>>
    <3>1. /\ dirs' \subseteq {"auth", "work"} /\ context' \in {"live", "deadline", "cancelled"}
      BY <2>2, Zenon DEF ExecutorInv, ExecutorTypeOK
    <3>2. CASE command.kind = "migrate"
      <4>1. stage' = "preflight"
        BY <2>2, <3>2, Zenon DEF UpStep
      <4> QED BY <1>1, <1>2, <1>12, <2>2, <3>1, <3>2, <4>1, ProgressStep, Zenon DEF Pull, Stages
    <3>3. CASE command.kind # "migrate"
      <4>1. stage' \in {"down", "up"}
        BY <2>2, <3>3, Zenon DEF UpStep
      <4> QED BY <1>1, <1>2, <1>12, <2>2, <3>1, <3>3, <4>1, ProgressStep, Zenon DEF Pull, Stages
    <3> QED BY <3>2, <3>3, Zenon
  <2> QED BY <1>12, <2>1, <2>2, Zenon DEF Pull, StepTo
<1>13. CASE Preflight
  <2>1. CASE Answer("error", TimedOut("up"))
    BY <1>9, <1>13, <2>1, TimedOutType, Zenon DEF Preflight
  <2>2. CASE stage' = "remove" /\ UNCHANGED <<command, dirs, context, result>>
    <3>1. /\ dirs' \subseteq {"auth", "work"} /\ context' \in {"live", "deadline", "cancelled"}
          /\ command.kind = "migrate"
      BY <1>13, <2>2, Zenon DEF ExecutorInv, ExecutorTypeOK, StageOK, Preflight
    <3> QED BY <1>1, <1>2, <1>13, <2>2, <3>1, ProgressStep, Zenon DEF Preflight, Stages
  <2> QED BY <1>13, <2>1, <2>2, Zenon DEF Preflight, StepTo
<1> QED BY <1>6, <1>7, <1>8, <1>10, <1>11, <1>12, <1>13, Zenon

\* docker compose down, which a migration does not use.
LEMMA DownStep == ASSUME ExecutorInv, Down PROVE ExecutorInv' /\ Conduct
<1> DEFINE orphans == command.kind = "redeploy" /\ command.orphans
           downed == Downed(identity, command.rev, orphans)
           removes == command.kind = "redeploy" /\ command.volumes
<1>1. /\ command.kind # "migrate" /\ stage = "down" /\ UNCHANGED <<identity, started, crashed>>
      /\ identity' \in {"p", "q"} /\ command.volumes \in BOOLEAN /\ volume \in BOOLEAN
  BY CommandType, Zenon DEF ExecutorInv, ExecutorTypeOK, StageOK, Down
<1>2. host' \subseteq host /\ volume' \in {volume, volume /\ ~removes}
  BY Zenon DEF Down, Downed
<1>3. HostOK'
  BY <1>2, HostShrinks, Zenon DEF ExecutorInv
<1>4. volume' \in BOOLEAN /\ VolumesSurvive
  BY <1>1, <1>2, Zenon DEF VolumesSurvive
<1>5. MigrationSparesOthers /\ MigrationIsAllOrNothing
  BY <1>1, Zenon DEF MigrationSparesOthers, MigrationIsAllOrNothing
<1>6. CASE Answer("ok", "")
  BY <1>1, <1>3, <1>4, <1>5, <1>6, AnswerStep, Zenon DEF Conduct
<1>7. CASE Answer("error", IF command.kind = "teardown" THEN "" ELSE TimedOut("up"))
  <2> DEFINE t == IF command.kind = "teardown" THEN "" ELSE TimedOut("up")
  <2>1. t \in {"", "pull", "up"} /\ (context = "cancelled" => t = "")
    BY TimedOutType, Zenon
  <2> QED BY <1>1, <1>3, <1>4, <1>5, <1>7, <2>1, AnswerStep, Zenon DEF Conduct
<1>8. CASE stage' = "up" /\ UNCHANGED <<command, dirs, context, result>>
  <2>1. /\ dirs' \subseteq {"auth", "work"} /\ context' \in {"live", "deadline", "cancelled"}
    BY <1>8, Zenon DEF ExecutorInv, ExecutorTypeOK
  <2> QED BY <1>1, <1>3, <1>4, <1>5, <1>8, <2>1, ProgressStep, Zenon DEF Conduct, Stages
<1> QED BY <1>6, <1>7, <1>8, Zenon DEF Down, StepTo

\* docker compose up.
LEMMA UpCommand == ASSUME ExecutorInv, Up PROVE ExecutorInv' /\ Conduct
<1>1. /\ stage = "up" /\ UNCHANGED <<started, crashed>> /\ command \in Commands
      /\ identity \in {"p", "q"} /\ volume \in BOOLEAN
      /\ command.kind = "migrate" => command.rev = 2 /\ Own = {}
  BY Zenon DEF ExecutorInv, ExecutorTypeOK, StageOK, Up
<1>2. command.rev \in {1, 2} /\ Project \in {"p", "q"} /\ (command.kind = "migrate" => Project = "q")
  BY <1>1, CommandType, Zenon DEF Project
<1>3. volume' \in BOOLEAN /\ VolumesSurvive
  BY <1>1, Zenon DEF Up, VolumesSurvive
<1>4. CASE /\ host' = Upped(Project, command.rev, Services(command.rev), command.orphans)
           /\ identity' = Project /\ Answer("ok", "")
  <2>1. /\ HostOK'
        /\ Project = "q" => {c \in host' : c.stack = "other"} = {c \in host : c.stack = "other"}
        /\ Own = {} => {c \in host' : c.stack = "own"} = Running(Project, command.rev)
    BY <1>2, <1>4, HostUpped, Zenon DEF ExecutorInv, Running
  <2>2. ExecutorInv' /\ WithdrawnIsNoTimeout /\ result'.status = "ok"
    BY <1>1, <1>2, <1>3, <1>4, <2>1, AnswerStep, Zenon
  <2>3. MigrationSparesOthers /\ MigrationIsAllOrNothing
    BY <1>1, <1>2, <2>1, <2>2, Zenon DEF MigrationSparesOthers, MigrationIsAllOrNothing
  <2> QED BY <1>3, <2>2, <2>3, Zenon DEF Conduct
<1>5. ASSUME NEW part \in SUBSET Services(command.rev), UNCHANGED identity,
             host' = Upped(Project, command.rev, part, FALSE)
      PROVE  /\ HostOK' /\ MigrationSparesOthers
             /\ Answer("error", TimedOut("up")) /\ command.kind # "migrate" =>
                  ExecutorInv' /\ Conduct
             /\ /\ command.kind = "migrate" /\ stage' = "back"
                /\ UNCHANGED <<command, dirs, context, result>>
                => ExecutorInv' /\ Conduct
  <2>1. /\ HostOK'
        /\ Project = "q" => {c \in host' : c.stack = "other"} = {c \in host : c.stack = "other"}
    BY <1>2, <1>5, HostUpped, Zenon DEF ExecutorInv
  <2>2. MigrationSparesOthers
    BY <1>2, <2>1, Zenon DEF MigrationSparesOthers
  <2>3. ASSUME Answer("error", TimedOut("up")), command.kind # "migrate"
        PROVE  ExecutorInv' /\ Conduct
    <3>1. MigrationIsAllOrNothing
      BY <2>3, Zenon DEF MigrationIsAllOrNothing
    <3> QED BY <1>1, <1>3, <1>5, <2>1, <2>2, <2>3, <3>1, AnswerStep, TimedOutType, Zenon DEF Conduct
  <2>4. ASSUME command.kind = "migrate", stage' = "back", UNCHANGED <<command, dirs, context, result>>
        PROVE  ExecutorInv' /\ Conduct
    <3>1. /\ dirs' \subseteq {"auth", "work"} /\ context' \in {"live", "deadline", "cancelled"}
      BY <2>4, Zenon DEF ExecutorInv, ExecutorTypeOK
    <3> QED BY <1>1, <1>3, <1>5, <2>1, <2>2, <2>4, <3>1, ProgressStep, Zenon DEF Conduct, Stages
  <2> QED BY <2>1, <2>2, <2>3, <2>4, Zenon
<1>6. CASE /\ \E part \in SUBSET Services(command.rev) :
                host' = Upped(Project, command.rev, part, FALSE)
           /\ UNCHANGED identity
           /\ IF command.kind = "migrate"
              THEN stage' = "back" /\ UNCHANGED <<command, dirs, context, result>>
              ELSE Answer("error", TimedOut("up"))
  BY <1>5, <1>6, Zenon
<1> QED BY <1>4, <1>6, Zenon DEF Up, StepTo

\* The removal of the stack's containers and volumes.
LEMMA RemoveStep ==
  ASSUME ExecutorInv, RemoveContainers \/ RemoveVolumes PROVE ExecutorInv' /\ Conduct
<1>1. /\ stage \in {"remove", "volumes"} /\ command.kind = "migrate"
      /\ command.volumes \in BOOLEAN /\ volume \in BOOLEAN
      /\ stage = "volumes" => command.volumes /\ Own = {}
      /\ UNCHANGED <<command, dirs, context, identity, result, started, crashed>>
  BY CommandType, Zenon DEF ExecutorInv, ExecutorTypeOK, StageOK, RemoveContainers, RemoveVolumes
<1>2. /\ host' \subseteq host /\ \A c \in host : c.stack = "other" => c \in host'
      /\ volume' \in BOOLEAN /\ (volume' # volume => stage = "volumes")
  BY <1>1, Zenon DEF RemoveContainers, RemoveVolumes, Own
<1>3. HostOK'
  BY <1>2, HostShrinks, Zenon DEF ExecutorInv
<1>4. MigrationSparesOthers /\ VolumesSurvive
  BY <1>1, <1>2 DEF MigrationSparesOthers, VolumesSurvive
<1>5. stage' \in {"volumes", "up", "back"} /\ (stage' = "volumes" => command.volumes)
  BY <1>1, Zenon DEF RemoveContainers, RemoveVolumes, StepTo
<1>6. stage' \in {"volumes", "up"} => Own' = {}
  <2>1. CASE RemoveContainers  BY <2>1, Zenon DEF RemoveContainers, StepTo, Own
  <2>2. CASE RemoveVolumes  BY <1>1, <2>2, Zenon DEF RemoveVolumes, StepTo, Own
  <2> QED BY <2>1, <2>2, Zenon
<1>7. /\ dirs' \subseteq {"auth", "work"} /\ context' \in {"live", "deadline", "cancelled"}
      /\ stage' \in Stages \ {"idle"} /\ stage # "idle"
  BY <1>1, <1>5, Zenon DEF ExecutorInv, ExecutorTypeOK, Stages
<1> QED BY <1>1, <1>2, <1>3, <1>4, <1>5, <1>6, <1>7, ProgressStep, Zenon DEF Conduct

\* The way back.
LEMMA BackStep == ASSUME ExecutorInv, RestorePrevious PROVE ExecutorInv' /\ Conduct
<1>1. /\ stage = "back" /\ command.kind = "migrate" /\ volume \in BOOLEAN
      /\ UNCHANGED <<identity, started, crashed>> /\ identity' \in {"p", "q"}
      /\ volume' \in {volume, TRUE}
  BY Zenon DEF ExecutorInv, ExecutorTypeOK, StageOK, RestorePrevious
<1>2. volume' \in BOOLEAN /\ VolumesSurvive
  BY <1>1, Zenon DEF VolumesSurvive
<1>3. \A d \in Running("p", 1) : /\ d \in Containers /\ d.stack = "own"
                                 /\ d.service # OtherStack.service
  BY RunningType DEF Container, Containers, OtherStack
<1>4. CASE host' = (host \ Own) \cup Running("p", 1) /\ Answer("rolledback", TimedOut("up"))
  <2>1. HostOK'
    BY <1>3, <1>4, Zenon DEF HostOK, ExecutorInv
  <2>2. /\ {c \in host' : c.stack = "other"} = {c \in host : c.stack = "other"}
        /\ {c \in host' : c.stack = "own"} = Running("p", 1)
    BY <1>3, <1>4, Zenon DEF Own
  <2>3. ExecutorInv' /\ WithdrawnIsNoTimeout /\ result'.status = "rolledback"
    BY <1>1, <1>2, <1>4, <2>1, AnswerStep, TimedOutType, Zenon
  <2> QED BY <1>2, <2>2, <2>3, Zenon DEF Conduct, MigrationIsAllOrNothing, MigrationSparesOthers
<1>5. ASSUME NEW gone \in SUBSET Own, NEW part \in SUBSET Running("p", 1),
             host' = {c \in host \ gone : \A d \in part :
                        c.project = d.project => c.service # d.service} \cup part,
             Answer("rollbackfailed", TimedOut("up"))
      PROVE  ExecutorInv' /\ Conduct
  <2>1. HostOK'
    BY <1>3, <1>5, Zenon DEF HostOK, ExecutorInv
  <2>2. ASSUME NEW c \in host, c.stack = "other" PROVE c \in host'
    BY <1>3, <1>5, <2>2, Zenon DEF Own, HostOK, ExecutorInv
  <2>3. ASSUME NEW c \in host', c.stack = "other" PROVE c \in host
    BY <1>3, <1>5, <2>3, Zenon
  <2>4. MigrationSparesOthers
    BY <2>2, <2>3, Zenon DEF MigrationSparesOthers
  <2>5. ExecutorInv' /\ WithdrawnIsNoTimeout /\ result'.status = "rollbackfailed"
    BY <1>1, <1>2, <1>5, <2>1, AnswerStep, TimedOutType, Zenon
  <2> QED BY <1>2, <2>4, <2>5, Zenon DEF Conduct, MigrationIsAllOrNothing
<1> QED BY <1>4, <1>5, Zenon DEF RestorePrevious

\* At whatever step a command fails, is withdrawn or runs out of time, its
\* directories are released, a withdrawal is not a timeout, a migration is
\* complete or undone and spares the other stacks, and volumes go only when
\* the command said so (worker/executor).
THEOREM ExecutorCorrect == ExecutorSpec => ExecutorSafety
<1> DEFINE Good == /\ ExecutorTypeOK' /\ DirectoriesAreReleased' /\ WithdrawnIsNoTimeout
                   /\ MigrationIsAllOrNothing /\ MigrationSparesOthers /\ VolumesSurvive
<1>1. ExecutorInv /\ ExecutorNext => ExecutorInv' /\ Conduct
  BY QuietStep, DownStep, UpCommand, RemoveStep, BackStep, Zenon DEF ExecutorNext
<1>2. ExecutorInv /\ UNCHANGED executorVars => ExecutorInv'
  BY DEF executorVars, ExecutorInv, ExecutorTypeOK, HostOK, StageOK, Own
<1>3. ExecutorInv' /\ Conduct => Good
  BY Zenon DEF ExecutorInv, StageOK, DirectoriesAreReleased, Conduct
<1>4. ExecutorInv /\ [ExecutorNext]_executorVars => ExecutorInv'
  BY <1>1, <1>2, Zenon
<1>5. ExecutorInv /\ [ExecutorNext]_executorVars => [Good]_executorVars
  BY <1>1, <1>3, Zenon
<1> QED BY <1>4, <1>5, ExecutorInvInit, PTL DEF ExecutorSpec, ExecutorSafety
=============================================================================
