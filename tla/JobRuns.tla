------------------------------ MODULE JobRuns ------------------------------
(***************************************************************************)
(* The life of a job run: the job_runs record on the server                *)
(* (internal/jobscheduler/scheduler.go), the goroutine that dispatches it, *)
(* the container on one worker (worker/handlers, worker/transport), and    *)
(* the four judges that may settle the record when nothing is heard of the *)
(* run: the heartbeat, the disconnect timer (cmd/serve.go), the periodic   *)
(* sweep and the recovery at boot (internal/sync/boot.go).                 *)
(*                                                                         *)
(* Dispatch is the call WorkerLink takes apart: here the command is sent   *)
(* while the caller waits, again after each reconnect, and the answer      *)
(* comes back through the worker's spool.  A kill or a cancel only makes   *)
(* the container end, which Finish allows at any time.                     *)
(***************************************************************************)
EXTENDS Integers, FiniteSets

CONSTANTS
  Runs,         \* run IDs, all for the same worker
  MaxFaults     \* bound: lost connections, server restarts, worker crashes
                \* and failed saves of a job_run, together

ASSUME BoundsAssumption == MaxFaults \in Nat

VARIABLES
  status,      \* per run: job_runs.status ("none": no record yet)
  age,         \* per run: time since "updated", in steps of Ages
  caller,      \* per run: executeJob and dispatchToWorker
  chan,        \* per run: what arrived on the pending result's channel
  completing,  \* goroutines running HandleJobCompleted
  beat,        \* goroutines running ReconcileActiveJobs: their activeIDs
  seen,        \* spooled messages in s.seenMessages
  conn,        \* the connection: up; lost (the server has not noticed); down
  hooks,       \* goroutines running onConnect and onDisconnect
  timer,       \* "armed" and "firing" disconnect timers
  toWorker,    \* run_job commands travelling to the worker
  job,         \* per run: the worker's work on it
  replying,    \* runs accepted by HandleRunJob, not yet answered
  outbox,      \* the spool: answers and completions without an ack
  succeeded,   \* runs of which a container exited with success
  faults       \* the faults so far, by kind

record == <<status, age>>
calls == <<caller, chan>>
link == <<conn, hooks, timer>>
container == <<job, replying, succeeded>>
vars == <<record, calls, completing, beat, seen, link, toWorker, container,
          outbox, faults>>

Terminal == {"success", "error", "stalled", "forgotten"}

\* fresh; over a minute; over 15 minutes (maxJobRunPendingDuration); over an
\* hour (maxJobRunDuration).
Ages == 0 .. 3

Messages == [run : Runs, kind : {"accepted", "rejected", "success", "error"}]
Completions == {m \in Messages : m.kind \in {"success", "error"}}

TypeOK ==
  /\ status \in [Runs -> {"none", "pending", "running"} \cup Terminal]
  /\ age \in [Runs -> Ages]
  /\ caller \in [Runs -> {"none", "created", "dispatching", "accepted",
                          "failed", "done"}]
  /\ chan \in [Runs -> {"none", "accepted", "rejected"}]
  /\ completing \subseteq Completions
  /\ beat \in SUBSET SUBSET Runs
  /\ seen \subseteq Messages
  /\ conn \in {"up", "lost", "down"}
  /\ hooks \subseteq {"connect", "disconnect"}
  /\ timer \subseteq {"armed", "firing"}
  /\ toWorker \subseteq Runs
  /\ job \in [Runs -> {"none", "queued", "active", "success", "error", "over"}]
  /\ replying \subseteq Runs
  /\ outbox \subseteq Messages
  /\ succeeded \subseteq Runs
  /\ faults \in [{"break", "restart", "crash", "save"} -> 0 .. MaxFaults]

Init ==
  /\ status = [r \in Runs |-> "none"] /\ age = [r \in Runs |-> 0]
  /\ caller = [r \in Runs |-> "none"] /\ chan = [r \in Runs |-> "none"]
  /\ completing = {} /\ beat = {} /\ seen = {}
  /\ conn = "up" /\ hooks = {} /\ timer = {}
  /\ toWorker = {} /\ job = [r \in Runs |-> "none"] /\ replying = {}
  /\ outbox = {} /\ succeeded = {}
  /\ faults = [k \in {"break", "restart", "crash", "save"} |-> 0]

Fault(kind) ==
  /\ faults["break"] + faults["restart"] + faults["crash"] + faults["save"]
     < MaxFaults
  /\ faults' = [faults EXCEPT ![kind] = @ + 1]

(***************************************************************************)
(* Writing the record, under runMu                                         *)
(***************************************************************************)

\* Every save sets "updated".
Save(r, st) ==
  /\ status' = [status EXCEPT ![r] = st]
  /\ age' = [age EXCEPT ![r] = 0]
  /\ UNCHANGED faults

SaveFails ==
  /\ Fault("save")
  /\ UNCHANGED record

\* Settle as error, one after the other, the runs of S that are in status st.
\* A save that fails leaves its run for the next judge.
Settle(S, st) ==
  LET hit == {r \in S : status[r] = st} IN
  \/ /\ status' = [r \in Runs |-> IF r \in hit THEN "error" ELSE status[r]]
     /\ age' = [r \in Runs |-> IF r \in hit THEN 0 ELSE age[r]]
     /\ UNCHANGED faults
  \/ hit # {} /\ SaveFails

Goto(r, step) == caller' = [caller EXCEPT ![r] = step]

(***************************************************************************)
(* executeJob and dispatchToWorker                                         *)
(***************************************************************************)

\* The definition, a secret, a config file cannot be loaded; or no worker
\* matches: the run is created in its final status.
FailBeforeDispatch(r) ==
  /\ caller[r] = "none"
  /\ \E st \in {"error", "stalled"} : Save(r, st)
  /\ Goto(r, "done")
  /\ UNCHANGED <<chan, completing, beat, seen, link, toWorker, container,
                 outbox>>

CreateRun(r) ==
  /\ caller[r] = "none" /\ conn # "down"
  /\ Save(r, "pending")
  /\ Goto(r, "created")
  /\ UNCHANGED <<chan, completing, beat, seen, link, toWorker, container,
                 outbox>>

\* patchJobRunMeta, the policy checks and the registry credentials; then
\* Dispatch sends the command, or waits for a reconnect.
Prepare(r) ==
  /\ caller[r] = "created"
  /\ \/ /\ Save(r, status[r]) /\ Goto(r, "dispatching")
        /\ toWorker' = IF conn = "up" THEN toWorker \cup {r} ELSE toWorker
     \/ UNCHANGED <<record, toWorker, faults>> /\ Goto(r, "failed")
  /\ UNCHANGED <<chan, completing, beat, seen, link, container, outbox>>

\* The answer, or the 30 seconds of ackCtx.
DispatchReturns(r) ==
  /\ caller[r] = "dispatching"
  /\ \/ chan[r] = "accepted" /\ Goto(r, "accepted")
     \/ chan[r] = "rejected" /\ Goto(r, "failed")
     \/ Goto(r, "failed")
  /\ UNCHANGED <<record, chan, completing, beat, seen, link, toWorker,
                 container, outbox, faults>>

\* updateJobRun with status error, on any failure above.
FailRun(r) ==
  /\ caller[r] = "failed"
  /\ Save(r, "error") \/ SaveFails
  /\ Goto(r, "done")
  /\ UNCHANGED <<chan, completing, beat, seen, link, toWorker, container,
                 outbox>>

\* Mutant: the record is set to running whatever it says.
SetJobRunStarted_Unguarded(r) ==
  /\ caller[r] = "accepted"
  /\ Save(r, "running") \/ SaveFails
  /\ Goto(r, "done")
  /\ UNCHANGED <<chan, completing, beat, seen, link, toWorker, container,
                 outbox>>

\* setJobRunStarted: a run that is already settled is left alone.  When the
\* save fails the worker is told to kill the container.
SetJobRunStarted(r) ==
  /\ caller[r] = "accepted"
  /\ \/ status[r] \in Terminal /\ UNCHANGED <<record, faults>>
     \/ status[r] \notin Terminal /\ (Save(r, "running") \/ SaveFails)
  /\ Goto(r, "done")
  /\ UNCHANGED <<chan, completing, beat, seen, link, toWorker, container,
                 outbox>>

(***************************************************************************)
(* The worker                                                              *)
(***************************************************************************)

\* HandleRunJob: reject (overloaded, draining) or schedule; a copy of what is
\* known already is answered with the acceptance again.
HandleRunJob(r) ==
  /\ r \in toWorker
  /\ toWorker' = toWorker \ {r}
  /\ \/ /\ job[r] = "none"
        /\ job' = [job EXCEPT ![r] = "queued"]
        /\ replying' = replying \cup {r}
        /\ UNCHANGED outbox
     \/ /\ job[r] = "none"
        /\ outbox' = outbox \cup {[run |-> r, kind |-> "rejected"]}
        /\ UNCHANGED <<job, replying>>
     \/ /\ job[r] # "none" /\ replying' = replying \cup {r}
        /\ UNCHANGED <<job, outbox>>
  /\ UNCHANGED <<record, calls, completing, beat, seen, link, succeeded,
                 faults>>

\* The acceptance is sent only after the job has been scheduled.
ReplyAccepted(r) ==
  /\ r \in replying
  /\ replying' = replying \ {r}
  /\ outbox' = outbox \cup {[run |-> r, kind |-> "accepted"]}
  /\ UNCHANGED <<record, calls, completing, beat, seen, link, toWorker, job,
                 succeeded, faults>>

\* A slot is free: the run enters ActiveJobs and its container starts.
StartJob(r) ==
  /\ job[r] = "queued"
  /\ job' = [job EXCEPT ![r] = "active"]
  /\ UNCHANGED <<record, calls, completing, beat, seen, link, toWorker,
                 replying, succeeded, outbox, faults>>

\* The container ends; ReportJobCompleted takes the run out of ActiveJobs ...
FinishJob(r) ==
  /\ job[r] = "active"
  /\ \E verdict \in {"success", "error"} :
       /\ job' = [job EXCEPT ![r] = verdict]
       /\ succeeded' = IF verdict = "success" THEN succeeded \cup {r} ELSE succeeded
  /\ UNCHANGED <<record, calls, completing, beat, seen, link, toWorker,
                 replying, outbox, faults>>

\* ... and then puts the completion into the spool.
ReportJobCompleted(r) ==
  /\ job[r] \in {"success", "error"}
  /\ outbox' = outbox \cup {[run |-> r, kind |-> job[r]]}
  /\ job' = [job EXCEPT ![r] = "over"]
  /\ UNCHANGED <<record, calls, completing, beat, seen, link, toWorker,
                 replying, succeeded, faults>>

(***************************************************************************)
(* Messages from the worker                                                *)
(***************************************************************************)

\* Mutant: a completion, too, is handed to the call that waits for the run.
ReadMessage_AnyKind(m) ==
  /\ conn = "up" /\ m \in outbox
  /\ outbox' \in {outbox, outbox \ {m}}
  /\ m \in seen => outbox' # outbox
  /\ seen' = seen \cup {m}
  /\ chan' = IF m \notin seen
                /\ caller[m.run] = "dispatching" /\ chan[m.run] = "none"
             THEN [chan EXCEPT ![m.run] = m.kind] ELSE chan
  /\ completing' = completing \cup (({m} \cap Completions) \ seen)
  /\ UNCHANGED <<record, caller, beat, link, toWorker, container, faults>>

\* An answer goes to the waiting call; a completion to a goroutine of its
\* own.  The message is acknowledged either way, maybe in vain.
ReadMessage(m) ==
  /\ conn = "up" /\ m \in outbox
  /\ outbox' \in {outbox, outbox \ {m}}
  /\ m \in seen => outbox' # outbox
  /\ seen' = seen \cup {m}
  /\ chan' = IF m \notin seen /\ m \notin Completions
                /\ caller[m.run] = "dispatching" /\ chan[m.run] = "none"
             THEN [chan EXCEPT ![m.run] = m.kind] ELSE chan
  /\ completing' = completing \cup (({m} \cap Completions) \ seen)
  /\ UNCHANGED <<record, caller, beat, link, toWorker, container, faults>>

\* Mutant: a failed run is recorded as a success.
HandleJobCompleted_IgnoresVerdict(m) ==
  /\ m \in completing
  /\ completing' = completing \ {m}
  /\ Save(m.run, "success") \/ SaveFails
  /\ UNCHANGED <<calls, beat, seen, link, toWorker, container, outbox>>

\* Mutant: a run that was given up for lost keeps that status.
HandleJobCompleted_KeepsSettled(m) ==
  /\ m \in completing
  /\ completing' = completing \ {m}
  /\ IF status[m.run] \in Terminal THEN UNCHANGED <<record, faults>>
     ELSE Save(m.run, m.kind) \/ SaveFails
  /\ UNCHANGED <<calls, beat, seen, link, toWorker, container, outbox>>

\* updateJobRun with the verdict, whatever the record says.
HandleJobCompleted(m) ==
  /\ m \in completing
  /\ completing' = completing \ {m}
  /\ Save(m.run, m.kind) \/ SaveFails
  /\ UNCHANGED <<calls, beat, seen, link, toWorker, container, outbox>>

\* A heartbeat carries GetActiveJobsList.
Heartbeat ==
  /\ conn = "up" /\ beat = {}
  /\ beat' = {{r \in Runs : job[r] = "active"}}
  /\ UNCHANGED <<record, calls, completing, seen, link, toWorker, container,
                 outbox, faults>>

(***************************************************************************)
(* The judges                                                              *)
(***************************************************************************)

\* A running run the worker does not list, untouched for over a minute, is
\* taken for lost.
ReconcileActiveJobs ==
  \E active \in beat :
    /\ Settle({r \in Runs \ active : age[r] >= 1}, "running")
    /\ beat' = {}
    /\ UNCHANGED <<calls, completing, seen, link, toWorker, container, outbox>>

HandleWorkerDisconnect ==
  /\ "firing" \in timer
  /\ timer' = timer \ {"firing"}
  /\ Settle(Runs, "running")
  /\ UNCHANGED <<calls, completing, beat, seen, conn, hooks, toWorker,
                 container, outbox>>

\* Mutant: the sweep does not look at pending runs.
MarkForgottenRuns_RunningOnly(r) ==
  /\ status[r] = "running" /\ age[r] >= 3 /\ (Save(r, "forgotten") \/ SaveFails)
  /\ UNCHANGED <<calls, completing, beat, seen, link, toWorker, container,
                 outbox>>

\* reconcileSingleRunningRun and reconcileSinglePendingRun of the sweep.
MarkForgottenRuns(r) ==
  /\ \/ status[r] = "running" /\ age[r] >= 3 /\ (Save(r, "forgotten") \/ SaveFails)
     \/ status[r] = "pending" /\ age[r] >= 2 /\ (Save(r, "error") \/ SaveFails)
  /\ UNCHANGED <<calls, completing, beat, seen, link, toWorker, container,
                 outbox>>

\* Time passes over an unsettled run.  A dispatch lasts under a minute.
Age(r) ==
  /\ status[r] \in {"pending", "running"} /\ age[r] < 3 /\ caller[r] = "done"
  /\ age' = [age EXCEPT ![r] = @ + 1]
  /\ UNCHANGED <<status, calls, completing, beat, seen, link, toWorker,
                 container, outbox, faults>>

(***************************************************************************)
(* The connection and its timer                                            *)
(***************************************************************************)
Break ==
  /\ conn = "up" /\ Fault("break")
  /\ conn' = "lost" /\ toWorker' = {}
  /\ UNCHANGED <<record, calls, completing, beat, seen, hooks, timer,
                 container, outbox>>

\* The deferred cleanup of handleWebSocket starts onDisconnect.
Notice ==
  /\ conn = "lost"
  /\ conn' = "down" /\ hooks' = hooks \cup {"disconnect"}
  /\ UNCHANGED <<record, calls, completing, beat, seen, timer, toWorker,
                 container, outbox, faults>>

\* The commands still waited for are sent again.
Reconnect ==
  /\ conn # "up"
  /\ conn' = "up" /\ hooks' = hooks \cup {"connect"}
  /\ toWorker' = {r \in Runs : caller[r] = "dispatching"}
  /\ UNCHANGED <<record, calls, completing, beat, seen, timer, container,
                 outbox, faults>>

\* onConnect stops a timer that has not fired; onDisconnect arms one.
RunHook ==
  /\ \/ /\ "connect" \in hooks
        /\ hooks' = hooks \ {"connect"} /\ timer' = timer \ {"armed"}
     \/ /\ "disconnect" \in hooks
        /\ hooks' = hooks \ {"disconnect"} /\ timer' = timer \cup {"armed"}
  /\ UNCHANGED <<record, calls, completing, beat, seen, conn, toWorker,
                 container, outbox, faults>>

\* The grace period is over: IsConnected, and only then, and later, the runs.
FireTimer ==
  /\ "armed" \in timer
  /\ timer' = (timer \ {"armed"}) \cup (IF conn = "down" THEN {"firing"} ELSE {})
  /\ UNCHANGED <<record, calls, completing, beat, seen, conn, hooks, toWorker,
                 container, outbox, faults>>

(***************************************************************************)
(* Restarts                                                                *)
(***************************************************************************)

\* Everything in memory is gone; RecoverOrphanState settles pending runs.
ServerRestart ==
  /\ Fault("restart")
  /\ \E lost \in SUBSET {r \in Runs : status[r] = "pending"} :
       /\ status' = [r \in Runs |-> IF status[r] = "pending" /\ r \notin lost
                                    THEN "error" ELSE status[r]]
       /\ age' = [r \in Runs |-> IF status[r] = "pending" /\ r \notin lost
                                 THEN 0 ELSE age[r]]
  /\ caller' = [r \in Runs |-> IF caller[r] = "none" THEN "none" ELSE "done"]
  /\ chan' = [r \in Runs |-> "none"]
  /\ completing' = {} /\ beat' = {} /\ seen' = {}
  /\ conn' = "down" /\ hooks' = {} /\ timer' = {} /\ toWorker' = {}
  /\ UNCHANGED <<container, outbox>>

\* Only the spool survives.
WorkerCrash ==
  /\ Fault("crash")
  /\ job' = [r \in Runs |-> "none"] /\ replying' = {}
  /\ conn' = IF conn = "up" THEN "lost" ELSE conn
  /\ toWorker' = {}
  /\ UNCHANGED <<record, calls, completing, beat, seen, hooks, timer,
                 succeeded, outbox>>

ServerStep(r) ==
  \/ Prepare(r) \/ DispatchReturns(r) \/ FailRun(r)
  \/ SetJobRunStarted(r)

WorkerStep(r) ==
  \/ HandleRunJob(r) \/ ReplyAccepted(r) \/ StartJob(r) \/ FinishJob(r)
  \/ ReportJobCompleted(r)

Hook == HandleWorkerDisconnect \/ Notice \/ Reconnect \/ RunHook \/ FireTimer

Next ==
  \/ \E r \in Runs : \/ FailBeforeDispatch(r) \/ CreateRun(r)
                     \/ ServerStep(r) \/ WorkerStep(r)
                     \/ MarkForgottenRuns(r) \/ Age(r)
  \/ \E m \in Messages : ReadMessage(m) \/ HandleJobCompleted(m)
  \/ Heartbeat \/ ReconcileActiveJobs \/ Hook
  \/ Break \/ ServerRestart \/ WorkerCrash

Spec == Init /\ [][Next]_vars

\* Goroutines make progress, containers end (RunJob has a timeout), the
\* worker reconnects, the clock advances and the sweep runs every 5 minutes.
\* Nothing is assumed of triggers, faults or heartbeats.
Fairness ==
  /\ \A r \in Runs : /\ WF_vars(ServerStep(r)) /\ WF_vars(WorkerStep(r))
                     /\ WF_vars(MarkForgottenRuns(r)) /\ WF_vars(Age(r))
  /\ \A m \in Messages : WF_vars(ReadMessage(m)) /\ WF_vars(HandleJobCompleted(m))
  /\ WF_vars(ReconcileActiveJobs) /\ WF_vars(Hook)

FairSpec == Spec /\ Fairness

(***************************************************************************)
(* Properties                                                              *)
(***************************************************************************)

\* A run that was settled is never shown as pending or running again,
\* whatever the order in which the acceptance, the completion and the judges
\* reach the record (the guard of setJobRunStarted).
SettledStaysSettled ==
  [][\A r \in Runs : status[r] \in Terminal => status'[r] \in Terminal]_vars

\* A record says success only when a container of that run exited with
\* success: through the spool, redelivery, the completion goroutine and
\* the judges.
SuccessIsReal ==
  \A r \in Runs : status[r] = "success" => r \in succeeded

\* Every run that was created is settled in the end, also when the server
\* restarts, the worker dies, messages are lost or saves fail.
RunsAreSettled ==
  \A r \in Runs : status[r] \in {"pending", "running"} ~> status[r] \in Terminal

\* The verdict in a completion that waits in the spool is on the record some
\* time later, even when a judge had taken the run for lost before
\* (HandleJobCompleted overwrites it), unless the server restarts or a save
\* fails after the ack.
CompletionIsRecorded ==
  \A m \in Completions :
    (m \in outbox \ seen) ~> \/ status[m.run] = m.kind
                             \/ faults["restart"] > 0 \/ faults["save"] > 0

\* scheduler.go:673-675: a run missing from the worker's active list "must
\* have finished/terminated while the connection was offline".
LostRunsAreOver ==
  [][\A r \in Runs :
       (ReconcileActiveJobs /\ status[r] = "running" /\ status'[r] = "error")
       => job[r] \notin {"queued", "active"}]_vars
=============================================================================
