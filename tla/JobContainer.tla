---------------------------- MODULE JobContainer ----------------------------
(***************************************************************************)
(* The worker's side of one job run: RunJob and KillJob                    *)
(* (worker/executor/runner.go).  The job's container has a fixed name and  *)
(* is removed when it exits (RunJobCommand.BuildDockerRunArgs), and it     *)
(* outlives both the docker client that started it and the worker.         *)
(***************************************************************************)
EXTENDS Integers

CONSTANTS
  MaxExecutions   \* bound: deliveries of the run_job command

ASSUME JobContainerAssumption == MaxExecutions \in Nat \ {0}

VARIABLES
  jobStep,     \* "idle", "configs", "auth", "start", "run", "stop" or "done"
  jobBudget,   \* the command's TimeoutSeconds; 0 asks for the default
  jobTime,     \* "left" or "up": runCtx has ended
  container,   \* "none" or "running"
  exit,        \* how this execution's container ended
  staged,      \* what the execution has put on disk
  answer,      \* JobCompletedMessage: "none", "success" or "failure"
  kill,        \* KillJob's answer
  stopFailed,  \* a docker stop has failed
  executions,  \* deliveries so far
  died         \* the worker has died during an execution

jobVars == <<jobStep, jobBudget, jobTime, container, exit, staged, answer, kill,
             stopFailed, executions, died>>

JobContainerInit ==
  /\ jobStep = "idle" /\ jobBudget = 0 /\ jobTime = "left"
  /\ container = "none" /\ exit = "none" /\ staged = {} /\ answer = "none"
  /\ kill = "none" /\ stopFailed = FALSE /\ executions = 0 /\ died = FALSE

\* The execution returns, its deferred clean-ups done but for what is left.
Returns(a, left) == jobStep' = "done" /\ answer' = a /\ staged' = left

\* validateVolumePaths, on a command that is delivered again only when the
\* worker has died under it.
BeginJob ==
  /\ jobStep = "idle" /\ executions < MaxExecutions
  /\ executions' = executions + 1 /\ jobBudget' \in {0, 1}
  /\ jobTime' = "left" /\ exit' = "none"
  /\ \/ jobStep' = "configs" /\ UNCHANGED <<answer, staged>>
     \/ Returns("failure", staged)
  /\ UNCHANGED <<container, kill, stopFailed, died>>

\* Mutant: a file that cannot be written leaves the ones before it.
StageConfigs_Leaves ==
  /\ jobStep = "configs"
  /\ \/ jobStep' = "auth" /\ staged' \in {staged, staged \cup {"configs"}}
        /\ UNCHANGED answer
     \/ Returns("failure", staged \cup {"configs"})
  /\ UNCHANGED <<jobBudget, jobTime, container, exit, kill, stopFailed,
                 executions, died>>

\* prepareJobConfigFiles: a name or path that is refused leaves the directory,
\* which is still empty; a file that cannot be decoded or written leaves nothing.
StageConfigs ==
  /\ jobStep = "configs"
  /\ \/ jobStep' = "auth" /\ staged' \in {staged, staged \cup {"configs"}}
        /\ UNCHANGED answer
     \/ Returns("failure", staged \cup {"emptyDir"})
     \/ Returns("failure", staged)
  /\ UNCHANGED <<jobBudget, jobTime, container, exit, kill, stopFailed,
                 executions, died>>

\* The insecure registries, the credential and its directory.
StageAuth ==
  /\ jobStep = "auth"
  /\ \/ jobStep' = "start" /\ staged' \in {staged, staged \cup {"auth"}}
        /\ UNCHANGED answer
     \/ Returns("failure", staged \ {"configs"})
  /\ UNCHANGED <<jobBudget, jobTime, container, exit, kill, stopFailed,
                 executions, died>>

\* docker run: no binary, an image that cannot be pulled, or a container of
\* that name from before fail it, and so does a context that has ended.
StartContainer ==
  /\ jobStep = "start"
  /\ \/ /\ container = "none" /\ jobTime = "left"
        /\ container' = "running" /\ jobStep' = "run"
        /\ UNCHANGED <<answer, staged>>
     \/ /\ IF jobTime = "left" THEN Returns("failure", staged \ {"configs", "auth"})
           ELSE jobStep' = "stop" /\ UNCHANGED <<answer, staged>>
        /\ UNCHANGED container
  /\ UNCHANGED <<jobBudget, jobTime, exit, kill, stopFailed, executions, died>>

\* The container ends by itself; the client that waits for it returns with
\* its exit code.
ContainerExits(code) ==
  /\ container = "running" /\ container' = "none" /\ exit' = code
  /\ IF jobStep = "run"
     THEN Returns(IF code = "zero" THEN "success" ELSE "failure",
                  staged \ {"configs", "auth"})
     ELSE UNCHANGED <<jobStep, answer, staged>>
  /\ UNCHANGED <<jobBudget, jobTime, kill, stopFailed, executions, died>>

\* Mutant: a command without a timeout of its own has none.
TimeIsUp_NoDefault ==
  /\ jobStep \in {"start", "run"} /\ jobTime = "left" /\ jobBudget > 0
  /\ jobTime' = "up"
  /\ UNCHANGED <<jobStep, jobBudget, container, exit, staged, answer, kill,
                 stopFailed, executions, died>>

\* The run's timeout, ten minutes unless the command has one, or the end of
\* the command's own context.
TimeIsUp ==
  /\ jobStep \in {"start", "run"} /\ jobTime = "left"
  /\ jobTime' = "up"
  /\ UNCHANGED <<jobStep, jobBudget, container, exit, staged, answer, kill,
                 stopFailed, executions, died>>

\* Mutant: with the client gone the run is over.
ClientKilled_Returns ==
  /\ jobStep = "run" /\ jobTime = "up"
  /\ Returns("failure", staged \ {"configs", "auth"})
  /\ UNCHANGED <<jobBudget, jobTime, container, exit, kill, stopFailed,
                 executions, died>>

\* The docker client is killed with its context; the container is not.
ClientKilled ==
  /\ jobStep = "run" /\ jobTime = "up" /\ jobStep' = "stop"
  /\ UNCHANGED <<jobBudget, jobTime, container, exit, staged, answer, kill,
                 stopFailed, executions, died>>

\* docker stop, for 15 seconds, its error ignored.
StopContainer ==
  /\ jobStep = "stop"
  /\ \/ container' = "none" /\ UNCHANGED stopFailed
     \/ container = "running" /\ stopFailed' = TRUE /\ UNCHANGED container
  /\ Returns("failure", staged \ {"configs", "auth"})
  /\ UNCHANGED <<jobBudget, jobTime, exit, kill, executions, died>>

\* Mutant: an error of docker stop is taken for a container already gone.
KillJob_Lenient ==
  /\ kill = "none" /\ executions > 0 /\ kill' = "stopped"
  /\ \/ container' = "none"
        /\ IF jobStep = "run" THEN Returns("failure", staged \ {"configs", "auth"})
           ELSE UNCHANGED <<jobStep, answer, staged>>
     \/ UNCHANGED <<container, jobStep, answer, staged>>
  /\ exit' = IF container = container' THEN exit ELSE "other"
  /\ UNCHANGED <<jobBudget, jobTime, stopFailed, executions, died>>

\* KillJob: docker stop for 10 seconds.  It fails while the container does not
\* exist, and when the 10 seconds are over before the container has gone,
\* which may happen all the same.
KillJob ==
  /\ kill = "none" /\ executions > 0
  /\ \/ /\ container = "running" /\ container' = "none"
        /\ kill' \in {"stopped", "failed"} /\ exit' \in {"zero", "other"}
        /\ IF jobStep = "run"
           THEN Returns(IF exit' = "zero" THEN "success" ELSE "failure",
                        staged \ {"configs", "auth"})
           ELSE UNCHANGED <<jobStep, answer, staged>>
     \/ kill' = "failed" /\ UNCHANGED <<container, exit, jobStep, answer, staged>>
  /\ UNCHANGED <<jobBudget, jobTime, stopFailed, executions, died>>

\* The worker dies; the command is delivered again to the next one.
WorkerDies ==
  /\ jobStep \notin {"idle", "done"} /\ jobStep' = "idle" /\ died' = TRUE
  /\ UNCHANGED <<jobBudget, jobTime, container, exit, staged, answer, kill,
                 stopFailed, executions>>

JobContainerNext ==
  \/ BeginJob \/ StageConfigs \/ StageAuth \/ StartContainer
  \/ \E code \in {"zero", "other"} : ContainerExits(code)
  \/ TimeIsUp \/ ClientKilled \/ StopContainer \/ KillJob \/ WorkerDies

\* Timers run and a process takes its next step.
JobContainerFairness ==
  /\ WF_jobVars(StartContainer) /\ WF_jobVars(TimeIsUp)
  /\ WF_jobVars(ClientKilled) /\ WF_jobVars(StopContainer)

JobContainerSpec ==
  JobContainerInit /\ [][JobContainerNext]_jobVars /\ JobContainerFairness

(***************************************************************************)
(* Properties                                                              *)
(***************************************************************************)

JobContainerTypeOK ==
  /\ jobStep \in {"idle", "configs", "auth", "start", "run", "stop", "done"}
  /\ jobBudget \in {0, 1} /\ jobTime \in {"left", "up"}
  /\ container \in {"none", "running"} /\ exit \in {"none", "zero", "other"}
  /\ staged \subseteq {"configs", "emptyDir", "auth"}
  /\ answer \in {"none", "success", "failure"}
  /\ kill \in {"none", "stopped", "failed"}
  /\ stopFailed \in BOOLEAN /\ died \in BOOLEAN
  /\ executions \in 0 .. MaxExecutions

\* A run that has been answered has no container left, however it ended: by
\* itself, by its timeout, killed.  Only a docker stop that fails, or the
\* death of the worker, leaves one ("to ensure it's not orphan" in RunJob).
AnsweredJobIsNotRunning ==
  jobStep = "done" /\ ~stopFailed /\ ~died => container = "none"

\* No content of a config file and no credential stays on the disk of a worker
\* that lives, whichever step the run fails at.
JobFilesAreReleased ==
  jobStep = "done" /\ ~died => staged \subseteq {"emptyDir"}

\* A kill that answered "stopped" stopped the run for good: nothing of it runs
\* afterwards, though the kill may come at any step of the run.
KilledStaysStopped ==
  kill = "stopped" /\ ~died => container = "none" /\ jobStep \in {"stop", "done"}

\* A job's container that never ends is answered all the same: every run has a
\* timeout, its own or the default.
EveryJobIsAnswered ==
  jobStep = "run" ~> jobStep \in {"done", "idle"}

\* An answered run leaves neither container nor files, and a killed one stays
\* stopped (RunJob, KillJob).
JobContainerSafety ==
  /\ JobContainerTypeOK /\ AnsweredJobIsNotRunning
  /\ JobFilesAreReleased /\ KilledStaysStopped
=============================================================================
