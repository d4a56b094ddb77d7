------------------------------ MODULE Executor ------------------------------
(***************************************************************************)
(* What the worker does to its host for one stack: deploy, redeploy,       *)
(* teardown (worker/executor/runner.go over internal/compose/runner.go)    *)
(* and the migration of the stack to another Compose project name          *)
(* (worker/executor/project_migration.go).                                 *)
(*                                                                         *)
(* A docker or docker compose invocation is one step with its possible     *)
(* outcomes: it does its work; it fails, or is killed with the context it  *)
(* runs under, having done part of it.  A context ends by its deadline or  *)
(* because the server withdrew the command, whichever is first.            *)
(***************************************************************************)
EXTENDS Integers, FiniteSets

CONSTANTS
  MaxCommands   \* bound: commands that are started

ASSUME ExecutorAssumption == MaxCommands \in Nat \ {0}

(***************************************************************************)
(* Revision 1 of the stack runs services a and b as project p; revision 2  *)
(* runs a and c, and a migration moves it to project q.  Another stack has *)
(* a container in project p, as stacks of older versions may.              *)
(***************************************************************************)
Services(rev) == IF rev = 1 THEN {"a", "b"} ELSE {"a", "c"}
Container(stack, project, service, rev) ==
  [stack |-> stack, project |-> project, service |-> service, rev |-> rev]
Running(project, rev) == {Container("own", project, s, rev) : s \in Services(rev)}
OtherStack == Container("other", "p", "x", 1)

CommandKinds == {"deploy", "redeploy", "teardown", "migrate"}
Commands == [kind : CommandKinds, rev : {1, 2}, orphans : BOOLEAN, networks : BOOLEAN,
             volumes : BOOLEAN]
NoCommand == [kind |-> "none", rev |-> 1, orphans |-> FALSE,
              networks |-> FALSE, volumes |-> FALSE]
Results == [status : {"none", "ok", "error", "rolledback", "rollbackfailed"},
            timedOut : {"", "pull", "up"}]
NoResult == [status |-> "none", timedOut |-> ""]

VARIABLES
  host,       \* the containers on the host
  volume,     \* the stack's named volume exists
  command,    \* the command in progress
  stage,      \* how far it is
  dirs,       \* directories staged for it: registry auth and work directory
  context,    \* its step's context: "live", "deadline" or "cancelled"
  identity,   \* the project name the server has on record for the stack
  result,     \* the last CommandResult
  started,    \* commands started
  crashed     \* the worker process has died during a command

executorVars == <<host, volume, command, stage, dirs, context, identity,
                  result, started, crashed>>

Project == IF command.kind = "migrate" THEN "q" ELSE identity
Own == {c \in host : c.stack = "own"}

ExecutorInit ==
  /\ host = Running("p", 1) \cup {OtherStack} /\ volume = TRUE
  /\ command = NoCommand /\ stage = "idle" /\ dirs = {} /\ context = "live"
  /\ identity = "p" /\ result = NoResult /\ started = 0 /\ crashed = FALSE

StepTo(next) == stage' = next
\* The command answers; the deferred clean-ups have run.
Answer(status, timedOut) ==
  /\ result' = [status |-> status, timedOut |-> timedOut]
  /\ command' = NoCommand /\ stage' = "idle" /\ dirs' = {} /\ context' = "live"

\* Mutant: an ended context of either kind counts as the step's timeout.
TimedOut_AnyEnd(step) == IF context # "live" THEN step ELSE ""

\* stepDeadlineFired: the step's own deadline, and not the withdrawal.
TimedOut(step) == IF context = "deadline" THEN step ELSE ""

\* Deploy and Redeploy prepare registry credentials; Teardown does not.
FirstStage(kind) == IF kind = "teardown" THEN "workdir" ELSE "auth"

\* What Deploy, Redeploy (RunForceUp) and a migrating Redeploy do once the
\* images are pulled.
UpStep ==
  CASE command.kind = "migrate" -> "preflight"
    [] command.kind = "redeploy" /\ command.networks -> "down"
    [] OTHER -> "up"

Accept(cmd) ==
  /\ stage = "idle" /\ started < MaxCommands
  /\ command' = cmd /\ started' = started + 1
  /\ stage' = FirstStage(cmd.kind)
  /\ result' = NoResult
  /\ UNCHANGED <<host, volume, dirs, context, identity, crashed>>

\* MsgCancelCommand.
CancelCommand ==
  /\ stage # "idle" /\ context # "cancelled" /\ context' = "cancelled"
  /\ UNCHANGED <<host, volume, command, stage, dirs, identity, result, started,
                 crashed>>

\* The budget of the pull or of the up step runs out.
Deadline ==
  /\ stage \in {"pull", "up", "down", "preflight", "remove", "volumes", "back"}
  /\ command.kind # "teardown"
  /\ context = "live" /\ context' = "deadline"
  /\ UNCHANGED <<host, volume, command, stage, dirs, identity, result, started,
                 crashed>>

\* The worker process dies: nothing is cleaned up and nothing is answered.
Crash ==
  /\ stage # "idle" /\ crashed' = TRUE
  /\ command' = NoCommand /\ stage' = "idle" /\ context' = "live"
  /\ UNCHANGED <<host, volume, dirs, identity, result, started>>

\* preflightInsecureRegistries, validateRegistryAuth and prepareRegistryAuth.
PrepareAuth ==
  /\ stage = "auth"
  /\ \/ StepTo("workdir") /\ dirs' \in {dirs, dirs \cup {"auth"}}
        /\ UNCHANGED <<command, context, result>>
     \/ Answer("error", "")
  /\ UNCHANGED <<host, volume, identity, started, crashed>>

\* Mutant: a .env file that cannot be applied leaves the directory behind.
PrepareWorkDir_Leaks ==
  /\ stage = "workdir"
  /\ \/ /\ StepTo(IF command.kind = "teardown" THEN "down" ELSE "pull")
        /\ dirs' = dirs \cup {"work"}
        /\ UNCHANGED <<command, context, result>>
     \/ /\ result' = [status |-> "error", timedOut |-> ""]
        /\ command' = NoCommand /\ stage' = "idle" /\ context' = "live"
        /\ dirs' = {"work"}
  /\ UNCHANGED <<host, volume, identity, started, crashed>>

\* prepareWorkDir: the compose file and the .env file are written.
PrepareWorkDir ==
  /\ stage = "workdir"
  /\ \/ /\ StepTo(IF command.kind = "teardown" THEN "down" ELSE "pull")
        /\ dirs' = dirs \cup {"work"}
        /\ UNCHANGED <<command, context, result>>
     \/ Answer("error", "")
  /\ UNCHANGED <<host, volume, identity, started, crashed>>

(***************************************************************************)
(* Docker                                                                  *)
(***************************************************************************)

\* The host after docker compose up of revision rev as project, when services
\* is what it got to; a service's old container is replaced.
Upped(project, rev, services, orphans) ==
  {c \in host : ~(c.project = project /\ c.service \in services)
                /\ (orphans => c.project # project
                               \/ c.service \in Services(rev))}
  \cup {Container("own", project, s, rev) : s \in services}

\* The host after docker compose down of revision rev as project.
Downed(project, rev, orphans) ==
  {c \in host : c.project = project =>
                  ~orphans /\ c.service \notin Services(rev)}

\* RunPull, under its own deadline; the up step gets a context of its own,
\* which a withdrawn command has lost already.
Pull ==
  /\ stage = "pull"
  /\ \/ /\ context = "live"
        /\ StepTo(UpStep)
        /\ UNCHANGED <<command, dirs, context, result>>
     \/ Answer("error", TimedOut("pull"))
  /\ UNCHANGED <<host, volume, identity, started, crashed>>

\* RunDown for a teardown, and the first half of RunForceUp when networks are
\* recreated.
Down ==
  /\ stage = "down"
  /\ LET orphans == command.kind = "redeploy" /\ command.orphans
         downed == Downed(identity, command.rev, orphans)
         removes == command.kind = "redeploy" /\ command.volumes
     IN \/ /\ context = "live"
           /\ host' = downed
           /\ volume' = (volume /\ ~removes)
           /\ IF command.kind = "teardown" THEN Answer("ok", "")
              ELSE StepTo("up") /\ UNCHANGED <<command, dirs, context, result>>
        \/ /\ \E gone \in SUBSET (host \ downed) : host' = host \ gone
           /\ volume' \in {volume, volume /\ ~removes}
           /\ Answer("error", IF command.kind = "teardown" THEN ""
                              ELSE TimedOut("up"))
  /\ UNCHANGED <<identity, started, crashed>>

\* RunUp, and the up of RunForceUp; a migration whose up fails goes back.
Up ==
  /\ stage = "up"
  /\ \/ /\ context = "live"
        /\ host' = Upped(Project, command.rev, Services(command.rev),
                         command.orphans)
        /\ volume' = TRUE /\ identity' = Project
        /\ Answer("ok", "")
     \/ /\ \E part \in SUBSET Services(command.rev) :
             host' = Upped(Project, command.rev, part, FALSE)
        /\ volume' \in {volume, TRUE} /\ UNCHANGED identity
        /\ IF command.kind = "migrate"
           THEN StepTo("back") /\ UNCHANGED <<command, dirs, context, result>>
           ELSE Answer("error", TimedOut("up"))
  /\ UNCHANGED <<started, crashed>>

(***************************************************************************)
(* runProjectIdentityMigration, the up step of a migrating redeploy         *)
(***************************************************************************)

\* preflightProjectMigration: a container of the stack in a third project, a
\* name taken by another workload or an anonymous volume stops it here.
Preflight ==
  /\ stage = "preflight"
  /\ \/ /\ context = "live"
        /\ StepTo("remove") /\ UNCHANGED <<command, dirs, context, result>>
     \/ Answer("error", TimedOut("up"))
  /\ UNCHANGED <<host, volume, identity, started, crashed>>

\* Mutant: the containers are removed with compose down on the old project.
RemoveContainers_Down ==
  /\ stage = "remove"
  /\ \/ /\ context = "live"
        /\ host' = Downed("p", 1, TRUE)
        /\ StepTo(IF command.volumes THEN "volumes" ELSE "up")
     \/ /\ \E gone \in SUBSET Own : host' = host \ gone
        /\ StepTo("back")
  /\ UNCHANGED <<volume, command, dirs, context, identity, result, started,
                 crashed>>

\* Mutant: named volumes go whether or not their recreation was chosen.
RemoveContainers_AndVolumes ==
  /\ stage = "remove"
  /\ \/ context = "live" /\ host' = host \ Own /\ StepTo("volumes")
     \/ /\ \E gone \in SUBSET Own : host' = host \ gone
        /\ StepTo("back")
  /\ UNCHANGED <<volume, command, dirs, context, identity, result, started,
                 crashed>>

\* removeStackContainers of the containers with the stack's label.
RemoveContainers ==
  /\ stage = "remove"
  /\ \/ /\ context = "live"
        /\ host' = host \ Own
        /\ StepTo(IF command.volumes THEN "volumes" ELSE "up")
     \/ /\ \E gone \in SUBSET Own : host' = host \ gone
        /\ StepTo("back")
  /\ UNCHANGED <<volume, command, dirs, context, identity, result, started,
                 crashed>>

\* removeNamedVolumes, when their recreation was chosen.
RemoveVolumes ==
  /\ stage = "volumes"
  /\ \/ /\ context = "live" /\ volume' = FALSE /\ StepTo("up")
     \/ volume' \in {volume, FALSE} /\ StepTo("back")
  /\ UNCHANGED <<host, command, dirs, context, identity, result, started,
                 crashed>>

\* Mutant: what the migration has started is left to compose.
RestorePrevious_KeepsPartial ==
  /\ stage = "back"
  /\ \/ /\ host' = Upped("p", 1, Services(1), FALSE) /\ volume' = TRUE
        /\ Answer("rolledback", TimedOut("up"))
     \/ /\ \E gone \in SUBSET Own : host' = host \ gone
        /\ UNCHANGED volume
        /\ Answer("rollbackfailed", TimedOut("up"))
  /\ UNCHANGED <<identity, started, crashed>>

\* restorePrevious, under a context of its own: what the migration started is
\* removed and the previous revision brought up in the previous project.
\* Either half may fail and the other is still tried.
RestorePrevious ==
  /\ stage = "back"
  /\ \/ /\ host' = (host \ Own) \cup Running("p", 1) /\ volume' = TRUE
        /\ Answer("rolledback", TimedOut("up"))
     \/ /\ \E gone \in SUBSET Own, part \in SUBSET Running("p", 1) :
             host' = {c \in host \ gone : \A d \in part :
                        c.project = d.project => c.service # d.service} \cup part
        /\ volume' \in {volume, TRUE}
        /\ Answer("rollbackfailed", TimedOut("up"))
  /\ UNCHANGED <<identity, started, crashed>>

\* The commands the server sends: a migration moves revision 1 in project p
\* to revision 2 in project q.
Sent(cmd) ==
  /\ cmd.kind = "migrate" =>
       /\ cmd.rev = 2 /\ identity = "p"
       /\ {c \in Own : c.project = "p"} \subseteq Running("p", 1)
  /\ cmd.kind = "redeploy" \/ ~cmd.networks
  /\ cmd.kind \in {"redeploy", "migrate"} \/ ~cmd.volumes
  /\ cmd.kind # "teardown" \/ ~cmd.orphans

ExecutorNext ==
  \/ \E cmd \in Commands : Sent(cmd) /\ Accept(cmd)
  \/ CancelCommand \/ Deadline \/ Crash
  \/ PrepareAuth \/ PrepareWorkDir \/ Pull \/ Down \/ Up
  \/ Preflight \/ RemoveContainers \/ RemoveVolumes \/ RestorePrevious

ExecutorSpec == ExecutorInit /\ [][ExecutorNext]_executorVars

(***************************************************************************)
(* Properties                                                              *)
(***************************************************************************)

ExecutorTypeOK ==
  /\ host \subseteq [stack : {"own", "other"}, project : {"p", "q"},
                     service : {"a", "b", "c", "x"}, rev : {1, 2}]
  /\ volume \in BOOLEAN /\ crashed \in BOOLEAN
  /\ command \in Commands \cup {NoCommand}
  /\ stage \in {"idle", "auth", "workdir", "pull", "down", "up", "preflight",
                "remove", "volumes", "back"}
  /\ dirs \subseteq {"auth", "work"}
  /\ context \in {"live", "deadline", "cancelled"}
  /\ identity \in {"p", "q"} /\ result \in Results /\ started \in 0 .. MaxCommands

\* Whatever step a command fails at, its compose file, its .env file and its
\* registry credential do not stay on the worker's disk; only a worker that
\* dies leaves them.
DirectoriesAreReleased ==
  stage = "idle" /\ ~crashed => dirs = {}

\* A command that the server withdrew is never reported as timed out, so the
\* server does not converge the stack on a deploy nobody waits for.
WithdrawnIsNoTimeout ==
  stage # "idle" /\ context = "cancelled" => result'.timedOut = ""

\* A migration that answers success has all of the stack in the new project;
\* one that answers "rolled back" has restored the previous containers, with
\* nothing of the new project left.
MigrationIsAllOrNothing ==
  command.kind = "migrate" =>
    /\ result'.status = "ok" => {c \in host' : c.stack = "own"} = Running("q", 2)
    /\ result'.status = "rolledback" =>
         {c \in host' : c.stack = "own"} = Running("p", 1)

\* A migration never touches a container of another stack, even one that
\* shares the old project name.
MigrationSparesOthers ==
  command.kind = "migrate" =>
    {c \in host' : c.stack = "other"} = {c \in host : c.stack = "other"}

\* The named volume is removed only by a command that was told to recreate
\* volumes; neither a failed nor a rolled back migration costs data.
VolumesSurvive ==
  volume /\ ~volume' => command.volumes

\* What a command of the executor may never do, at whatever step it fails.
ExecutorSafety ==
  [][/\ ExecutorTypeOK' /\ DirectoriesAreReleased' /\ WithdrawnIsNoTimeout
     /\ MigrationIsAllOrNothing /\ MigrationSparesOthers
     /\ VolumesSurvive]_executorVars
=============================================================================
