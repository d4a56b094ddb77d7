-------------------------- MODULE MCLiveComponents --------------------------
(***************************************************************************)
(* Small instances of components that share no state and that promise      *)
(* something eventually.  A behaviour is a behaviour of one of them; only  *)
(* the steps of that one are fair.                                         *)
(***************************************************************************)
EXTENDS JobContainer, Terminal, WorkerAccess, LocalStacks, TLC

CONSTANTS s1, s2   \* terminal sessions

\* The component this behaviour is about.
VARIABLE part

MCMaxChunks == (s1 :> 1) @@ (s2 :> 0)

parts == <<jobVars, terminalVars, accessVars, localVars>>
allVars == <<part, parts>>

\* The steps of component p leave the variables of the others alone.
Apart(p) ==
  /\ p # "container" => UNCHANGED jobVars
  /\ p # "terminal" => UNCHANGED terminalVars
  /\ p # "access" => UNCHANGED accessVars
  /\ p # "local" => UNCHANGED localVars

MCInit ==
  /\ part \in {"container", "terminal", "access", "local"}
  /\ JobContainerInit /\ TerminalInit /\ AccessInit /\ LocalInit

MCNext ==
  /\ UNCHANGED part
  /\ \/ part = "container" /\ JobContainerNext /\ Apart("container")
     \/ part = "terminal" /\ TerminalNext /\ Apart("terminal")
     \/ part = "access" /\ AccessNext /\ Apart("access")
     \/ part = "local" /\ LocalNext /\ Apart("local")

\* What the code keeps trying or waits for with a time-out: a container's exit
\* and its time-out, the open route's clean-up, the end of a connection, the
\* sync ticker.
MCFairness ==
  /\ WF_jobVars(part = "container" /\ StartContainer)
  /\ WF_jobVars(part = "container" /\ TimeIsUp)
  /\ WF_jobVars(part = "container" /\ ClientKilled)
  /\ WF_jobVars(part = "container" /\ StopContainer)
  /\ \A s \in Sessions :
       /\ WF_terminalVars(part = "terminal" /\ CreateRecord(s))
       /\ WF_terminalVars(part = "terminal" /\ SendOpen(s))
       /\ WF_terminalVars(part = "terminal" /\ GiveUp(s))
       /\ WF_terminalVars(part = "terminal" /\ CloseGivenUp(s))
  /\ \A v \in Visits : /\ WF_accessVars(part = "access" /\ Leave(v))
                       /\ WF_accessVars(part = "access" /\ Touch(v))
  /\ WF_localVars(part = "local" /\ ReconcileStack("cron"))
  /\ WF_localVars(part = "local" /\ SyncStep)
  /\ WF_localVars(part = "local" /\ Connect)

MCSpec == MCInit /\ [][MCNext]_allVars /\ MCFairness
=============================================================================
