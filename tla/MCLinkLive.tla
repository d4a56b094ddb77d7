----------------------------- MODULE MCLinkLive -----------------------------
(***************************************************************************)
(* What the server promises to those who wait: the callers of a command on *)
(* the link to a worker, and the clients of a stack's live log.  The two   *)
(* share no state, so that a behaviour is a behaviour of one of them, and  *)
(* only the steps of that one are fair.                                    *)
(***************************************************************************)
EXTENDS WorkerLink, LogStream

CONSTANT deploy

\* The component this behaviour is about.
VARIABLE part

MCDurable == {deploy}

\* A reconcile, then one that waits for jobs and is retried; two lines of one
\* command, which may overtake each other; and one line of each of two, so
\* that one buffer is evicted for the other.
MCWorkloads ==
  {[patient |-> {2}, retried |-> {2}, lines |-> {}],
   [patient |-> {}, retried |-> {}, lines |-> {<<2, 1>>, <<2, 2>>}],
   [patient |-> {}, retried |-> {}, lines |-> {<<1, 1>>, <<2, 1>>}]}

allVars == <<part, vars, logStreamVars>>

MCInit ==
  /\ part \in {"link", "stream"}
  /\ Init /\ LogStreamInit
  /\ part = "link" => workload = CHOOSE w \in Workloads : TRUE

MCNext ==
  /\ UNCHANGED part
  /\ \/ part = "link" /\ Next /\ UNCHANGED logStreamVars
     \/ part = "stream" /\ LogStreamNext /\ UNCHANGED vars

\* WorkerLink's Fairness for the link; the loop of the stream's handler and its
\* recovery ticker for the live log.
MCFairness ==
  /\ \A c \in Commands : /\ WF_vars(part = "link" /\ CallerStep(c))
                         /\ WF_vars(part = "link" /\ ExecFinish(c))
  /\ \A e \in Epochs : WF_vars(part = "link" /\ HandlerStep(e))
  /\ WF_vars(part = "link" /\ WorkerStep) /\ WF_vars(part = "link" /\ FlushTick)
  /\ WF_<<feedVars, inbox, waitVars>>(part = "stream" /\ Consume)
  /\ WF_feedVars(part = "stream" /\ EndDrain)
  /\ WF_<<feedVars, waitVars>>(part = "stream" /\ RecoverStatus)

MCSpec == MCInit /\ [][MCNext]_allVars /\ MCFairness
=============================================================================
