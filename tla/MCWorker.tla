------------------------------ MODULE MCWorker ------------------------------
(***************************************************************************)
(* One run for several situations of a worker.  The situation is chosen at *)
(* the start: which envelopes arrive, and whether the worker is shut down. *)
(* The two heavy semaphores belong to workers started with a capacity of   *)
(* two and of one.                                                         *)
(***************************************************************************)
EXTENDS WorkerHandlers, TLC

CONSTANTS deploy, redeploy, exec, job,          \* commands
          deploy1, deploy2, deploy3, redeploy1, \* their copies
          exec1, job1, job2,
          heavy, narrow, interactive            \* semaphores

MCKindOf == deploy :> "durable" @@ redeploy :> "durable" @@ exec :> "plain"
            @@ job :> "job"
MCSemOf == deploy :> heavy @@ redeploy :> narrow @@ exec :> interactive
           @@ job :> narrow
MCCommandOf == deploy1 :> deploy @@ deploy2 :> deploy @@ deploy3 :> deploy
               @@ redeploy1 :> redeploy @@ exec1 :> exec
               @@ job1 :> job @@ job2 :> job
MCLimit == heavy :> 2 @@ narrow :> 1 @@ interactive :> 1

\* Three copies of one command race at the gate; a shutdown meets two copies
\* of a command, a full queue, and a job beside an interactive command.
Situations ==
  { [copies |-> {deploy1, deploy2, deploy3}, shutdown |-> FALSE],
    [copies |-> {deploy1, deploy2},          shutdown |-> TRUE],
    [copies |-> {redeploy1, job1, job2},     shutdown |-> TRUE],
    [copies |-> {redeploy1, exec1},          shutdown |-> TRUE],
    [copies |-> {exec1, job1},               shutdown |-> TRUE] }

VARIABLE situation

MCInit == Init /\ situation \in Situations

MCNext ==
  /\ UNCHANGED situation
  /\ \/ \E d \in situation.copies : Receive(d) \/ Goroutine(d)
     \/ \E c \in Commands : HandleCancelCommand(c) \/ Expire(c)
     \/ situation.shutdown /\ StartDrain
     \/ DrainCount

MCSpec == MCInit /\ [][MCNext]_<<vars, situation>> /\ Fairness
=============================================================================
