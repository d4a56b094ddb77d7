--------------------------- MODULE WorkerHandlers ---------------------------
(***************************************************************************)
(* The worker's command handlers (worker/handlers/handlers.go): admission  *)
(* through the concurrency semaphores and the bounded wait queue, the      *)
(* duplicate gate in front of durable commands (deploy, redeploy,          *)
(* teardown), the run_job path, cancellation, and the drain a shutting     *)
(* down worker performs (worker/transport/transport.go).                   *)
(*                                                                         *)
(* A "copy" is one delivered envelope of a command: the server resends a   *)
(* command when the worker reconnects, so one command has several copies.  *)
(* Each copy is handled by the read loop and then by a goroutine of its    *)
(* own; every access to a sync.Map or to a channel is one step.            *)
(***************************************************************************)
EXTENDS Integers, FiniteSets

CONSTANTS
  Copies,         \* delivered envelopes
  Commands,       \* command IDs (a run_job command stands for its run too)
  CommandOf,      \* [Copies -> Commands]
  KindOf,         \* [Commands -> Kinds]
  Sems,           \* the heavy, light and interactive semaphores
  SemOf,          \* [Commands -> Sems]
  Limit,          \* capacity of each semaphore (InitSemaphores)
  MaxQueueDepth,  \* WORKER_MAX_QUEUE_DEPTH
  None            \* no entry

Kinds == {"durable", "plain", "job"}

\* InitSemaphores panics on a capacity below one; app.Run only accepts a
\* positive queue depth.
ASSUME ConstantsAssumption ==
  /\ IsFiniteSet(Copies)
  /\ CommandOf \in [Copies -> Commands]
  /\ KindOf \in [Commands -> Kinds]
  /\ SemOf \in [Commands -> Sems]
  /\ Limit \in [Sems -> Nat \ {0}]
  /\ MaxQueueDepth \in Nat \ {0}
  /\ {None, "queued", "rejected"} \cap Copies = {}

VARIABLES
  pc,              \* where the handling of each copy is
  held,            \* len(semaphore)
  queuedTasks,     \* metrics.QueuedTasks
  activeCommands,  \* ActiveCommands: the copy whose cancel func is stored
  activeJobs,      \* ActiveJobs
  completed,       \* completedDurableCommands
  claimed,         \* claimedDurableCommands
  cancelled,       \* copies whose context was cancelled
  sent,            \* answers persisted in the spool and sent
  phase,           \* of the shutdown
  inFlight         \* copies that were executing when the drain began

vars == <<pc, held, queuedTasks, activeCommands, activeJobs, completed,
          claimed, cancelled, sent, phase, inFlight>>

\* What only cancellation and the drain change.
control == <<cancelled, phase, inFlight>>

Steps == {"wire", "queued", "admitted", "begin", "cache", "evict", "claim",
          "store", "run", "put", "unclaim", "report", "send", "cleanup",
          "unjob", "release", "done"}

\* Between taking a semaphore slot and giving it back.
Holding == Steps \ {"wire", "queued", "done"}

\* The executor is running, or its answer has not been spooled yet.
Unanswered == {"run", "put", "unclaim", "report", "send"}

Replies == Copies \cup {"queued", "rejected"}

Cmd(d) == CommandOf[d]
Kind(d) == KindOf[CommandOf[d]]
Sem(d) == SemOf[CommandOf[d]]

TypeOK ==
  /\ pc \in [Copies -> Steps]
  /\ held \in [Sems -> Int]
  /\ queuedTasks \in Int
  /\ activeCommands \in [Commands -> Copies \cup {None}]
  /\ activeJobs \subseteq Commands
  /\ completed \in [Commands -> [age : {"fresh", "stale"}, by : Replies]
                                  \cup {None}]
  /\ claimed \subseteq Commands
  /\ cancelled \subseteq Copies
  /\ sent \subseteq [cmd : Commands, by : Replies]
  /\ phase \in {"serving", "draining", "counted", "drained", "overrun"}
  /\ inFlight \subseteq Copies

Init ==
  /\ pc = [d \in Copies |-> "wire"]
  /\ held = [s \in Sems |-> 0]
  /\ queuedTasks = 0
  /\ activeCommands = [c \in Commands |-> None]
  /\ activeJobs = {}
  /\ completed = [c \in Commands |-> None]
  /\ claimed = {}
  /\ cancelled = {}
  /\ sent = {}
  /\ phase = "serving"
  /\ inFlight = {}

(***************************************************************************)
(* Small pieces of steps                                                   *)
(***************************************************************************)
Goto(d, step) == pc' = [pc EXCEPT ![d] = step]

\* SendResult / ReportJobCompleted: persist in the spool, then send.
Reply(c, r) == sent' = sent \cup {[cmd |-> c, by |-> r]}

Fresh(c) == completed[c] # None /\ completed[c].age = "fresh"

\* acceptingWork is cleared when the drain begins and never set again.
IsAcceptingWork == phase = "serving"

\* Mutant: the queue admits one task too many.
IsQueueFull_OffByOne == queuedTasks > MaxQueueDepth

IsQueueFull == queuedTasks >= MaxQueueDepth

HasSlot(s) == held[s] < Limit[s]

\* TryScheduleThrottled returning true: a free slot is taken at once, else
\* the copy waits in the bounded queue.
Scheduled(d) ==
  \/ /\ HasSlot(Sem(d))
     /\ held' = [held EXCEPT ![Sem(d)] = @ + 1]
     /\ Goto(d, "begin")
     /\ UNCHANGED queuedTasks
  \/ /\ ~HasSlot(Sem(d)) /\ ~IsQueueFull
     /\ queuedTasks' = queuedTasks + 1
     /\ Goto(d, "queued")
     /\ UNCHANGED held

\* TryScheduleThrottled returning false.
Overloaded(d) == ~HasSlot(Sem(d)) /\ IsQueueFull

(***************************************************************************)
(* The read loop, one copy at a time                                       *)
(***************************************************************************)

\* DispatchThrottled and HandleRunJob while the worker is draining.
RejectDraining(d) ==
  /\ pc[d] = "wire" /\ ~IsAcceptingWork
  /\ Reply(Cmd(d), "rejected")
  /\ Goto(d, "done")
  /\ UNCHANGED <<held, queuedTasks, activeCommands, activeJobs, completed,
                 claimed, control>>

\* DispatchThrottled: schedule the handler or reject.
DispatchThrottled(d) ==
  /\ pc[d] = "wire" /\ IsAcceptingWork /\ Kind(d) # "job"
  /\ \/ Scheduled(d) /\ UNCHANGED sent
     \/ /\ Overloaded(d)
        /\ Reply(Cmd(d), "rejected")
        /\ Goto(d, "done")
        /\ UNCHANGED <<held, queuedTasks>>
  /\ UNCHANGED <<activeCommands, activeJobs, completed, claimed, control>>

\* HandleRunJob, whole handler: a cached acceptance or a running container
\* is re-acknowledged; otherwise the job is scheduled and its acceptance
\* cached (finishDurableCommand), or it is rejected.
HandleRunJob(d) ==
  LET c == Cmd(d) IN
  /\ pc[d] = "wire" /\ IsAcceptingWork /\ Kind(d) = "job"
  /\ \/ /\ Fresh(c) \/ c \in activeJobs
        /\ Reply(c, IF Fresh(c) THEN completed[c].by ELSE "queued")
        /\ completed' = [completed EXCEPT ![c] = IF Fresh(c) THEN @ ELSE None]
        /\ Goto(d, "done")
        /\ UNCHANGED <<held, queuedTasks, claimed>>
     \/ /\ ~Fresh(c) /\ c \notin activeJobs
        /\ Scheduled(d)
        /\ Reply(c, "queued")
        /\ completed' = [completed EXCEPT
                           ![c] = [age |-> "fresh", by |-> "queued"]]
        /\ claimed' = claimed \ {c}
     \/ /\ ~Fresh(c) /\ c \notin activeJobs
        /\ Overloaded(d)
        /\ Reply(c, "rejected")
        /\ completed' = [completed EXCEPT ![c] = None]
        /\ Goto(d, "done")
        /\ UNCHANGED <<held, queuedTasks, claimed>>
  /\ UNCHANGED <<activeCommands, activeJobs, control>>

(***************************************************************************)
(* The goroutine of a copy                                                 *)
(***************************************************************************)

\* Mutant: a copy in the queue gets no slot once the worker drains.
Acquire_StopsOnDrain(d) ==
  /\ pc[d] = "queued" /\ HasSlot(Sem(d)) /\ IsAcceptingWork
  /\ held' = [held EXCEPT ![Sem(d)] = @ + 1]
  /\ Goto(d, "admitted")
  /\ UNCHANGED <<queuedTasks, activeCommands, activeJobs, completed, claimed,
                 sent, control>>

\* RunThrottled: the blocking send on the semaphore channel.
Acquire(d) ==
  /\ pc[d] = "queued" /\ HasSlot(Sem(d))
  /\ held' = [held EXCEPT ![Sem(d)] = @ + 1]
  /\ Goto(d, "admitted")
  /\ UNCHANGED <<queuedTasks, activeCommands, activeJobs, completed, claimed,
                 sent, control>>

LeaveQueue(d) ==
  /\ pc[d] = "admitted"
  /\ queuedTasks' = queuedTasks - 1
  /\ Goto(d, "begin")
  /\ UNCHANGED <<held, activeCommands, activeJobs, completed, claimed,
                 sent, control>>

\* beginDurableCommand, first check: is the command running?
CheckActive(d) ==
  /\ pc[d] = "begin" /\ Kind(d) = "durable"
  /\ Goto(d, IF activeCommands[Cmd(d)] # None THEN "release" ELSE "cache")
  /\ UNCHANGED <<held, queuedTasks, activeCommands, activeJobs, completed,
                 claimed, sent, control>>

\* beginDurableCommand, second check: has it finished recently?
CheckCompleted(d) ==
  /\ pc[d] = "cache"
  /\ IF Fresh(Cmd(d))
     THEN /\ Reply(Cmd(d), completed[Cmd(d)].by)
          /\ Goto(d, "release")
     ELSE /\ Goto(d, IF completed[Cmd(d)] = None THEN "claim" ELSE "evict")
          /\ UNCHANGED sent
  /\ UNCHANGED <<held, queuedTasks, activeCommands, activeJobs, completed,
                 claimed, control>>

\* beginDurableCommand deleting an expired cache entry.
Evict(d) ==
  /\ pc[d] = "evict"
  /\ completed' = [completed EXCEPT ![Cmd(d)] = None]
  /\ Goto(d, "claim")
  /\ UNCHANGED <<held, queuedTasks, activeCommands, activeJobs, claimed,
                 sent, control>>

\* Mutant: the claim is stored without looking at what was there.
Claim_Unchecked(d) ==
  /\ pc[d] = "claim"
  /\ claimed' = claimed \cup {Cmd(d)}
  /\ Goto(d, "store")
  /\ UNCHANGED <<held, queuedTasks, activeCommands, activeJobs, completed,
                 sent, control>>

\* beginDurableCommand: claimedDurableCommands.LoadOrStore.
Claim(d) ==
  /\ pc[d] = "claim"
  /\ claimed' = claimed \cup {Cmd(d)}
  /\ Goto(d, IF Cmd(d) \in claimed THEN "release" ELSE "store")
  /\ UNCHANGED <<held, queuedTasks, activeCommands, activeJobs, completed,
                 sent, control>>

\* HandleRunJob's goroutine: ActiveJobs.Store.
StoreJob(d) ==
  /\ pc[d] = "begin" /\ Kind(d) = "job"
  /\ activeJobs' = activeJobs \cup {Cmd(d)}
  /\ Goto(d, "store")
  /\ UNCHANGED <<held, queuedTasks, activeCommands, completed, claimed,
                 sent, control>>

\* Mutant: the result entry is cached before the execution.
StoreActive_CachesEarly(d) ==
  /\ pc[d] = "store" \/ (pc[d] = "begin" /\ Kind(d) = "plain")
  /\ activeCommands' = [activeCommands EXCEPT ![Cmd(d)] = d]
  /\ completed' = [completed EXCEPT ![Cmd(d)] = [age |-> "fresh", by |-> d]]
  /\ Goto(d, "run")
  /\ UNCHANGED <<held, queuedTasks, activeJobs, claimed, sent, control>>

\* Every handler: ActiveCommands.Store(commandID, cancel), then execute.
StoreActive(d) ==
  /\ pc[d] = "store" \/ (pc[d] = "begin" /\ Kind(d) = "plain")
  /\ activeCommands' = [activeCommands EXCEPT ![Cmd(d)] = d]
  /\ Goto(d, "run")
  /\ UNCHANGED <<held, queuedTasks, activeJobs, completed, claimed, sent, control>>

\* Mutant: the command is unregistered when the executor returns, before
\* its answer is spooled.
Execute_UnregistersEarly(d) ==
  /\ pc[d] = "run"
  /\ Goto(d, CASE Kind(d) = "durable" -> "put"
               [] Kind(d) = "job"     -> "report"
               [] OTHER               -> "send")
  /\ activeCommands' = [activeCommands EXCEPT ![Cmd(d)] = None]
  /\ UNCHANGED <<held, queuedTasks, activeJobs, completed, claimed, sent,
                 control>>

\* The executor returns: finished, failed or stopped by its context.
Execute(d) ==
  /\ pc[d] = "run"
  /\ Goto(d, CASE Kind(d) = "durable" -> "put"
               [] Kind(d) = "job"     -> "report"
               [] OTHER               -> "send")
  /\ UNCHANGED <<held, queuedTasks, activeCommands, activeJobs, completed,
                 claimed, sent, control>>

\* finishDurableCommand: cache the result ...
CacheResult(d) ==
  /\ pc[d] = "put"
  /\ completed' = [completed EXCEPT ![Cmd(d)] = [age |-> "fresh", by |-> d]]
  /\ Goto(d, "unclaim")
  /\ UNCHANGED <<held, queuedTasks, activeCommands, activeJobs, claimed,
                 sent, control>>

\* ... release the claim, and sweep expired entries if no one else is.
Unclaim(d) ==
  /\ pc[d] = "unclaim"
  /\ claimed' = claimed \ {Cmd(d)}
  /\ \/ UNCHANGED completed
     \/ completed' = [c \in Commands |-> IF Fresh(c) THEN completed[c]
                                                     ELSE None]
  /\ Goto(d, "send")
  /\ UNCHANGED <<held, queuedTasks, activeCommands, activeJobs, sent, control>>

\* ReportJobCompleted: ActiveJobs.Delete comes before the spool write.
ReportJob(d) ==
  /\ pc[d] = "report"
  /\ activeJobs' = activeJobs \ {Cmd(d)}
  /\ Goto(d, "send")
  /\ UNCHANGED <<held, queuedTasks, activeCommands, completed, claimed,
                 sent, control>>

\* Mutant: a command the server cancelled, and not the shutdown, returns
\* without sending its result.
SendAnswer_SkipsCancelled(d) ==
  /\ pc[d] = "send"
  /\ IF d \in cancelled /\ IsAcceptingWork THEN UNCHANGED sent ELSE Reply(Cmd(d), d)
  /\ Goto(d, "cleanup")
  /\ UNCHANGED <<held, queuedTasks, activeCommands, activeJobs, completed,
                 claimed, control>>

SendAnswer(d) ==
  /\ pc[d] = "send"
  /\ Reply(Cmd(d), d)
  /\ Goto(d, "cleanup")
  /\ UNCHANGED <<held, queuedTasks, activeCommands, activeJobs, completed,
                 claimed, control>>

\* The deferred ActiveCommands.Delete(commandID), whoever stored the entry.
Cleanup(d) ==
  /\ pc[d] = "cleanup"
  /\ activeCommands' = [activeCommands EXCEPT ![Cmd(d)] = None]
  /\ Goto(d, IF Kind(d) = "job" THEN "unjob" ELSE "release")
  /\ UNCHANGED <<held, queuedTasks, activeJobs, completed, claimed, sent, control>>

\* HandleRunJob's deferred ActiveJobs.Delete.
CleanupJob(d) ==
  /\ pc[d] = "unjob"
  /\ activeJobs' = activeJobs \ {Cmd(d)}
  /\ Goto(d, "release")
  /\ UNCHANGED <<held, queuedTasks, activeCommands, completed, claimed,
                 sent, control>>

\* The deferred receive from the semaphore channel.
Release(d) ==
  /\ pc[d] = "release"
  /\ held' = [held EXCEPT ![Sem(d)] = @ - 1]
  /\ Goto(d, "done")
  /\ UNCHANGED <<queuedTasks, activeCommands, activeJobs, completed, claimed,
                 sent, control>>

(***************************************************************************)
(* Cancellation, cache expiry and shutdown                                 *)
(***************************************************************************)

\* Mutant: the cancel func is called without checking that one was found.
HandleCancelCommand_Unchecked(c) ==
  /\ \E d \in Copies : Cmd(d) = c /\ pc[d] # "wire"
  /\ cancelled' = cancelled \cup {activeCommands[c]}
  /\ UNCHANGED <<pc, held, queuedTasks, activeCommands, activeJobs, completed,
                 claimed, sent, phase, inFlight>>

\* HandleCancelCommand, in a goroutine of its own: a command that has not
\* stored its cancel func is left alone.  The server cancels only commands
\* it has sent.
HandleCancelCommand(c) ==
  /\ \E d \in Copies : Cmd(d) = c /\ pc[d] # "wire"
  /\ cancelled' = cancelled \cup ({activeCommands[c]} \ {None})
  /\ UNCHANGED <<pc, held, queuedTasks, activeCommands, activeJobs, completed,
                 claimed, sent, phase, inFlight>>

\* completedDurableRetention (30 minutes) passes for an entry.
Expire(c) ==
  /\ Fresh(c)
  /\ completed' = [completed EXCEPT ![c].age = "stale"]
  /\ UNCHANGED <<pc, held, queuedTasks, activeCommands, activeJobs, claimed,
                 sent, control>>

\* RunSession on shutdown: SetAcceptingWork(false), then drainAndFlush.
StartDrain ==
  /\ phase = "serving"
  /\ phase' = "draining"
  /\ inFlight' = {d \in Copies : pc[d] \in Unanswered}
  /\ UNCHANGED <<pc, held, queuedTasks, activeCommands, activeJobs, completed,
                 claimed, cancelled, sent>>

\* drainAndFlush counts the active commands, then the active jobs.  Only
\* when both counts are zero has it drained; else it looks again, until the
\* shutdown deadline.
DrainCount ==
  /\ \/ /\ phase = "draining"
        /\ IF \A c \in Commands : activeCommands[c] = None
           THEN phase' = "counted" ELSE phase' = "overrun"
     \/ /\ phase = "counted"
        /\ IF activeJobs = {} THEN phase' = "drained"
           ELSE phase' \in {"draining", "overrun"}
  /\ UNCHANGED <<pc, held, queuedTasks, activeCommands, activeJobs, completed,
                 claimed, cancelled, sent, inFlight>>

Receive(d) == RejectDraining(d) \/ DispatchThrottled(d) \/ HandleRunJob(d)

Goroutine(d) ==
  \/ Acquire(d) \/ LeaveQueue(d) \/ CheckActive(d) \/ CheckCompleted(d)
  \/ Evict(d) \/ Claim(d) \/ StoreJob(d) \/ StoreActive(d) \/ Execute(d)
  \/ CacheResult(d) \/ Unclaim(d) \/ ReportJob(d) \/ SendAnswer(d)
  \/ Cleanup(d) \/ CleanupJob(d) \/ Release(d)

Next ==
  \/ \E d \in Copies : Receive(d) \/ Goroutine(d)
  \/ \E c \in Commands : HandleCancelCommand(c) \/ Expire(c)
  \/ StartDrain \/ DrainCount

Spec == Init /\ [][Next]_vars

\* Go schedules every runnable goroutine; a copy waiting for a slot competes
\* with finitely many others, and the executor returns because every
\* docker command it runs has a deadline.
Fairness == \A d \in Copies : WF_vars(Goroutine(d))

FairSpec == Spec /\ Fairness

(***************************************************************************)
(* Properties                                                              *)
(***************************************************************************)

\* From the claim to the end of finishDurableCommand.
Executing(d) ==
  Kind(d) = "durable" /\ pc[d] \in {"store", "run", "put", "unclaim"}

\* Two redelivered copies of a durable command never execute at the same
\* time, however the goroutines of beginDurableCommand interleave.
AtMostOneExecutor ==
  \A d, e \in Copies :
    Executing(d) /\ Executing(e) /\ Cmd(d) = Cmd(e) => d = e

HoldersOf(s) == {d \in Copies : pc[d] \in Holding /\ Sem(d) = s}
Waiting == {d \in Copies : pc[d] \in {"queued", "admitted"}}

\* A semaphore counts exactly the copies between acquire and release and
\* never exceeds its limit; QueuedTasks counts exactly the copies that were
\* queued and never exceeds the queue depth.  No early return of a handler
\* leaks a slot.
ThrottleAccounting ==
  /\ \A s \in Sems : held[s] = Cardinality(HoldersOf(s)) /\ held[s] <= Limit[s]
  /\ queuedTasks = Cardinality(Waiting) /\ queuedTasks <= MaxQueueDepth

\* Any result sent for a command, also one replayed from the cache for a
\* redelivered copy, was produced by an execution of that same command that
\* had finished.
AnswerFromFinishedRun ==
  \A r \in sent :
    r.by \in Copies =>
      /\ Cmd(r.by) = r.cmd
      /\ pc[r.by] \in {"unclaim", "send", "cleanup", "unjob", "release", "done"}

SoleCopy(d) == \A e \in Copies : Cmd(e) = Cmd(d) /\ e # d => pc[e] = "wire"

\* drainAndFlush does not stop waiting, short of its deadline, before every
\* command that was executing when the shutdown began has its answer in the
\* spool (for a command delivered once: a second copy's deferred
\* ActiveCommands.Delete also removes the first one's entry).
DrainWaitsForRunning ==
  phase = "drained" =>
    \A d \in inFlight : SoleCopy(d) => [cmd |-> Cmd(d), by |-> d] \in sent

\* Every copy a semaphore or the queue has accepted gives its slot back: no
\* interleaving of duplicates leaves a goroutine stuck.
AcceptedFinishes ==
  \A d \in Copies : pc[d] \notin {"wire", "done"} ~> pc[d] = "done"

\* A durable command of which a copy was accepted is answered, also when
\* that copy is dropped as a duplicate of one in flight.
AcceptedIsAnswered ==
  \A d \in Copies :
    (Kind(d) = "durable" /\ pc[d] \notin {"wire", "done"})
      ~> (\E r \in sent : r.cmd = Cmd(d) /\ r.by \in Copies)

\* What Acquire and the queue accepted is seen through: its goroutine ends and
\* its command is answered.
AcceptedIsServed == AcceptedFinishes /\ AcceptedIsAnswered

\* handlers.go:70-74: "a redelivered command never re-executes a destructive
\* operation twice": no copy starts while the cached result of an earlier
\* execution is still valid.
NeverReexecutes ==
  [][\A d \in Copies :
       (Kind(d) = "durable" /\ pc[d] = "store" /\ pc'[d] = "run")
         => ~Fresh(Cmd(d))]_vars
=============================================================================
