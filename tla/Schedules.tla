----------------------------- MODULE Schedules -----------------------------
(***************************************************************************)
(* How the tickers of a stack and the cron entries of a scheduled job      *)
(* follow their rows: the after-save hooks of internal/hooks, the stack    *)
(* scheduler of internal/sync and RegisterJob of internal/jobscheduler.    *)
(*                                                                         *)
(* A row is saved by API requests and by the server itself: every status a *)
(* reconcile or a job run writes is a save too, and a repository's save    *)
(* registers the jobs of that repository again.  The hook of a save runs   *)
(* after its commit, in the goroutine of the saver, so the hooks of two    *)
(* saves may run in either order, or at the same time.                     *)
(***************************************************************************)
EXTENDS Integers, FiniteSets

CONSTANTS
  Savers,        \* goroutines that save the rows
  NoEntry,       \* nothing in a scheduler's map
  MaxEntries,    \* bound on the tickers and entries ever started
  MaxRestarts    \* bound on restarts of the server

ASSUME SchedulesAssumption ==
  /\ MaxEntries \in Nat /\ MaxEntries >= 2 /\ NoEntry \notin 1..MaxEntries
  /\ MaxRestarts \in Nat

VARIABLES
  stackRow,      \* [life, paused]
  tickers,       \* goroutines of the stack scheduler that still tick
  tickerMap,     \* Scheduler.jobs[stack]: the one it can cancel
  jobRow,        \* [life, enabled]
  jobFile,       \* job.yaml in the working tree can be parsed
  cronEntries,   \* entries in the cron library
  entryMap,      \* Scheduler.entries[job]
  saver,         \* what each saver is doing, with the record it saved
  fresh,         \* number of the next ticker or entry
  stackRaced,    \* the hooks of two saves of the stack were under way together
  jobRaced,      \* and of the job
  restarts

scheduleVars == <<stackRow, tickers, tickerMap, jobRow, jobFile, cronEntries,
                  entryMap, saver, fresh, stackRaced, jobRaced, restarts>>

EntryIds == 1..MaxEntries
AtRest == [at |-> "rest", on |-> FALSE, entry |-> NoEntry]
Lives == {"new", "kept", "deleted"}
StackHooks == {"registerStack", "unregisterStack"}
JobHooks == {"findJob", "removeEntry", "addEntry", "storeEntry", "unregisterJob"}

SchedulesTypeOK ==
  /\ stackRow \in [life : Lives, paused : BOOLEAN]
  /\ jobRow \in [life : Lives, enabled : BOOLEAN] /\ jobFile \in BOOLEAN
  /\ tickers \subseteq EntryIds /\ tickerMap \in EntryIds \cup {NoEntry}
  /\ cronEntries \subseteq EntryIds /\ entryMap \in EntryIds \cup {NoEntry}
  /\ saver \in [Savers -> [at : {"rest"} \cup StackHooks \cup JobHooks,
                           on : BOOLEAN, entry : EntryIds \cup {NoEntry}]]
  /\ fresh \in 1..(MaxEntries + 1)
  /\ stackRaced \in BOOLEAN /\ jobRaced \in BOOLEAN
  /\ restarts \in 0..MaxRestarts

\* Nothing is created yet.
SchedulesInit ==
  /\ stackRow = [life |-> "new", paused |-> FALSE]
  /\ jobRow = [life |-> "new", enabled |-> FALSE] /\ jobFile = FALSE
  /\ tickers = {} /\ tickerMap = NoEntry /\ cronEntries = {} /\ entryMap = NoEntry
  /\ saver = [p \in Savers |-> AtRest] /\ fresh = 1
  /\ stackRaced = FALSE /\ jobRaced = FALSE /\ restarts = 0

StackSide == <<stackRow, tickers, tickerMap, stackRaced>>
JobSide == <<jobRow, cronEntries, entryMap, jobRaced>>

RunsHook(p, at, on) == saver' = [saver EXCEPT ![p].at = at, ![p].on = on]
Rests(p) == saver' = [saver EXCEPT ![p] = AtRest]
Others(p, hooks) == {q \in Savers \ {p} : saver[q].at \in hooks}

-----------------------------------------------------------------------------
\* A save or deletion of the stack commits; its hook is still to run.  A save
\* that has the stack to itself sets the scheduler right again.
SaveStack(p, row, hook) ==
  /\ saver[p].at = "rest"
  /\ stackRow' = row
  /\ RunsHook(p, hook, ~row.paused)
  /\ stackRaced' = (Others(p, StackHooks) # {})
  /\ UNCHANGED <<tickers, tickerMap, JobSide, jobFile, fresh, restarts>>

CreateStack(p) ==
  /\ stackRow.life = "new"
  /\ \E paused \in BOOLEAN :
       SaveStack(p, [life |-> "kept", paused |-> paused], "registerStack")

UpdateStack(p) ==
  /\ stackRow.life = "kept"
  /\ \E paused \in BOOLEAN :
       SaveStack(p, [stackRow EXCEPT !.paused = paused], "registerStack")

DeleteStack(p) ==
  /\ stackRow.life = "kept"
  /\ SaveStack(p, [life |-> "deleted", paused |-> FALSE], "unregisterStack")

\* Mutant: the ticker in the map keeps running.
Cancel_None(ts) == ts

\* RegisterStack cancels the ticker in the map and starts one unless the record
\* of THIS save is paused.  Both happen under the scheduler's mutex.
Cancel(ts) == ts \ {tickerMap}

RegisterStack(p) ==
  /\ saver[p].at = "registerStack"
  /\ IF saver[p].on
     THEN /\ fresh <= MaxEntries
          /\ tickers' = Cancel(tickers) \cup {fresh} /\ tickerMap' = fresh
          /\ fresh' = fresh + 1
     ELSE tickers' = Cancel(tickers) /\ tickerMap' = NoEntry /\ UNCHANGED fresh
  /\ Rests(p)
  /\ UNCHANGED <<stackRow, stackRaced, JobSide, jobFile, restarts>>

\* Mutant: a deleted stack keeps its ticker.
UnregisterStack_Keeps(p) ==
  /\ saver[p].at = "unregisterStack"
  /\ Rests(p)
  /\ UNCHANGED <<StackSide, fresh, JobSide, jobFile, restarts>>

UnregisterStack(p) ==
  /\ saver[p].at = "unregisterStack"
  /\ tickers' = Cancel(tickers) /\ tickerMap' = NoEntry
  /\ Rests(p)
  /\ UNCHANGED <<stackRow, stackRaced, fresh, JobSide, jobFile, restarts>>

-----------------------------------------------------------------------------
\* A save or deletion of the job commits.  An entry that two registrations left
\* behind stays until the server restarts.
SaveJob(p, row, hook) ==
  /\ saver[p].at = "rest"
  /\ jobRow' = row
  /\ RunsHook(p, hook, FALSE)
  /\ jobRaced' = (jobRaced \/ Others(p, JobHooks) # {})
  /\ UNCHANGED <<StackSide, cronEntries, entryMap, jobFile, fresh, restarts>>

CreateJob(p) ==
  /\ jobRow.life = "new"
  /\ \E enabled \in BOOLEAN :
       SaveJob(p, [life |-> "kept", enabled |-> enabled], "findJob")

UpdateJob(p) ==
  /\ jobRow.life = "kept"
  /\ \E enabled \in BOOLEAN :
       SaveJob(p, [jobRow EXCEPT !.enabled = enabled], "findJob")

DeleteJob(p) ==
  /\ jobRow.life = "kept"
  /\ SaveJob(p, [life |-> "deleted", enabled |-> FALSE], "unregisterJob")

\* A fetch brings another job.yaml; the save of the repository that follows
\* registers its jobs.
SyncJobsForRepo(p) ==
  IF jobRow.life = "kept"
  THEN RunsHook(p, "findJob", FALSE) /\ jobRaced' = (jobRaced \/ Others(p, JobHooks) # {})
  ELSE UNCHANGED <<saver, jobRaced>>

FetchAndSaveRepository(p) ==
  /\ saver[p].at = "rest"
  /\ jobFile' \in BOOLEAN
  /\ SyncJobsForRepo(p)
  /\ UNCHANGED <<StackSide, jobRow, cronEntries, entryMap, fresh, restarts>>

\* RegisterJob reads the row,
FindJob(p) ==
  /\ saver[p].at = "findJob"
  /\ IF jobRow.life = "kept" THEN RunsHook(p, "removeEntry", jobRow.enabled) ELSE Rests(p)
  /\ UNCHANGED <<StackSide, JobSide, jobFile, fresh, restarts>>

\* Mutant: the entry is removed only if the job is off.
RemoveEntry_Late(p) ==
  /\ saver[p].at = "removeEntry"
  /\ IF saver[p].on THEN RunsHook(p, "addEntry", FALSE) /\ UNCHANGED <<cronEntries, entryMap>>
     ELSE /\ cronEntries' = cronEntries \ {entryMap} /\ entryMap' = NoEntry
          /\ Rests(p)
  /\ UNCHANGED <<StackSide, jobRow, jobRaced, jobFile, fresh, restarts>>

\* removes the entry in the map under the mutex, and is done if the job is off,
RemoveEntry(p) ==
  /\ saver[p].at = "removeEntry"
  /\ cronEntries' = cronEntries \ {entryMap} /\ entryMap' = NoEntry
  /\ IF saver[p].on THEN RunsHook(p, "addEntry", FALSE) ELSE Rests(p)
  /\ UNCHANGED <<StackSide, jobRow, jobRaced, jobFile, fresh, restarts>>

\* parses job.yaml and adds an entry to the cron library,
AddEntry(p) ==
  /\ saver[p].at = "addEntry"
  /\ IF jobFile
     THEN /\ fresh <= MaxEntries /\ cronEntries' = cronEntries \cup {fresh}
          /\ fresh' = fresh + 1
          /\ saver' = [saver EXCEPT ![p].at = "storeEntry", ![p].entry = fresh]
     ELSE Rests(p) /\ UNCHANGED <<cronEntries, fresh>>
  /\ UNCHANGED <<StackSide, jobRow, entryMap, jobRaced, jobFile, restarts>>

\* and writes it to the map, under the mutex again.
StoreEntry(p) ==
  /\ saver[p].at = "storeEntry"
  /\ entryMap' = saver[p].entry
  /\ Rests(p)
  /\ UNCHANGED <<StackSide, jobRow, cronEntries, jobRaced, jobFile, fresh, restarts>>

UnregisterJob(p) ==
  /\ saver[p].at = "unregisterJob"
  /\ cronEntries' = cronEntries \ {entryMap} /\ entryMap' = NoEntry
  /\ Rests(p)
  /\ UNCHANGED <<StackSide, jobRow, jobRaced, jobFile, fresh, restarts>>

-----------------------------------------------------------------------------
\* A restart: Start of both schedulers reads the rows.
Start == IF stackRow.life = "kept" /\ ~stackRow.paused THEN {1} ELSE {}
StartJobs == IF jobRow.life = "kept" /\ jobRow.enabled /\ jobFile THEN {2} ELSE {}
TheOne(ids) == IF ids = {} THEN NoEntry ELSE CHOOSE i \in ids : TRUE

RestartSchedulers ==
  /\ restarts < MaxRestarts /\ restarts' = restarts + 1
  /\ tickers' = Start /\ tickerMap' = TheOne(tickers')
  /\ cronEntries' = StartJobs /\ entryMap' = TheOne(cronEntries')
  /\ fresh' = 3 /\ saver' = [p \in Savers |-> AtRest]
  /\ stackRaced' = FALSE /\ jobRaced' = FALSE
  /\ UNCHANGED <<stackRow, jobRow, jobFile>>

HookStep(p) ==
  \/ RegisterStack(p) \/ UnregisterStack(p)
  \/ FindJob(p) \/ RemoveEntry(p) \/ AddEntry(p) \/ StoreEntry(p) \/ UnregisterJob(p)

SchedulesNext ==
  \/ RestartSchedulers
  \/ \E p \in Savers :
       \/ CreateStack(p) \/ UpdateStack(p) \/ DeleteStack(p)
       \/ CreateJob(p) \/ UpdateJob(p) \/ DeleteJob(p)
       \/ FetchAndSaveRepository(p)
       \/ HookStep(p)

SchedulesSpec == SchedulesInit /\ [][SchedulesNext]_scheduleVars

-----------------------------------------------------------------------------
(* Every ticker that runs is the one the stack scheduler can cancel          *)
(* (RegisterStack, UnregisterStack): however the hooks of saves and deletes  *)
(* interleave, a stack is never reconciled by two tickers.                   *)
TickersAreCancellable == tickers = {tickerMap} \ {NoEntry}

(* With no hook under way, a stack is on the scheduler exactly when its row   *)
(* exists and is not paused, unless the last save overlapped another one:     *)
(* hooks carry the record of their own save, so the later save's hook may run *)
(* first and the earlier one's decide.                                        *)
TickerFollowsRow ==
  (\A p \in Savers : saver[p].at \notin StackHooks) /\ ~stackRaced =>
    (tickers # {} <=> stackRow.life = "kept" /\ ~stackRow.paused)

(* With no registration under way and none that overlapped another since the  *)
(* start of the server, a job has a cron entry exactly when it exists, is on  *)
(* and its file can be parsed; it has one, and the map knows it (RegisterJob, *)
(* UnregisterJob, SyncJobsForRepo).                                           *)
EntryFollowsJob ==
  (\A p \in Savers : saver[p].at \notin JobHooks) /\ ~jobRaced =>
    /\ cronEntries = {entryMap} \ {NoEntry}
    /\ cronEntries # {} <=> jobRow.life = "kept" /\ jobRow.enabled /\ jobFile

(* Tickers and cron entries follow their rows (RegisterStack, RegisterJob and *)
(* the hooks that call them), and none is out of reach of its scheduler.      *)
SchedulesSafety ==
  SchedulesTypeOK /\ TickersAreCancellable /\ TickerFollowsRow /\ EntryFollowsJob
============================================================================
