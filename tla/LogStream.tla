------------------------------ MODULE LogStream ------------------------------
(***************************************************************************)
(* The live log of one stack, from the deploy that writes it to the client *)
(* that waits for it: the sync_logs rows the reconciler saves, the broker  *)
(* that fans out saves and output lines (internal/logstream), the stream   *)
(* route with its handoff state (internal/routes/routes_register.go) and   *)
(* the MCP tools' wait for a deploy (mcp/tools/wait.go).                   *)
(*                                                                         *)
(* Rows are numbered in the order of their creation and row r's command    *)
(* is also called r.  Text is a sequence of tokens, one per line.          *)
(***************************************************************************)
EXTENDS Integers, Sequences

CONSTANTS
  MaxLogs,     \* bound: reconciles of the stack
  MaxLines,    \* bound: lines a worker streams per command
  LiveMax,     \* liveCommandMaxBytes, in lines
  FeedBuffer,  \* capacity of a subscriber's channel (16 in the code)
  Workloads    \* the behaviours considered: which reconciles find running jobs to
               \* wait for (patient), which fail their first attempt (retried),
               \* and which lines <<reconcile, number>> are streamed (lines)

ASSUME LogStreamAssumption ==
  /\ {MaxLogs, MaxLines, LiveMax, FeedBuffer} \subseteq Nat \ {0}
  /\ \A w \in Workloads : /\ w.patient \cup w.retried \subseteq 1 .. MaxLogs
                          /\ w.lines \subseteq (1 .. MaxLogs) \X (1 .. MaxLines)

\* A text that another one begins with.
IsPrefix(s, t) == Len(s) <= Len(t) /\ SubSeq(t, 1, Len(s)) = s

LogRows == 1 .. MaxLogs
LineNos == 1 .. MaxLines
Records == {"row", "live"} \X LogRows
\* Mutant: a paused deploy counts as over.
TerminalStatuses_WithWaiting == {"finished", "waiting_jobs"}

\* terminalSyncStatuses: success, error, noop and degraded are treated alike.
TerminalStatuses == {"finished"}
LogStatuses == {"none", "running", "waiting_jobs"} \cup TerminalStatuses
NoEvent == [record |-> <<"row", 0>>, output |-> <<>>, status |-> "none"]
NoFrame == [row |-> 0, status |-> "none"]

VARIABLES
  workload,    \* the one this behaviour has
  logs,        \* the sync_logs rows: status and output
  rewritten,   \* rows whose output was replaced by one that does not extend it
  saved,       \* the reconciler's save whose hook has not published yet
  buffers,        \* per command: the broker's buffer and its highest Seq
  swept,       \* commands whose buffer sweepLiveLocked has evicted
  line,        \* per command and line: progress of its goroutine
  carried,     \* per command and line: the output it is about to publish
  feed,        \* progress of the stream handler
  inbox,       \* its subscription's channel
  lastLen,     \* streamHandoffState.lastLen
  lastStatus,  \* streamHandoffState.lastStatus
  shown,       \* what the client has of each record
  waiter,      \* progress of awaitReconcile
  prior,       \* priorLogID
  frame,       \* the last status frame the waiter read
  outcome      \* what awaitReconcile returned: the row, its status, Completed

writerVars == <<logs, rewritten, saved>>
liveVars == <<buffers, swept, line, carried>>
feedVars == <<feed, lastLen, lastStatus, shown>>
waitVars == <<waiter, prior, frame, outcome>>
logStreamVars == <<workload, writerVars, liveVars, feedVars, inbox, waitVars>>

LogStreamTypeOK ==
  /\ workload \in Workloads
  /\ \A r \in LogRows : logs[r].status \in LogStatuses
  /\ rewritten \subseteq LogRows /\ swept \subseteq LogRows
  /\ \A r \in LogRows : buffers[r].last \in 0 .. MaxLines /\ Len(buffers[r].output) <= LiveMax
  /\ line \in [LogRows -> [LineNos -> {"unsent", "started", "appended", "done"}]]
  /\ feed \in {"off", "subscribed", "draining", "following", "gone"}
  /\ Len(inbox) <= FeedBuffer
  /\ lastLen \in [Records -> Nat]
  /\ lastStatus \in [Records -> LogStatuses]
  /\ waiter \in {"opening", "waiting", "done"}
  /\ prior \in 0 .. MaxLogs
  /\ frame.row \in 0 .. MaxLogs /\ outcome.row \in 0 .. MaxLogs

LogStreamInit ==
  /\ workload \in Workloads
  /\ logs = [r \in LogRows |-> [status |-> "none", output |-> <<>>]]
  /\ rewritten = {} /\ saved = NoEvent
  /\ buffers = [r \in LogRows |-> [output |-> <<>>, last |-> 0]] /\ swept = {}
  /\ line = [r \in LogRows |-> [n \in LineNos |-> "unsent"]]
  /\ carried = [r \in LogRows |-> [n \in LineNos |-> <<>>]]
  /\ feed = "off" /\ inbox = <<>>
  /\ lastLen = [k \in Records |-> 0]
  /\ lastStatus = [k \in Records |-> "none"]
  /\ shown = [k \in Records |-> <<>>]
  /\ waiter = "opening" /\ prior = 0 /\ frame = NoFrame
  /\ outcome = [row |-> 0, status |-> "none", completed |-> FALSE]

(***************************************************************************)
(* The broker                                                              *)
(***************************************************************************)

Subscribed == feed \in {"subscribed", "draining", "following"}

\* Publish: a subscriber whose buffer is full misses the event.
PublishLog(ev) ==
  inbox' = IF Subscribed /\ Len(inbox) < FeedBuffer THEN Append(inbox, ev) ELSE inbox

\* A line arrives; the server handles each one in a goroutine of its own.
SendLine(r, n) ==
  /\ <<r, n>> \in workload.lines
  /\ logs[r].status = "running" /\ line[r][n] = "unsent"
  /\ n > 1 => line[r][n - 1] # "unsent"
  /\ line' = [line EXCEPT ![r][n] = "started"]
  /\ UNCHANGED <<buffers, swept, carried, writerVars, feedVars, inbox, waitVars>>

\* PublishLine under liveMu: append what is newer than all before it, and evict
\* the buffers (stale) of commands that printed nothing for the retention.
AppendLine(r, n, stale) ==
  LET fresh == n > buffers[r].last
      text  == IF fresh /\ Len(buffers[r].output) < LiveMax
               THEN Append(buffers[r].output, n) ELSE buffers[r].output
  IN
  /\ line[r][n] = "started" /\ r \notin stale
  /\ buffers' = [c \in LogRows |->
       CASE c = r -> [output |-> text, last |-> IF fresh THEN n ELSE buffers[r].last]
         [] c \in stale -> [output |-> <<>>, last |-> 0]
         [] OTHER -> buffers[c]]
  /\ swept' = swept \cup {c \in stale : buffers[c].last > 0}
  /\ carried' = [carried EXCEPT ![r][n] = text]
  /\ line' = [line EXCEPT ![r][n] = "appended"]
  /\ UNCHANGED <<writerVars, feedVars, inbox, waitVars>>

\* ... and the Publish that follows, without liveMu.
PublishLine(r, n) ==
  /\ line[r][n] = "appended"
  /\ PublishLog([record |-> <<"live", r>>, output |-> carried[r][n], status |-> "running"])
  /\ line' = [line EXCEPT ![r][n] = "done"]
  /\ carried' = [carried EXCEPT ![r][n] = <<>>]
  /\ UNCHANGED <<buffers, swept, writerVars, feedVars, waitVars>>

(***************************************************************************)
(* The reconciler's rows; the hook publishes after each save               *)
(***************************************************************************)

\* updateSyncLog
SaveLog(r, status, output) ==
  /\ saved = NoEvent
  /\ logs' = [logs EXCEPT ![r] = [status |-> status, output |-> output]]
  /\ rewritten' = IF IsPrefix(logs[r].output, output) THEN rewritten ELSE rewritten \cup {r}
  /\ saved' = [record |-> <<"row", r>>, output |-> output, status |-> status]
  /\ UNCHANGED <<liveVars, feedVars, inbox, waitVars>>

\* createSyncLog; the stack's lock keeps reconciles apart.
CreateLog(r) ==
  /\ logs[r].status = "none"
  /\ \A q \in 1 .. r - 1 : logs[q].status \in TerminalStatuses
  /\ SaveLog(r, "running", <<>>)

\* waitForRunningJobs finds active jobs, and proceeds when they are over.
WaitForJobs(r) ==
  /\ r \in workload.patient /\ logs[r].status = "running" /\ logs[r].output = <<>>
  /\ line[r][1] = "unsent"
  /\ SaveLog(r, "waiting_jobs", <<"paused">>)

ProceedAfterJobs(r) ==
  /\ logs[r].status = "waiting_jobs"
  /\ SaveLog(r, "running", <<"proceeded">>)

\* An attempt failed and is retried.
LogAttempt(r) ==
  /\ r \in workload.retried /\ logs[r].status = "running"
  /\ logs[r].output \in {<<>>, <<"proceeded">>}
  /\ SaveLog(r, "running", <<"attempt">>)

FinishLog(r, status) ==
  /\ logs[r].status \in {"running", "waiting_jobs"} /\ status \in TerminalStatuses
  /\ SaveLog(r, status, <<"final", "more">>)

\* publishSyncLogEvent, in the goroutine that saved.
PublishSaved ==
  /\ saved # NoEvent
  /\ PublishLog(saved) /\ saved' = NoEvent
  /\ UNCHANGED <<logs, rewritten, liveVars, feedVars, waitVars>>

(***************************************************************************)
(* GET /api/custom/stacks/{id}/stream                                      *)
(***************************************************************************)

OpenFeed ==
  /\ feed = "off" /\ feed' = "subscribed"
  /\ UNCHANGED <<lastLen, lastStatus, shown, writerVars, liveVars, inbox, waitVars>>

\* Mutant: the stored output is shown and not remembered.
Snapshot_Unobserved ==
  /\ feed = "subscribed" /\ feed' = "draining"
  /\ lastStatus' = [k \in Records |-> IF k[1] = "row" THEN logs[k[2]].status ELSE "none"]
  /\ shown' = [k \in Records |-> IF k[1] = "row" THEN logs[k[2]].output ELSE <<>>]
  /\ UNCHANGED <<lastLen, writerVars, liveVars, inbox, waitVars>>

\* The stored rows: observeSnapshot and observeStatus for each.
Snapshot ==
  /\ feed = "subscribed"
  /\ feed' = "draining"
  /\ lastLen' = [k \in Records |-> IF k[1] = "row" THEN Len(logs[k[2]].output) ELSE 0]
  /\ lastStatus' = [k \in Records |-> IF k[1] = "row" THEN logs[k[2]].status ELSE "none"]
  /\ shown' = [k \in Records |-> IF k[1] = "row" THEN logs[k[2]].output ELSE <<>>]
  /\ UNCHANGED <<writerVars, liveVars, inbox, waitVars>>

\* apply: the part of the output that is longer than what was sent.
ApplyOutput(ev) ==
  LET new == Len(ev.output) > lastLen[ev.record] IN
  /\ lastLen' = IF new THEN [lastLen EXCEPT ![ev.record] = Len(ev.output)] ELSE lastLen
  /\ shown' = IF new
              THEN [shown EXCEPT ![ev.record] =
                      @ \o SubSeq(ev.output, lastLen[ev.record] + 1, Len(ev.output))]
              ELSE shown

\* applyStatus: a status is announced when it differs from the one before.
\* The waiter keeps the last frame and stops reading at a terminal one; what
\* the connection delays is left to the inbox before it.
ApplyStatus(record, status) ==
  LET new == status # "none" /\ lastStatus[record] # status IN
  /\ lastStatus' = IF new THEN [lastStatus EXCEPT ![record] = status] ELSE lastStatus
  /\ frame' = IF /\ new /\ waiter # "done"
                 /\ frame.status \notin TerminalStatuses
              THEN [row |-> IF record[1] = "row" THEN record[2] ELSE 0, status |-> status]
              ELSE frame

Consume ==
  /\ feed \in {"draining", "following"} /\ inbox # <<>>
  /\ ApplyOutput(Head(inbox)) /\ ApplyStatus(Head(inbox).record, Head(inbox).status)
  /\ inbox' = Tail(inbox)
  /\ UNCHANGED <<feed, writerVars, liveVars, waiter, prior, outcome>>

EndDrain ==
  /\ feed = "draining" /\ inbox = <<>>
  /\ feed' = "following"
  /\ UNCHANGED <<lastLen, lastStatus, shown, writerVars, liveVars, inbox, waitVars>>

\* newestSyncLogID and latestSyncLogStatus: the row created last.
NewestLog ==
  LET rows == {0} \cup {r \in LogRows : logs[r].status # "none"}
  IN  CHOOSE r \in rows : \A q \in rows : r >= q

\* Mutant: the ticker speaks only of rows never announced.
RecoverStatus_OnlyUnknown ==
  /\ feed = "following" /\ NewestLog # 0
  /\ lastStatus[<<"row", NewestLog>>] = "none"
  /\ ApplyStatus(<<"row", NewestLog>>, logs[NewestLog].status)
  /\ UNCHANGED <<feed, lastLen, shown, writerVars, liveVars, inbox, waiter, prior, outcome>>

\* The recovery ticker: latestSyncLogStatus.
RecoverStatus ==
  /\ feed = "following" /\ NewestLog # 0
  /\ ApplyStatus(<<"row", NewestLog>>, logs[NewestLog].status)
  /\ UNCHANGED <<feed, lastLen, shown, writerVars, liveVars, inbox, waiter, prior, outcome>>

\* The client leaves: unsubscribe, and the handoff state goes with the request.
CloseFeed ==
  /\ Subscribed /\ waiter # "opening"
  /\ feed' = "gone" /\ inbox' = <<>>
  /\ lastLen' = [k \in Records |-> 0]
  /\ lastStatus' = [k \in Records |-> "none"]
  /\ shown' = [k \in Records |-> <<>>]
  /\ UNCHANGED <<writerVars, liveVars, waitVars>>

(***************************************************************************)
(* awaitReconcile                                                          *)
(***************************************************************************)

\* The stream answered (its 200 is committed before the subscription exists):
\* newestSyncLogID, then the trigger, which other triggers may overtake.
WaitTrigger ==
  /\ waiter = "opening" /\ waiter' = "waiting"
  /\ prior' = NewestLog
  /\ UNCHANGED <<frame, outcome, writerVars, liveVars, feedVars, inbox>>

\* The wait ends with a terminal frame, the end of the stream or the time-out;
\* without any frame the newest row is read once more.
Report ==
  LET newest == NewestLog
      adopt  == frame.status = "none" /\ newest # prior
      row    == IF adopt THEN newest ELSE frame.row
      status == IF adopt THEN logs[newest].status ELSE frame.status
  IN
  /\ waiter = "waiting" /\ waiter' = "done"
  /\ outcome' = [row |-> row, status |-> status,
                 completed |-> status \in TerminalStatuses]
  /\ prior' = 0 /\ frame' = NoFrame
  /\ UNCHANGED <<writerVars, liveVars, feedVars, inbox>>

LogStreamNext ==
  /\ UNCHANGED workload
  /\ \/ \E r \in LogRows, n \in LineNos :
          \/ SendLine(r, n) \/ PublishLine(r, n)
          \/ \E stale \in SUBSET (LogRows \ {r}) : AppendLine(r, n, stale)
     \/ \E r \in LogRows :
          \/ CreateLog(r) \/ WaitForJobs(r) \/ ProceedAfterJobs(r) \/ LogAttempt(r)
          \/ \E status \in TerminalStatuses : FinishLog(r, status)
     \/ PublishSaved
     \/ OpenFeed \/ Snapshot \/ Consume \/ EndDrain \/ RecoverStatus \/ CloseFeed
     \/ WaitTrigger \/ Report

LogStreamSpec == LogStreamInit /\ [][LogStreamNext]_logStreamVars

(***************************************************************************)
(* Properties                                                              *)
(***************************************************************************)

\* Whatever is dropped, delayed or published out of order, what a client has of
\* a record is a beginning of that record's text: no line twice, none missing in
\* between.  (It needs texts that only grow: a row whose text was replaced and
\* a live buffer that was evicted and begun anew are not covered.)
ShownIsPrefix ==
  \A r \in LogRows :
    /\ r \notin rewritten => IsPrefix(shown[<<"row", r>>], logs[r].output)
    /\ r \notin swept => IsPrefix(shown[<<"live", r>>], buffers[r].output)

\* A wait reported as completed names a reconcile that really ended, and ended
\* the way it says.
CompletedIsReal ==
  outcome.completed =>
    /\ outcome.row \in LogRows
    /\ logs[outcome.row].status = outcome.status

\* The stream's last word on the newest reconcile is its real status, also when
\* the event that carried it was dropped or a stale one came after it: the
\* recovery ticker sees to it.
StatusSettles ==
  <>[](feed = "following" /\ NewestLog # 0 =>
         lastStatus[<<"row", NewestLog>>] = logs[NewestLog].status)

\* The live log shows beginnings of what was written and real outcomes.
LogStreamSafety == LogStreamTypeOK /\ ShownIsPrefix /\ CompletedIsReal
=============================================================================
