----------------------------- MODULE WorkerLink -----------------------------
(***************************************************************************)
(* The command path between the server and one worker:                     *)
(*   - WorkerServer.Dispatch and the retry loop that calls it              *)
(*     (internal/worker/server.go, internal/sync/reconciler.go),           *)
(*   - connections, their registration and the replay of pending commands  *)
(*     (handleWebSocket, replayPendingOnReconnect),                        *)
(*   - the worker_commands rows (internal/worker/commands.go) and the      *)
(*     recovery a restarted server makes of them (internal/sync/boot.go),  *)
(*   - the worker's session, its duplicate gate and its outbox spool       *)
(*     (worker/transport, worker/handlers, worker/spool).                  *)
(*                                                                         *)
(* A connection has an epoch number.  A worker has one session at a time,  *)
(* so only the newest epoch can carry messages, but the server may not     *)
(* have noticed yet that an older one is dead.  The duplicate gate is one  *)
(* step here; WorkerHandlers takes it apart.  The cancel_command a caller  *)
(* that gives up sends only makes an execution end early with an error,    *)
(* which ExecFinish allows at any time.                                    *)
(***************************************************************************)
EXTENDS Integers, Sequences, FiniteSets

CONSTANTS
  Commands,     \* command IDs
  Durable,      \* those that isDurableCommand accepts
  MaxAttempts,  \* maxRetries of the deploy retry loop (1: no retry)
  MaxEpochs,    \* bound: connections the worker makes
  MaxCrashes,   \* bound: worker crashes plus server restarts
  MaxInFlight   \* bound: no flush tick while this many messages travel

ASSUME ConstantsAssumption ==
  /\ Durable \subseteq Commands
  /\ MaxAttempts \in Nat \ {0} /\ MaxEpochs \in Nat \ {0}
  /\ MaxCrashes \in Nat /\ MaxInFlight \in Nat \ {0}

Epochs == 1 .. MaxEpochs
NoResult == [exec |-> 0, during |-> 0, ok |-> FALSE]
Terminal == {"success", "error", "timed_out"}

VARIABLES
  \* Server, in memory
  caller,    \* per command: the Dispatch call, see CallerSteps
  attempt,   \* per command: attempt number of the retry loop
  snapshot,  \* per command: connection Dispatch read (0: none)
  message,   \* per command: number of the message Dispatch is sending
  pending,   \* commands with a pendingResult
  chan,      \* per command: content of pr.ch
  conn,      \* s.connections[worker]: an epoch, or 0
  handler,   \* per epoch: handleWebSocket's progress
  toReplay,  \* per epoch: commands replayPendingOnReconnect still resends
  acking,    \* per epoch: the command LogCommandAck is about to save
  seen,      \* s.seenMessages
  \* Server, in the database
  row,       \* worker_commands: status and attempt_count
  \* Network
  down,      \* server to worker, on the session's connection
  up,        \* worker to server, per epoch
  \* Worker
  session,   \* epoch of activeConn, or 0
  running,   \* per command: executions in progress
  execs,     \* per command: number of executions begun
  cached,    \* per command: completedDurableCommands
  spool,     \* outbox messages without an ack
  nextMsg,   \* next message ID of SendResult
  dialed,    \* epochs used so far
  crashes,   \* of the worker's process
  restarts   \* of the server

dispatch == <<caller, attempt, snapshot, message, pending>>
handlers == <<handler, toReplay, acking>>
server == <<dispatch, chan, conn, handlers, seen>>
worker == <<session, running, execs, cached, spool, nextMsg>>
bounds == <<dialed, crashes, restarts>>
outside == <<conn, handlers, seen, up, worker, bounds>>  \* of Dispatch
vars == <<dispatch, chan, row, down, outside>>

\* Dispatch: idle, after the connection look-up, after registering in
\* pending, after LogCommandDispatch, waiting, with an outcome, after
\* LogCommandFinish, returned; gone when the server went down.
CallerSteps == {"idle", "looked", "registered", "logged", "waiting",
                "resulted", "gaveup", "finished", "returned", "gone"}

Results == [exec : Nat, during : Nat, ok : BOOLEAN]
RowStatus == {"none", "queued", "dispatched", "acked"} \cup Terminal

\* What is kept in the outbox, and what travels up and down.
Spooled == [id : Nat, cmd : Commands, res : Results]
UpMsgs ==
  [type : {"ack"}, cmd : Commands, count : Nat]
    \cup [type : {"result"}, id : Nat, cmd : Commands, res : Results]
DownMsgs ==
  [type : {"command"}, cmd : Commands, count : Nat] \cup [type : {"ack"}, id : Nat]

TypeOK ==
  /\ caller \in [Commands -> CallerSteps]
  /\ attempt \in [Commands -> 1 .. MaxAttempts]
  /\ snapshot \in [Commands -> 0 .. MaxEpochs]
  /\ message \in [Commands -> Nat]
  /\ pending \subseteq Commands
  /\ chan \in [Commands -> Results]
  /\ conn \in 0 .. MaxEpochs
  /\ handler \in [Epochs -> {"none", "registered", "replaying",
                             "reading", "closed"}]
  /\ toReplay \in [Epochs -> SUBSET Commands]
  /\ acking \in [Epochs -> SUBSET Commands]
  /\ seen \subseteq Nat
  /\ row \in [Commands -> [status : RowStatus, count : Nat]]
  /\ down \in Seq(DownMsgs) /\ up \in [Epochs -> Seq(UpMsgs)]
  /\ session \in 0 .. MaxEpochs
  /\ execs \in [Commands -> Nat]
  /\ running \in [Commands -> SUBSET (Nat \X Nat)]
  /\ cached \in [Commands -> Results]
  /\ spool \subseteq Spooled
  /\ nextMsg \in Nat /\ dialed \in 0 .. MaxEpochs
  /\ crashes \in 0 .. MaxCrashes /\ restarts \in 0 .. MaxCrashes

Init ==
  /\ caller = [c \in Commands |-> "idle"]
  /\ attempt = [c \in Commands |-> 1]
  /\ snapshot = [c \in Commands |-> 0]
  /\ message = [c \in Commands |-> 0]
  /\ pending = {}
  /\ chan = [c \in Commands |-> NoResult]
  /\ conn = 0
  /\ handler = [e \in Epochs |-> "none"]
  /\ toReplay = [e \in Epochs |-> {}]
  /\ acking = [e \in Epochs |-> {}]
  /\ seen = {}
  /\ row = [c \in Commands |-> [status |-> "none", count |-> 0]]
  /\ down = <<>>
  /\ up = [e \in Epochs |-> <<>>]
  /\ session = 0
  /\ running = [c \in Commands |-> {}]
  /\ execs = [c \in Commands |-> 0]
  /\ cached = [c \in Commands |-> NoResult]
  /\ spool = {} /\ nextMsg = 1 /\ dialed = 0 /\ crashes = 0 /\ restarts = 0

(***************************************************************************)
(* Rows and writes                                                         *)
(***************************************************************************)

\* LogCommandDispatch: the attempt count also stands for the fresh message
\* ID of this delivery.
Dispatched(c) == [status |-> "dispatched", count |-> row[c].count + 1]

\* conn.WriteMessage on connection e: on a dead connection it either fails
\* or is accepted by the local socket and lost.
MayFail(e) == e # session
Written(e, m) == IF e = session THEN Append(down, m) ELSE down

CommandMsg(c, n) == [type |-> "command", cmd |-> c, count |-> n]
AckMsg(i) == [type |-> "ack", id |-> i]

Goto(c, step) == caller' = [caller EXCEPT ![c] = step]
SetStatus(c, st) == row' = [row EXCEPT ![c].status = st]

(***************************************************************************)
(* WorkerServer.Dispatch, and the retry loop around it                     *)
(***************************************************************************)

\* Read the connection under the lock; a command that is not durable fails
\* at once when there is none.
LookUp(c) ==
  /\ caller[c] = "idle"
  /\ snapshot' = [snapshot EXCEPT ![c] = conn]
  /\ Goto(c, IF c \notin Durable /\ conn = 0 THEN "returned" ELSE "looked")
  /\ UNCHANGED <<attempt, message, chan, row, down, pending, outside>>

Register(c) ==
  /\ caller[c] = "looked"
  /\ pending' = pending \cup {c}
  /\ chan' = [chan EXCEPT ![c] = NoResult]
  /\ Goto(c, "registered")
  /\ UNCHANGED <<attempt, snapshot, message, row, down, outside>>

\* LogCommandQueued when the worker was offline, else LogCommandDispatch.
LogStart(c) ==
  /\ caller[c] = "registered"
  /\ IF snapshot[c] = 0
     THEN SetStatus(c, "queued") /\ Goto(c, "waiting") /\ UNCHANGED message
     ELSE /\ row' = [row EXCEPT ![c] = Dispatched(c)]
          /\ message' = [message EXCEPT ![c] = row[c].count + 1]
          /\ Goto(c, "logged")
  /\ UNCHANGED <<attempt, snapshot, chan, down, pending, outside>>

\* The write; after a failed one a durable command waits for a replay.
Write(c) ==
  /\ caller[c] = "logged"
  /\ \/ /\ down' = Written(snapshot[c], CommandMsg(c, message[c]))
        /\ Goto(c, "waiting")
        /\ UNCHANGED row
     \/ /\ MayFail(snapshot[c])
        /\ SetStatus(c, IF c \in Durable THEN "queued" ELSE "error")
        /\ Goto(c, IF c \in Durable THEN "waiting" ELSE "finished")
        /\ UNCHANGED down
  /\ UNCHANGED <<attempt, snapshot, message, chan, pending, outside>>

\* The select: a result, or the context's deadline or cancellation or the
\* five-minute fallback.
TakeResult(c) ==
  /\ caller[c] = "waiting" /\ chan[c] # NoResult
  /\ Goto(c, "resulted")
  /\ UNCHANGED <<attempt, snapshot, message, chan, row, down, pending, outside>>

GiveUp(c) ==
  /\ caller[c] = "waiting"
  /\ Goto(c, "gaveup")
  /\ UNCHANGED <<attempt, snapshot, message, chan, row, down, pending, outside>>

\* Mutant: the error of a result is not looked at.
LogCommandFinish_IgnoresError(c) ==
  /\ \/ /\ caller[c] = "resulted"
        /\ SetStatus(c, "success")
        /\ UNCHANGED chan
     \/ /\ caller[c] = "gaveup"
        /\ SetStatus(c, "timed_out")
        /\ chan' = [chan EXCEPT ![c] = NoResult]
  /\ Goto(c, "finished")
  /\ UNCHANGED <<attempt, snapshot, message, down, pending, outside>>

\* A cancelled context is recorded as cancelled; timed_out stands for both.
LogCommandFinish(c) ==
  /\ \/ /\ caller[c] = "resulted"
        /\ SetStatus(c, IF chan[c].ok THEN "success" ELSE "error")
        /\ UNCHANGED chan
     \/ /\ caller[c] = "gaveup"
        /\ SetStatus(c, "timed_out")
        /\ chan' = [chan EXCEPT ![c] = NoResult]
  /\ Goto(c, "finished")
  /\ UNCHANGED <<attempt, snapshot, message, down, pending, outside>>

\* The deferred delete from pending.
Unregister(c) ==
  /\ caller[c] = "finished"
  /\ pending' = pending \ {c}
  /\ Goto(c, "returned")
  /\ UNCHANGED <<attempt, snapshot, message, chan, row, down, outside>>

\* Mutant: the retry loop runs once too often.
Retry_OffByOne(c) ==
  /\ caller[c] = "returned" /\ ~chan[c].ok
  /\ c \in Durable /\ attempt[c] <= MaxAttempts
  /\ attempt' = [attempt EXCEPT ![c] = @ + 1]
  /\ Goto(c, "idle")
  /\ UNCHANGED <<snapshot, message, chan, row, down, pending, outside>>

\* ReconcileStack dispatches a failed deploy again under the same CommandID.
Retry(c) ==
  /\ caller[c] = "returned" /\ ~chan[c].ok
  /\ c \in Durable /\ attempt[c] < MaxAttempts
  /\ attempt' = [attempt EXCEPT ![c] = @ + 1]
  /\ Goto(c, "idle")
  /\ UNCHANGED <<snapshot, message, chan, row, down, pending, outside>>

(***************************************************************************)
(* handleWebSocket                                                         *)
(***************************************************************************)

\* The connection replaces, and closes, the one registered before it.  The
\* handler of an old connection may get here after that of a newer one, and
\* then closes the newer one (only while the worker may dial again: a bound).
RegisterConn(e) ==
  /\ e <= dialed /\ handler[e] = "none"
  /\ conn # 0 /\ conn = session => dialed < MaxEpochs
  /\ handler' = [handler EXCEPT ![e] = "registered"]
  /\ conn' = e
  /\ up' = IF conn = 0 THEN up ELSE [up EXCEPT ![conn] = <<>>]
  /\ IF conn # 0 /\ conn = session THEN session' = 0 /\ down' = <<>>
                                    ELSE UNCHANGED <<session, down>>
  /\ UNCHANGED <<toReplay, acking, seen, row, running, execs, cached, spool,
                 nextMsg, chan, dispatch, bounds>>

\* Mutant: pending commands are not collected for a replay.
CollectReplay_Nothing(e) ==
  /\ handler[e] = "registered"
  /\ handler' = [handler EXCEPT ![e] = "replaying"]
  /\ UNCHANGED <<chan, conn, toReplay, acking, seen, row, down, up, dispatch,
                 worker, bounds>>

\* replayPendingOnReconnect collects the pending commands under the lock ...
CollectReplay(e) ==
  /\ handler[e] = "registered"
  /\ handler' = [handler EXCEPT ![e] = "replaying"]
  /\ toReplay' = [toReplay EXCEPT ![e] = pending]
  /\ UNCHANGED <<conn, acking, seen, row, down, up, chan, dispatch, worker,
                 bounds>>

\* ... and then logs and resends them one by one, in map order.
Replay(e, c) ==
  /\ handler[e] = "replaying" /\ c \in toReplay[e]
  /\ toReplay' = [toReplay EXCEPT ![e] = @ \ {c}]
  /\ row' = [row EXCEPT ![c] = Dispatched(c)]
  /\ down' = Written(e, CommandMsg(c, row[c].count + 1))
  /\ UNCHANGED <<conn, handler, acking, seen, up, chan, dispatch, worker,
                 bounds>>

StartReading(e) ==
  /\ handler[e] = "replaying" /\ toReplay[e] = {}
  /\ handler' = [handler EXCEPT ![e] = "reading"]
  /\ UNCHANGED <<conn, toReplay, acking, seen, row, down, up, chan, dispatch,
                 worker, bounds>>

Reads(e, type) ==
  /\ handler[e] = "reading" /\ acking[e] = {}
  /\ up[e] # <<>> /\ Head(up[e]).type = type
  /\ up' = [up EXCEPT ![e] = Tail(@)]

\* LogCommandAck, first half: find the row by message ID, check its status.
ReadAck(e) ==
  /\ Reads(e, "ack")
  /\ LET m == Head(up[e]) IN
       acking' = [acking EXCEPT
         ![e] = IF row[m.cmd].count = m.count /\ row[m.cmd].status \notin Terminal
                THEN {m.cmd} ELSE {}]
  /\ UNCHANGED <<conn, handler, toReplay, seen, row, down, chan, dispatch,
                 worker, bounds>>

\* LogCommandAck, second half: save the row as acked.
SaveAck(e) ==
  /\ acking[e] # {}
  /\ row' = [c \in Commands |-> IF c \in acking[e]
                                THEN [row[c] EXCEPT !.status = "acked"]
                                ELSE row[c]]
  /\ acking' = [acking EXCEPT ![e] = {}]
  /\ UNCHANGED <<conn, handler, toReplay, seen, down, up, chan, dispatch,
                 worker, bounds>>

\* A result: deduplicated by message ID, handed to the waiting call if its
\* channel is empty, and acknowledged over the current connection.
ReadResult(e) ==
  /\ Reads(e, "result")
  /\ LET m == Head(up[e]) IN
       /\ seen' = seen \cup {m.id}
       /\ chan' = IF m.id \notin seen /\ m.cmd \in pending /\ chan[m.cmd] = NoResult
                  THEN [chan EXCEPT ![m.cmd] = m.res] ELSE chan
       /\ down' = IF conn = 0 THEN down ELSE Written(conn, AckMsg(m.id))
  /\ UNCHANGED <<conn, row, dispatch, handlers, worker, bounds>>

\* Mutant: a closing handler deletes whatever connection is registered.
Disconnect_Unchecked(e) ==
  /\ handler[e] = "reading" /\ acking[e] = {} /\ e # session
  /\ handler' = [handler EXCEPT ![e] = "closed"]
  /\ conn' = 0
  /\ up' = [up EXCEPT ![e] = <<>>]
  /\ UNCHANGED <<chan, toReplay, acking, seen, row, down, dispatch, worker,
                 bounds>>

\* ReadMessage fails (the peer is gone, or no heartbeat came): the handler
\* removes its connection unless a newer one has replaced it.
Disconnect(e) ==
  /\ handler[e] = "reading" /\ acking[e] = {} /\ e # session
  /\ handler' = [handler EXCEPT ![e] = "closed"]
  /\ conn' = IF conn = e THEN 0 ELSE conn
  /\ up' = [up EXCEPT ![e] = <<>>]
  /\ UNCHANGED <<toReplay, acking, seen, row, down, chan, dispatch, worker,
                 bounds>>

(***************************************************************************)
(* The worker                                                              *)
(***************************************************************************)

\* FlushPersistentMessages sends the spool, oldest first: the one order of it
\* in which the message IDs grow.
SpoolOrder == {s \in [1 .. Cardinality(spool) -> spool] :
                 \A i, j \in DOMAIN s : i < j => s[i].id < s[j].id}
ResultMsg(m) == [type |-> "result", id |-> m.id, cmd |-> m.cmd, res |-> m.res]
FlushPersistentMessages(e, before) ==
  \E s \in SpoolOrder :
    up' = [up EXCEPT ![e] = before \o [i \in DOMAIN s |-> ResultMsg(s[i])]]

\* RunSession: a new connection becomes activeConn and the spool is flushed.
Dial ==
  /\ session = 0 /\ dialed < MaxEpochs
  /\ dialed' = dialed + 1
  /\ session' = dialed + 1
  /\ FlushPersistentMessages(dialed + 1, <<>>)
  /\ UNCHANGED <<row, down, running, execs, cached, spool, nextMsg, crashes,
                 restarts, server>>

\* The ticker of RunSession.
FlushTick ==
  /\ session # 0 /\ spool # {}
  /\ Len(up[session]) + Len(down) < MaxInFlight
  /\ FlushPersistentMessages(session, up[session])
  /\ UNCHANGED <<row, down, server, worker, bounds>>

\* Mutant: the acknowledged message stays in the outbox.
ReceiveAck_NotRemoved ==
  /\ down # <<>> /\ Head(down).type = "ack"
  /\ down' = Tail(down)
  /\ UNCHANGED <<row, up, session, running, execs, cached, spool, nextMsg, server,
                 bounds>>

ReceiveAck ==
  /\ down # <<>> /\ Head(down).type = "ack"
  /\ down' = Tail(down)
  /\ spool' = {m \in spool : m.id # Head(down).id}
  /\ UNCHANGED <<row, up, session, running, execs, cached, nextMsg, server,
                 bounds>>

\* SendResult: persist in the spool, then send on the active connection.
SendResult(c, r, before) ==
  LET m == [id |-> nextMsg, cmd |-> c, res |-> r] IN
  /\ spool' = spool \cup {m}
  /\ nextMsg' = nextMsg + 1
  /\ up' = IF session = 0 THEN up
           ELSE [up EXCEPT ![session] = @ \o before \o <<ResultMsg(m)>>]

\* A command arrives.  A durable one is acked; it is executed unless it is
\* running or its result is cached.  Any other is executed.
ReceiveCommand ==
  /\ down # <<>> /\ Head(down).type = "command"
  /\ down' = Tail(down)
  /\ LET c == Head(down).cmd
         ack == IF c \in Durable
                THEN <<[type |-> "ack", cmd |-> c, count |-> Head(down).count]>>
                ELSE <<>>
     IN
     \/ /\ c \in Durable /\ running[c] = {} /\ cached[c] # NoResult
        /\ SendResult(c, cached[c], ack)
        /\ UNCHANGED <<running, execs>>
     \/ /\ c \in Durable /\ running[c] # {}
        /\ up' = [up EXCEPT ![session] = @ \o ack]
        /\ UNCHANGED <<running, execs, spool, nextMsg>>
     \/ /\ c \in Durable => running[c] = {} /\ cached[c] = NoResult
        /\ execs' = [execs EXCEPT ![c] = @ + 1]
        /\ running' = [running EXCEPT ![c] = @ \cup {<<execs[c] + 1, attempt[c]>>}]
        /\ up' = [up EXCEPT ![session] = @ \o ack]
        /\ UNCHANGED <<spool, nextMsg>>
  /\ UNCHANGED <<row, session, cached, server, bounds>>

\* Mutant: the result of a durable command is not cached.
ExecFinish_NotCached(c) ==
  \E x \in running[c], ok \in BOOLEAN :
    LET r == [exec |-> x[1], during |-> x[2], ok |-> ok] IN
    /\ running' = [running EXCEPT ![c] = @ \ {x}]
    /\ SendResult(c, r, <<>>)
    /\ UNCHANGED <<row, down, session, execs, cached, server, bounds>>

\* The executor returns with success or an error.
ExecFinish(c) ==
  \E x \in running[c], ok \in BOOLEAN :
    LET r == [exec |-> x[1], during |-> x[2], ok |-> ok] IN
    /\ running' = [running EXCEPT ![c] = @ \ {x}]
    /\ cached' = IF c \in Durable THEN [cached EXCEPT ![c] = r] ELSE cached
    /\ SendResult(c, r, <<>>)
    /\ UNCHANGED <<row, down, session, execs, server, bounds>>

(***************************************************************************)
(* Faults.  The last connection does not break, so that what depends on    *)
(* the worker coming back can be asked.                                    *)
(***************************************************************************)
Break ==
  /\ session # 0 /\ dialed < MaxEpochs
  /\ session' = 0 /\ down' = <<>>
  /\ UNCHANGED <<row, up, running, execs, cached, spool, nextMsg, server,
                 bounds>>

\* The worker process dies; only the spool survives.
WorkerCrash ==
  /\ crashes + restarts < MaxCrashes /\ dialed < MaxEpochs
  /\ crashes' = crashes + 1
  /\ session' = 0 /\ down' = <<>>
  /\ running' = [c \in Commands |-> {}]
  /\ cached' = [c \in Commands |-> NoResult]
  /\ UNCHANGED <<row, up, execs, spool, nextMsg, dialed, restarts, server>>

\* RecoverOrphanState on the rows of worker_commands.
RecoverRow(r) ==
  IF r.status \in {"dispatched", "acked"} THEN [r EXCEPT !.status = "error"] ELSE r

\* The server process dies and boots again.
ServerRestart ==
  /\ crashes + restarts < MaxCrashes /\ dialed < MaxEpochs
  /\ restarts' = restarts + 1
  /\ row' = [c \in Commands |-> RecoverRow(row[c])]
  /\ caller' = [c \in Commands |->
       IF (caller[c] = "idle" /\ attempt[c] = 1) \/ caller[c] = "returned"
       THEN caller[c] ELSE "gone"]
  /\ attempt' = [c \in Commands |-> IF caller[c] = "idle" /\ attempt[c] = 1
                                    THEN 1 ELSE MaxAttempts]
  /\ pending' = {}
  /\ chan' = [c \in Commands |-> NoResult]
  /\ conn' = 0
  /\ handler' = [e \in Epochs |-> IF e <= dialed THEN "closed" ELSE "none"]
  /\ toReplay' = [e \in Epochs |-> {}]
  /\ acking' = [e \in Epochs |-> {}]
  /\ seen' = {}
  /\ session' = 0 /\ down' = <<>> /\ up' = [e \in Epochs |-> <<>>]
  /\ UNCHANGED <<snapshot, message, running, execs, cached, spool, nextMsg,
                 dialed, crashes>>

CallerStep(c) ==
  \/ LookUp(c) \/ Register(c) \/ LogStart(c) \/ Write(c) \/ TakeResult(c)
  \/ LogCommandFinish(c) \/ Unregister(c) \/ Retry(c)

HandlerStep(e) ==
  \/ RegisterConn(e) \/ CollectReplay(e) \/ StartReading(e)
  \/ \E c \in Commands : Replay(e, c)
  \/ ReadAck(e) \/ SaveAck(e) \/ ReadResult(e) \/ Disconnect(e)

WorkerStep == Dial \/ ReceiveAck \/ ReceiveCommand

Next ==
  \/ \E c \in Commands : CallerStep(c) \/ GiveUp(c) \/ ExecFinish(c)
  \/ \E e \in Epochs : HandlerStep(e)
  \/ WorkerStep \/ FlushTick
  \/ Break \/ WorkerCrash \/ ServerRestart

Spec == Init /\ [][Next]_vars

\* Goroutines and both read loops make progress, a worker without a session
\* dials again, its ticker fires, an execution ends.  Nothing is assumed of
\* faults, of callers' deadlines, or of when a command is first dispatched.
Fairness ==
  /\ \A c \in Commands : WF_vars(CallerStep(c)) /\ WF_vars(ExecFinish(c))
  /\ \A e \in Epochs : WF_vars(HandlerStep(e))
  /\ WF_vars(WorkerStep) /\ WF_vars(FlushTick)

FairSpec == Spec /\ Fairness

(***************************************************************************)
(* Properties                                                              *)
(***************************************************************************)

\* Reconnects, replays, late and duplicated messages, and restarts of the
\* server, never make the worker execute one durable command twice, as long as
\* the worker process lives: replayPendingOnReconnect together with the
\* worker's duplicate gate.
AtMostOnce ==
  \A c \in Durable : crashes = 0 => execs[c] <= 1

\* A row says success only when an execution of that command succeeded on
\* the worker, through its spool, the message dedup, the pending map and
\* every retry in between (again while the worker process lives).
SuccessIsReal ==
  \A c \in Durable :
    crashes = 0 /\ row[c].status = "success" => cached[c].ok

\* The worker's live session stays the one commands are sent on: neither a
\* superseded handler's cleanup nor a late registration leaves the server
\* with another connection or with none.
LiveSessionStaysRegistered ==
  session # 0 /\ handler[session] \in {"replaying", "reading"} => conn = session

\* The results the worker has spooled are all acknowledged and removed,
\* whatever connection they were first sent on, and also after a restart of
\* either side.
SpoolDrains ==
  spool # {} ~> spool = {}

\* Once the worker began to execute a durable command, a caller that keeps
\* waiting for it gets a result: across reconnects, lost results, and a
\* worker crash (the command is then replayed and executed anew).
ExecutedIsAnswered ==
  \A c \in Durable :
    (caller[c] = "waiting" /\ execs[c] > 0) ~> caller[c] # "waiting"

\* server.go:486-487: "an exec must never be replayed when a worker
\* reconnects".
ExecSentOnce ==
  \A c \in Commands \ Durable : execs[c] <= 1

\* reconciler.go:502-503: "Every retry starts a fresh dispatch attempt. In
\* particular, a previous worker error must not suppress the next dispatch":
\* the result an attempt returns comes from an execution of that attempt.
RetryExecutes ==
  \A c \in Commands :
    caller[c] = "resulted" => chan[c].during = attempt[c]
=============================================================================
