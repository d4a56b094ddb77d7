------------------------------ MODULE Terminal ------------------------------
(***************************************************************************)
(* Interactive terminal sessions on one worker: the open, stream and close *)
(* routes and the idle sweeper (internal/routes/terminal.go), the session  *)
(* row and its transcript (internal/termsession), the per-session queues   *)
(* of the worker server (internal/worker/server.go), the broker that feeds *)
(* the browser (internal/termstream) and the exec on the worker            *)
(* (worker/executor/terminal.go).                                          *)
(*                                                                         *)
(* A session's events are its output chunks 1, 2, ... and Closed.          *)
(***************************************************************************)
EXTENDS Integers, SequencesExt, FiniteSetsExt

CONSTANTS
  Sessions,        \* session IDs, fresh UUIDs of open requests
  SessionLimit,    \* maxConcurrentSessionsPerWorker
  MaxPending,      \* maxPendingEvents, also the size of a stream's channel
  MaxQueued,       \* size of a termQueue's work channel
  MaxChunks,       \* bound: output chunks of each session
  MaxCuts          \* bound: connections lost

ASSUME TerminalAssumption ==
  /\ SessionLimit \in Nat \ {0} /\ MaxPending \in Nat \ {0}
  /\ MaxQueued \in Nat \ {0} /\ MaxCuts \in Nat
  /\ MaxChunks \in [Sessions -> Nat]

Closed == 0

VARIABLES
  opener,      \* per session: the open route's progress
  tracked,     \* terminalSessions of package routes
  row,         \* per session: status of its terminal_sessions row
  recording,   \* sessions with a transcript file handle
  transcript,  \* per session: chunks written to the transcript
  givingUp,    \* sessions a closer forgot, CloseRecord still to come
  queues,      \* per session: its termQueues, oldest first
  current,     \* per session: index of the one in s.termQueues, or 0
  subscriber,  \* per session: the stream route's progress
  channel,     \* per session: the subscriber's channel
  buffered,    \* per session: the broker's pending events
  received,    \* per session: events written to the browser
  down,        \* messages to the worker
  up,          \* messages to the server
  shell,       \* per session: the exec on the worker
  chunks,      \* per session: chunks the exec has produced
  online,      \* the worker's connection is up
  cuts,
  arrivedFrames      \* history, per session: events the server accepted

routeVars == <<opener, tracked, givingUp>>
recordVars == <<row, recording, transcript>>
queueVars == <<queues, current>>
brokerVars == <<subscriber, channel, buffered, received>>
linkVars == <<down, up, online, cuts>>
shellVars == <<shell, chunks>>
terminalVars == <<routeVars, recordVars, queueVars, brokerVars, linkVars,
                  shellVars, arrivedFrames>>

Events == Nat
Messages == [type : {"open", "close", "rejected"}, session : Sessions]
              \cup [type : {"event"}, session : Sessions, event : Events]

TerminalTypeOK ==
  /\ opener \in [Sessions -> {"idle", "reserved", "recorded", "done"}]
  /\ tracked \subseteq Sessions /\ givingUp \subseteq Sessions
  /\ row \in [Sessions -> {"none", "open", "closed"}]
  /\ recording \subseteq Sessions
  /\ \A s \in Sessions :
       /\ \A i \in DOMAIN queues[s] :
            /\ queues[s][i].done \in BOOLEAN /\ queues[s][i].items \in Seq(Events)
            /\ Len(queues[s][i].items) <= MaxQueued
       /\ current[s] \in 0 .. Len(queues[s])
       /\ received[s] \in Seq(Events) /\ buffered[s] \in Seq(Events)
       /\ channel[s] \in Seq(Events) /\ Len(channel[s]) <= MaxPending
       /\ transcript[s] \in Seq(Events)
  /\ subscriber \in [Sessions -> {"none", "attached", "ended"}]
  /\ down \in Seq(Messages) /\ up \in Seq(Messages)
  /\ shell \in [Sessions -> {"none", "opening", "live", "dying", "over"}]
  /\ \A s \in Sessions : chunks[s] \in 0 .. MaxChunks[s]
  /\ online \in BOOLEAN /\ cuts \in 0 .. MaxCuts

TerminalInit ==
  /\ opener = [s \in Sessions |-> "idle"]
  /\ tracked = {} /\ givingUp = {} /\ recording = {}
  /\ row = [s \in Sessions |-> "none"]
  /\ transcript = [s \in Sessions |-> <<>>]
  /\ queues = [s \in Sessions |-> <<>>]
  /\ current = [s \in Sessions |-> 0]
  /\ subscriber = [s \in Sessions |-> "none"]
  /\ channel = [s \in Sessions |-> <<>>]
  /\ buffered = [s \in Sessions |-> <<>>]
  /\ received = [s \in Sessions |-> <<>>]
  /\ down = <<>> /\ up = <<>> /\ online = TRUE /\ cuts = 0
  /\ shell = [s \in Sessions |-> "none"]
  /\ chunks = [s \in Sessions |-> 0]
  /\ arrivedFrames = [s \in Sessions |-> <<>>]

Msg(t, s) == [type |-> t, session |-> s]
EventMsg(s, e) == [type |-> "event", session |-> s, event |-> e]

\* termsession.CloseRecord: drops the handle and marks the row, if there is
\* one; closing a closed row saves it again.
CloseRecord(s) ==
  /\ recording' = recording \ {s}
  /\ row' = [row EXCEPT ![s] = IF @ = "none" THEN @ ELSE "closed"]

\* Broker.publish: without a subscriber the event is kept, the oldest going
\* first when the buffer is full; a full channel drops the event.
Publish(s, e) ==
  IF subscriber[s] = "attached"
  THEN /\ channel' = [channel EXCEPT
                        ![s] = IF Len(@) < MaxPending THEN Append(@, e) ELSE @]
       /\ UNCHANGED buffered
  ELSE /\ buffered' = [buffered EXCEPT
                         ![s] = Append(IF Len(@) >= MaxPending
                                       THEN Tail(@) ELSE @, e)]
       /\ UNCHANGED channel

(***************************************************************************)
(* The open route                                                          *)
(***************************************************************************)

\* Mutant: the limit is off by one.
Reserve_OffByOne(s) ==
  /\ opener[s] = "idle"
  /\ Cardinality(tracked) <= SessionLimit
  /\ tracked' = tracked \cup {s}
  /\ opener' = [opener EXCEPT ![s] = "reserved"]
  /\ UNCHANGED <<givingUp, recordVars, queueVars, brokerVars, linkVars,
                 shellVars, arrivedFrames>>

\* reserveTerminalSession: count and insert in one critical section.
Reserve(s) ==
  /\ opener[s] = "idle"
  /\ Cardinality(tracked) < SessionLimit
  /\ tracked' = tracked \cup {s}
  /\ opener' = [opener EXCEPT ![s] = "reserved"]
  /\ UNCHANGED <<givingUp, recordVars, queueVars, brokerVars, linkVars,
                 shellVars, arrivedFrames>>

\* termsession.CreateRecord, before anything is sent.
CreateRecord(s) ==
  /\ opener[s] = "reserved"
  /\ recording' = recording \cup {s}
  /\ row' = [row EXCEPT ![s] = "open"]
  /\ opener' = [opener EXCEPT ![s] = "recorded"]
  /\ UNCHANGED <<tracked, givingUp, transcript, queueVars, brokerVars,
                 linkVars, shellVars, arrivedFrames>>

\* Mutant: a failed send leaves the row as it is.
SendOpen_RowLeft(s) ==
  /\ opener[s] = "recorded"
  /\ opener' = [opener EXCEPT ![s] = "done"]
  /\ \/ /\ down' = IF online THEN Append(down, Msg("open", s)) ELSE down
        /\ UNCHANGED tracked
     \/ /\ ~online
        /\ tracked' = tracked \ {s}
        /\ UNCHANGED down
  /\ UNCHANGED <<givingUp, recordVars, queueVars, brokerVars, up, online, cuts,
                 shellVars, arrivedFrames>>

\* SendMessage(MsgTerminalOpen).  Without a connection it fails, and the
\* route forgets the session, or the dead socket swallows the message.
SendOpen(s) ==
  /\ opener[s] = "recorded"
  /\ opener' = [opener EXCEPT ![s] = "done"]
  /\ \/ /\ down' = IF online THEN Append(down, Msg("open", s)) ELSE down
        /\ UNCHANGED <<tracked, recordVars>>
     \/ /\ ~online
        /\ tracked' = tracked \ {s}
        /\ CloseRecord(s)
        /\ UNCHANGED <<down, transcript>>
  /\ UNCHANGED <<givingUp, queueVars, brokerVars, up, online, cuts, shellVars,
                 arrivedFrames>>

(***************************************************************************)
(* Closing: the close route and the idle sweeper                           *)
(***************************************************************************)

\* PurgeTerminalSessionQueue: the queue leaves the map and its drain
\* goroutine is told to stop.
PurgeEnded(s) ==
  /\ queues' = IF current[s] = 0 THEN queues
               ELSE [queues EXCEPT ![s][current[s]].done = TRUE]
  /\ current' = [current EXCEPT ![s] = 0]

\* The close message (lost without a connection), forgetTerminalSession and
\* the purge.  The sweeper takes only sessions that rested for fifteen
\* minutes, so the open route has long returned.
GiveUp(s) ==
  /\ s \in tracked /\ opener[s] = "done"
  /\ tracked' = tracked \ {s}
  /\ givingUp' = givingUp \cup {s}
  /\ down' = IF online THEN Append(down, Msg("close", s)) ELSE down
  /\ PurgeEnded(s)
  /\ UNCHANGED <<opener, recordVars, brokerVars, up, online, cuts, shellVars,
                 arrivedFrames>>

\* CloseRecord, which does not wait for the worker.
CloseGivenUp(s) ==
  /\ s \in givingUp
  /\ givingUp' = givingUp \ {s}
  /\ CloseRecord(s)
  /\ UNCHANGED <<opener, tracked, transcript, queueVars, brokerVars, linkVars,
                 shellVars, arrivedFrames>>

(***************************************************************************)
(* The stream route                                                        *)
(***************************************************************************)

\* Mutant: what was published before the stream attached is dropped.
Subscribe_FromNow(s) ==
  /\ subscriber[s] = "none" /\ opener[s] = "done" /\ s \in tracked
  /\ subscriber' = [subscriber EXCEPT ![s] = "attached"]
  /\ buffered' = [buffered EXCEPT ![s] = <<>>]
  /\ UNCHANGED <<channel, received, routeVars, recordVars, queueVars, linkVars,
                 shellVars, arrivedFrames>>

\* authorizeTerminalSession and Broker.Subscribe, which delivers what was
\* published before.
Subscribe(s) ==
  /\ subscriber[s] = "none" /\ opener[s] = "done" /\ s \in tracked
  /\ subscriber' = [subscriber EXCEPT ![s] = "attached"]
  /\ channel' = [channel EXCEPT ![s] = buffered[s]]
  /\ buffered' = [buffered EXCEPT ![s] = <<>>]
  /\ UNCHANGED <<received, routeVars, recordVars, queueVars, linkVars,
                 shellVars, arrivedFrames>>

\* One turn of the stream loop; Closed forgets the session and ends it.
StreamEvent(s) ==
  /\ subscriber[s] = "attached" /\ channel[s] # <<>>
  /\ LET e == Head(channel[s]) IN
       /\ received' = [received EXCEPT ![s] = Append(@, e)]
       /\ channel' = [channel EXCEPT ![s] = IF e = Closed THEN <<>> ELSE Tail(@)]
       /\ subscriber' = [subscriber EXCEPT
                           ![s] = IF e = Closed THEN "ended" ELSE @]
       /\ tracked' = IF e = Closed THEN tracked \ {s} ELSE tracked
  /\ UNCHANGED <<opener, givingUp, buffered, recordVars, queueVars, linkVars,
                 shellVars, arrivedFrames>>

(***************************************************************************)
(* The worker server                                                       *)
(***************************************************************************)

\* Mutant: the send does not look at the queue's capacity.
Enqueue_Unbounded(s, e) ==
  LET fresh == current[s] = 0
      qs == IF fresh THEN Append(queues[s], [items |-> <<>>, done |-> FALSE])
            ELSE queues[s]
      i == IF fresh THEN Len(qs) ELSE current[s]
  IN /\ queues' = [queues EXCEPT ![s] = [qs EXCEPT ![i].items = Append(@, e)]]
     /\ current' = [current EXCEPT ![s] = i]
     /\ arrivedFrames' = [arrivedFrames EXCEPT ![s] = Append(@, e)]

\* termSessionQueue and the non-blocking send on its channel.
Enqueue(s, e) ==
  LET fresh == current[s] = 0
      qs == IF fresh THEN Append(queues[s], [items |-> <<>>, done |-> FALSE])
            ELSE queues[s]
      i == IF fresh THEN Len(qs) ELSE current[s]
      room == Len(qs[i].items) < MaxQueued
  IN /\ queues' = [queues EXCEPT
                     ![s] = IF room THEN [qs EXCEPT ![i].items = Append(@, e)]
                            ELSE qs]
     /\ current' = [current EXCEPT ![s] = i]
     /\ arrivedFrames' = IF room THEN [arrivedFrames EXCEPT ![s] = Append(@, e)] ELSE arrivedFrames

\* The read loop: terminal_output and terminal_closed.
ServerReceiveEvent ==
  /\ up # <<>> /\ Head(up).type = "event"
  /\ up' = Tail(up)
  /\ Enqueue(Head(up).session, Head(up).event)
  /\ UNCHANGED <<routeVars, recordVars, brokerVars, down, online, cuts,
                 shellVars>>

\* The read loop: the result of an open that the worker refused, and
\* HandleTerminalOpenRejected.
ServerReceiveRejection ==
  /\ up # <<>> /\ Head(up).type = "rejected"
  /\ up' = Tail(up)
  /\ LET s == Head(up).session IN
       /\ tracked' = tracked \ {s}
       /\ CloseRecord(s)
       /\ Publish(s, Closed)
  /\ UNCHANGED <<opener, givingUp, transcript, queueVars, subscriber, received,
                 down, online, cuts, shellVars, arrivedFrames>>

\* Mutant: output that nobody watches is not recorded.
DrainOutput_WatchedOnly(s, i) ==
  /\ queues[s][i].items # <<>> /\ Head(queues[s][i].items) # Closed
  /\ LET e == Head(queues[s][i].items) IN
       /\ Publish(s, e)
       /\ transcript' = [transcript EXCEPT
            ![s] = IF s \in recording /\ subscriber[s] = "attached"
                   THEN Append(@, e) ELSE @]
  /\ queues' = [queues EXCEPT ![s][i].items = Tail(@)]
  /\ UNCHANGED <<current, routeVars, row, recording, subscriber, received,
                 linkVars, shellVars, arrivedFrames>>

\* onTerminalOutput: PublishOutput and AppendTranscript, which needs the
\* session's file handle.
DrainOutput(s, i) ==
  /\ queues[s][i].items # <<>> /\ Head(queues[s][i].items) # Closed
  /\ LET e == Head(queues[s][i].items) IN
       /\ Publish(s, e)
       /\ transcript' = [transcript EXCEPT
                           ![s] = IF s \in recording THEN Append(@, e) ELSE @]
  /\ queues' = [queues EXCEPT ![s][i].items = Tail(@)]
  /\ UNCHANGED <<current, routeVars, row, recording, subscriber, received,
                 linkVars, shellVars, arrivedFrames>>

\* onTerminalClosed, then the queue's entry leaves the map and its goroutine
\* stops.
DrainClosed(s, i) ==
  /\ queues[s][i].items # <<>> /\ Head(queues[s][i].items) = Closed
  /\ Publish(s, Closed)
  /\ CloseRecord(s)
  /\ queues' = [queues EXCEPT ![s][i] = [items |-> Tail(@.items), done |-> TRUE]]
  /\ current' = [current EXCEPT ![s] = 0]
  /\ UNCHANGED <<routeVars, transcript, subscriber, received, linkVars,
                 shellVars, arrivedFrames>>

\* The drain goroutine notices done; what is left in its channel is lost.
DrainStop(s, i) ==
  /\ queues[s][i].done /\ queues[s][i].items # <<>>
  /\ queues' = [queues EXCEPT ![s][i].items = <<>>]
  /\ UNCHANGED <<current, routeVars, recordVars, brokerVars, linkVars,
                 shellVars, arrivedFrames>>

(***************************************************************************)
(* The worker                                                              *)
(***************************************************************************)

\* WorkerSender.SendEnvelope: without a connection the message is dropped.
SentFrames(m) == IF online THEN Append(up, m) ELSE up

\* MsgTerminalOpen: DispatchThrottled refuses it (draining, overloaded) or
\* schedules HandleTerminalOpen.
WorkerReceiveOpen ==
  /\ down # <<>> /\ Head(down).type = "open"
  /\ down' = Tail(down)
  /\ LET s == Head(down).session IN
       \/ up' = SentFrames(Msg("rejected", s)) /\ UNCHANGED shell
       \/ shell' = [shell EXCEPT ![s] = "opening"] /\ UNCHANGED up
  /\ UNCHANGED <<online, cuts, chunks, routeVars, recordVars, queueVars,
                 brokerVars, arrivedFrames>>

\* MsgTerminalClose: CloseTerminal, a no-op unless the session is in the
\* worker's registry.
WorkerReceiveClose ==
  /\ down # <<>> /\ Head(down).type = "close"
  /\ down' = Tail(down)
  /\ shell' = [shell EXCEPT ![Head(down).session] = IF @ = "live" THEN "dying" ELSE @]
  /\ UNCHANGED <<up, online, cuts, chunks, routeVars, recordVars, queueVars,
                 brokerVars, arrivedFrames>>

\* OpenTerminal: the checks and the exec fail, and onClosed runs at once, or
\* the session is registered.
OpenTerminal(s) ==
  /\ shell[s] = "opening"
  /\ \/ shell' = [shell EXCEPT ![s] = "live"] /\ UNCHANGED up
     \/ shell' = [shell EXCEPT ![s] = "over"] /\ up' = SentFrames(EventMsg(s, Closed))
  /\ UNCHANGED <<down, online, cuts, chunks, routeVars, recordVars, queueVars,
                 brokerVars, arrivedFrames>>

\* The read loop of the exec: one chunk.
ShellOutput(s) ==
  /\ shell[s] \in {"live", "dying"}
  /\ chunks[s] < MaxChunks[s]
  /\ chunks' = [chunks EXCEPT ![s] = @ + 1]
  /\ up' = SentFrames(EventMsg(s, chunks[s] + 1))
  /\ UNCHANGED <<shell, down, online, cuts, routeVars, recordVars, queueVars,
                 brokerVars, arrivedFrames>>

\* The read ends (the process exits, or CloseTerminal closed the stream) and
\* the deferred clean-up reports it.
ShellEnd(s) ==
  /\ shell[s] \in {"live", "dying"}
  /\ shell' = [shell EXCEPT ![s] = "over"]
  /\ up' = SentFrames(EventMsg(s, Closed))
  /\ UNCHANGED <<down, online, cuts, chunks, routeVars, recordVars, queueVars,
                 brokerVars, arrivedFrames>>

\* The connection breaks with what travels on it; the worker redials.
Cut ==
  /\ online /\ cuts < MaxCuts
  /\ online' = FALSE /\ cuts' = cuts + 1 /\ down' = <<>> /\ up' = <<>>
  /\ UNCHANGED <<routeVars, recordVars, queueVars, brokerVars, shellVars,
                 arrivedFrames>>

Redial ==
  /\ ~online /\ online' = TRUE
  /\ UNCHANGED <<down, up, cuts, routeVars, recordVars, queueVars, brokerVars,
                 shellVars, arrivedFrames>>

TerminalNext ==
  \/ \E s \in Sessions :
       \/ Reserve(s) \/ CreateRecord(s) \/ SendOpen(s)
       \/ GiveUp(s) \/ CloseGivenUp(s)
       \/ Subscribe(s) \/ StreamEvent(s)
       \/ \E i \in DOMAIN queues[s] : DrainOutput(s, i)
       \/ \E i \in DOMAIN queues[s] : DrainClosed(s, i)
       \/ \E i \in DOMAIN queues[s] : DrainStop(s, i)
       \/ OpenTerminal(s) \/ ShellOutput(s) \/ ShellEnd(s)
  \/ ServerReceiveEvent \/ ServerReceiveRejection
  \/ WorkerReceiveOpen \/ WorkerReceiveClose
  \/ Cut \/ Redial

TerminalSpec == TerminalInit /\ [][TerminalNext]_terminalVars

(***************************************************************************)
(* Properties                                                              *)
(***************************************************************************)

Queued(s) == IF current[s] = 0 THEN <<>> ELSE queues[s][current[s]].items
IsChunk(e) == e # Closed

\* Until somebody gives the session up, every event the server accepted is
\* shown in the browser or on its way there, once and in the order in which
\* it arrived: nothing published before the stream attached is lost
\* (termstream's pending buffer), and no chunk overtakes another or the
\* closed event (the per-session queue).  A stream that fell MaxPending
\* events behind may miss some.
NothingIsLost ==
  \A s \in tracked : Len(arrivedFrames[s]) <= MaxPending =>
    received[s] \o channel[s] \o buffered[s] \o Queued(s) = arrivedFrames[s]

\* A transcript that is still being written holds exactly the output that the
\* queue has handed on: AppendTranscript never writes to a file that
\* CloseRecord closed and skips nothing before.
TranscriptIsComplete ==
  \A s \in tracked \cap recording :
    transcript[s] \o SelectSeq(Queued(s), IsChunk)
      = SelectSeq(arrivedFrames[s], IsChunk)

\* Never more sessions than the worker's limit, however many open requests
\* race (reserveTerminalSession counts and inserts under one lock).
SessionsAreCapped == Cardinality(tracked) <= SessionLimit

\* A session row shown as open is closed in the end, whatever is lost: by the
\* worker's report, by a rejection, by a failed send, or by the sweeper.
RowsAreClosed ==
  \A s \in Sessions : row[s] = "open" ~> row[s] = "closed"

\* A session is served: no event of it is lost on its way to the browser or the
\* transcript, the worker's limit holds, and its row is closed in the end.
SessionsAreServed ==
  /\ [](TerminalTypeOK /\ NothingIsLost /\ TranscriptIsComplete /\ SessionsAreCapped)
  /\ RowsAreClosed
=============================================================================
