----------------------------- MODULE LinkProofs -----------------------------
(***************************************************************************)
(* Proofs about the command path between server and worker: types, at most *)
(* one execution, honest rows and the registration of the live session,    *)
(* for any number of commands, connections, retries and crashes.           *)
(***************************************************************************)
EXTENDS WorkerLink, FiniteSetTheorems, TLAPS

\* The outbox is finite, so that a flush can send it in order.
LinkTypeInv == TypeOK /\ IsFiniteSet(spool)

USE ConstantsAssumption DEF Epochs

\* What is read from a channel is a message, and what is left is a channel.
LEMMA Received ==
  ASSUME NEW S, NEW s \in Seq(S), s # <<>>
  PROVE  Head(s) \in S /\ Tail(s) \in Seq(S)
OBVIOUS

\* What is written to a channel leaves a channel.
LEMMA Sent ==
  ASSUME NEW S, NEW s \in Seq(S), NEW t \in Seq(S)
  PROVE  s \o t \in Seq(S)
OBVIOUS

\* A channel of some messages is a channel of more.
LEMMA Widened ==
  ASSUME NEW S, NEW T, S \subseteq T, NEW s \in Seq(S)
  PROVE  s \in Seq(T)
OBVIOUS

\* One message is a channel's worth.
LEMMA Single == ASSUME NEW S, NEW x \in S PROVE <<x>> \in Seq(S)
OBVIOUS

\* conn.WriteMessage of a message of the server leaves a channel.
LEMMA WrittenType ==
  ASSUME TypeOK, NEW e, NEW m \in DownMsgs
  PROVE  Written(e, m) \in Seq(DownMsgs)
BY DEF TypeOK, Written

\* A flush sends results from the outbox.
LEMMA FlushedType ==
  ASSUME LinkTypeInv, NEW S, NEW s \in SpoolOrder,
         \A m \in spool : ResultMsg(m) \in S
  PROVE  [i \in DOMAIN s |-> ResultMsg(s[i])] \in Seq(S)
<1>1. Cardinality(spool) \in Nat  BY FS_CardinalityType, Zenon DEF LinkTypeInv
<1>2. s \in [1 .. Cardinality(spool) -> spool]  BY Zenon DEF SpoolOrder
<1> QED BY <1>1, <1>2

\* Initially everything is empty.
LEMMA LinkTypeInit == Init => LinkTypeInv
<1> SUFFICES ASSUME Init PROVE LinkTypeInv  BY Zenon
<1>1. IsFiniteSet(spool)  BY FS_EmptySet, Zenon DEF Init
<1> QED
  BY <1>1 DEF LinkTypeInv, Init, TypeOK, CallerSteps, Results, NoResult, RowStatus,
     Terminal, DownMsgs, UpMsgs, Spooled

\* SendResult stores a result and sends it after what was sent before.
LEMMA SendResultType ==
  ASSUME LinkTypeInv, NEW c \in Commands, NEW r \in Results, NEW before \in Seq(UpMsgs),
         SendResult(c, r, before)
  PROVE  /\ spool' \subseteq Spooled /\ IsFiniteSet(spool') /\ nextMsg' \in Nat
         /\ up' \in [Epochs -> Seq(UpMsgs)]
<1> DEFINE m == [id |-> nextMsg, cmd |-> c, res |-> r]
<1>1. m \in Spooled  BY Zenon DEF LinkTypeInv, TypeOK, Spooled
<1>2. spool' = spool \cup {m} /\ nextMsg' = nextMsg + 1
  BY Zenon DEF SendResult
<1>3. IsFiniteSet(spool')  BY <1>2, FS_AddElement, Zenon DEF LinkTypeInv
<1>4. ResultMsg(m) \in UpMsgs  BY Zenon DEF LinkTypeInv, TypeOK, ResultMsg, UpMsgs
<1>5. \A e \in Epochs : up[e] \o before \o <<ResultMsg(m)>> \in Seq(UpMsgs)
  <2> TAKE e \in Epochs
  <2>1. up[e] \in Seq(UpMsgs)  BY Zenon DEF LinkTypeInv, TypeOK
  <2>2. up[e] \o before \in Seq(UpMsgs)  BY <2>1, Sent, Zenon
  <2> QED BY <2>2, <1>4, Sent, Single, Zenon
<1>6. up' \in [Epochs -> Seq(UpMsgs)]
  BY <1>5, Zenon DEF LinkTypeInv, TypeOK, SendResult
<1> QED BY <1>1, <1>2, <1>3, <1>6 DEF LinkTypeInv, TypeOK

\* A message appended to what a session sent leaves a channel.
LEMMA UpAppended ==
  ASSUME LinkTypeInv, NEW e, NEW ms \in Seq(UpMsgs), up' = [up EXCEPT ![e] = @ \o ms]
  PROVE  up' \in [Epochs -> Seq(UpMsgs)]
<1>1. \A k \in Epochs : up[k] \o ms \in Seq(UpMsgs)  BY Sent, Zenon DEF LinkTypeInv, TypeOK
<1> QED BY <1>1, Zenon DEF LinkTypeInv, TypeOK

\* A flush adds to a channel nothing but results from the outbox.
LEMMA FlushType ==
  ASSUME LinkTypeInv, NEW S, up \in [Epochs -> Seq(S)], NEW e, NEW before \in Seq(S),
         FlushPersistentMessages(e, before), \A m \in spool : ResultMsg(m) \in S
  PROVE  up' \in [Epochs -> Seq(S)]
<1>1. PICK s \in SpoolOrder :
        up' = [up EXCEPT ![e] = before \o [i \in DOMAIN s |-> ResultMsg(s[i])]]
  BY Zenon DEF FlushPersistentMessages
<1>2. [i \in DOMAIN s |-> ResultMsg(s[i])] \in Seq(S)  BY FlushedType, Zenon
<1>3. before \o [i \in DOMAIN s |-> ResultMsg(s[i])] \in Seq(S)  BY <1>2, Sent, Zenon
<1> QED BY <1>1, <1>3, Zenon

\* A row of worker_commands.
Rows == [status : RowStatus, count : Nat]

\* Setting the status of a row, or writing it anew, leaves rows.
LEMMA RowType ==
  ASSUME TypeOK, NEW c \in Commands
  PROVE  /\ row[c].count \in Nat /\ Dispatched(c) \in Rows
         /\ [row EXCEPT ![c] = Dispatched(c)] \in [Commands -> Rows]
         /\ \A st \in RowStatus : /\ [row[c] EXCEPT !.status = st] \in Rows
                                 /\ [row EXCEPT ![c].status = st] \in [Commands -> Rows]
<1>1. row \in [Commands -> Rows] /\ row[c] \in Rows  BY Zenon DEF TypeOK, Rows
<1>2. row[c].count \in Nat  BY <1>1, Zenon DEF Rows
<1>3. Dispatched(c) \in Rows  BY <1>2 DEF Dispatched, Rows, RowStatus
<1>4. ASSUME NEW st \in RowStatus PROVE [row[c] EXCEPT !.status = st] \in Rows
  BY <1>1, Zenon DEF Rows
<1> QED BY <1>1, <1>2, <1>3, <1>4, Zenon

\* An empty channel of a call is a result too.
LEMMA NoResultType == NoResult \in Results
BY Zenon DEF NoResult, Results

\* The calls of Dispatch keep the types.
LEMMA CallerTypes ==
  ASSUME LinkTypeInv, NEW c \in Commands, CallerStep(c) \/ GiveUp(c)
  PROVE  LinkTypeInv'
<1> USE DEF Goto, SetStatus, outside, worker, bounds, handlers
<1>1. /\ [row EXCEPT ![c] = Dispatched(c)] \in [Commands -> Rows]
      /\ \A st \in RowStatus : [row EXCEPT ![c].status = st] \in [Commands -> Rows]
      /\ row[c].count + 1 \in Nat
  BY RowType DEF LinkTypeInv
<1>2. {"queued", "error", "success", "timed_out"} \subseteq RowStatus
  BY Zenon DEF RowStatus, Terminal
<1>3. CASE LookUp(c)  BY <1>3, Zenon DEF LinkTypeInv, TypeOK, CallerSteps, LookUp
<1>4. CASE Register(c)
  BY <1>4, Zenon DEF LinkTypeInv, TypeOK, CallerSteps, Register, Results, NoResult
<1>5. CASE LogStart(c)
  <2>1. row' \in [Commands -> Rows]  BY <1>1, <1>2, <1>5, Zenon DEF LogStart
  <2>2. \/ message' = message
        \/ message' = [message EXCEPT ![c] = row[c].count + 1]
    BY <1>5, Zenon DEF LogStart
  <2>3. message' \in [Commands -> Nat]  BY <1>1, <2>2, Zenon DEF LinkTypeInv, TypeOK
  <2> QED BY <1>5, <2>1, <2>3, Zenon DEF LogStart, LinkTypeInv, TypeOK, CallerSteps, Rows
<1>6. CASE Write(c)
  <2>1. CommandMsg(c, message[c]) \in DownMsgs
    BY Zenon DEF LinkTypeInv, TypeOK, CommandMsg, DownMsgs
  <2>2. Written(snapshot[c], CommandMsg(c, message[c])) \in Seq(DownMsgs)
    BY <2>1, WrittenType, Zenon DEF LinkTypeInv
  <2>3. row' = row \/ \E st \in {"queued", "error"} : row' = [row EXCEPT ![c].status = st]
    BY <1>6, Zenon DEF Write
  <2>4. row \in [Commands -> Rows]  BY Zenon DEF LinkTypeInv, TypeOK, Rows
  <2>5. row' \in [Commands -> Rows]  BY <1>1, <1>2, <2>3, <2>4
  <2> QED BY <1>6, <2>2, <2>5, Zenon DEF Write, LinkTypeInv, TypeOK, CallerSteps, Rows
<1>7. CASE TakeResult(c)  BY <1>7, Zenon DEF TakeResult, LinkTypeInv, TypeOK, CallerSteps
<1>8. CASE GiveUp(c)  BY <1>8, Zenon DEF GiveUp, LinkTypeInv, TypeOK, CallerSteps
<1>9. CASE LogCommandFinish(c)
  <2>1. \E st \in {"success", "error", "timed_out"} : row' = [row EXCEPT ![c].status = st]
    BY <1>9, Zenon DEF LogCommandFinish
  <2>2. row' \in [Commands -> Rows]  BY <1>1, <1>2, <2>1
  <2>3. chan' = chan \/ chan' = [chan EXCEPT ![c] = NoResult]
    BY <1>9, Zenon DEF LogCommandFinish
  <2>4. chan' \in [Commands -> Results]
    BY <2>3, NoResultType, Zenon DEF LinkTypeInv, TypeOK
  <2> QED BY <1>9, <2>2, <2>4, Zenon DEF LogCommandFinish, LinkTypeInv, TypeOK, CallerSteps, Rows
<1>10. CASE Unregister(c)  BY <1>10, Zenon DEF Unregister, LinkTypeInv, TypeOK, CallerSteps
<1>11. CASE Retry(c)
  <2>1. attempt' \in [Commands -> 1 .. MaxAttempts]  BY <1>11 DEF Retry, LinkTypeInv, TypeOK
  <2> QED BY <1>11, <2>1, Zenon DEF Retry, LinkTypeInv, TypeOK, CallerSteps
<1> QED
  BY <1>3, <1>4, <1>5, <1>6, <1>7, <1>8, <1>9, <1>10, <1>11, Zenon DEF CallerStep

\* A connection's handler keeps the types.
LEMMA HandlerTypes ==
  ASSUME LinkTypeInv, NEW e \in Epochs, HandlerStep(e)
  PROVE  LinkTypeInv'
<1> USE DEF dispatch, worker, bounds, handlers
<1>0. <<>> \in Seq(UpMsgs) /\ <<>> \in Seq(DownMsgs) /\ 0 \in 0 .. MaxEpochs  OBVIOUS
<1>1. CASE RegisterConn(e)
  <2>1. up' \in [Epochs -> Seq(UpMsgs)]
    BY <1>0, <1>1, Zenon DEF RegisterConn, LinkTypeInv, TypeOK
  <2>2. (session' = 0 /\ down' = <<>>) \/ (session' = session /\ down' = down)
    BY <1>1, Zenon DEF RegisterConn
  <2>3. session' \in 0 .. MaxEpochs /\ down' \in Seq(DownMsgs)
    BY <1>0, <2>2, Zenon DEF LinkTypeInv, TypeOK
  <2>4. conn' \in 0 .. MaxEpochs  BY <1>1 DEF RegisterConn
  <2>5. handler' \in [Epochs -> {"none", "registered", "replaying", "reading", "closed"}]
    BY <1>1, Zenon DEF RegisterConn, LinkTypeInv, TypeOK
  <2> QED BY <1>1, <2>1, <2>3, <2>4, <2>5, Zenon DEF RegisterConn, LinkTypeInv, TypeOK
<1>2. CASE CollectReplay(e)  BY <1>2, Zenon DEF CollectReplay, LinkTypeInv, TypeOK
<1>3. CASE StartReading(e)  BY <1>3, Zenon DEF StartReading, LinkTypeInv, TypeOK
<1>4. ASSUME NEW c \in Commands, Replay(e, c) PROVE LinkTypeInv'
  <2>1. row[c].count \in Nat  BY RowType, Zenon DEF LinkTypeInv
  <2>2. CommandMsg(c, row[c].count + 1) \in DownMsgs  BY <2>1 DEF CommandMsg, DownMsgs
  <2>3. Written(e, CommandMsg(c, row[c].count + 1)) \in Seq(DownMsgs)
    BY <2>2, WrittenType, Zenon DEF LinkTypeInv
  <2>4. row' \in [Commands -> Rows]  BY <1>4, RowType, Zenon DEF Replay, LinkTypeInv
  <2> QED BY <1>4, <2>3, <2>4, Zenon DEF Replay, Rows, LinkTypeInv, TypeOK
<1>5. CASE ReadAck(e)
  <2>1. up[e] \in Seq(UpMsgs) /\ up[e] # <<>>
    BY <1>5, Zenon DEF ReadAck, Reads, LinkTypeInv, TypeOK
  <2>2. Head(up[e]) \in UpMsgs /\ Tail(up[e]) \in Seq(UpMsgs)  BY <2>1, Received, Zenon
  <2>3. up' \in [Epochs -> Seq(UpMsgs)]
    BY <1>5, <2>2, Zenon DEF ReadAck, Reads, LinkTypeInv, TypeOK
  <2>4. Head(up[e]).cmd \in Commands  BY <2>2, Zenon DEF UpMsgs
  <2>5. acking' \in [Epochs -> SUBSET Commands]
    BY <1>5, <2>4 DEF ReadAck, LinkTypeInv, TypeOK
  <2> QED BY <1>5, <2>3, <2>5, Zenon DEF ReadAck, LinkTypeInv, TypeOK
<1>6. CASE SaveAck(e)
  <2>1. "acked" \in RowStatus  BY Zenon DEF RowStatus
  <2>2. row \in [Commands -> Rows]  BY Zenon DEF LinkTypeInv, TypeOK, Rows
  <2>3. row' \in [Commands -> Rows]  BY <1>6, <2>1, <2>2, Zenon DEF SaveAck, Rows
  <2> QED BY <1>6, <2>3, Zenon DEF SaveAck, Rows, LinkTypeInv, TypeOK
<1>7. CASE ReadResult(e)
  <2>1. up[e] \in Seq(UpMsgs) /\ up[e] # <<>> /\ Head(up[e]).type = "result"
    BY <1>7, Zenon DEF ReadResult, Reads, LinkTypeInv, TypeOK
  <2>2. Head(up[e]) \in UpMsgs /\ Tail(up[e]) \in Seq(UpMsgs)  BY <2>1, Received, Zenon
  <2>3. up' \in [Epochs -> Seq(UpMsgs)]
    BY <1>7, <2>2, Zenon DEF ReadResult, Reads, LinkTypeInv, TypeOK
  <2>4. /\ Head(up[e]).id \in Nat /\ Head(up[e]).cmd \in Commands
        /\ Head(up[e]).res \in Results
    BY <2>1, <2>2, Zenon DEF UpMsgs
  <2>5. AckMsg(Head(up[e]).id) \in DownMsgs  BY <2>4, Zenon DEF AckMsg, DownMsgs
  <2>6. Written(conn, AckMsg(Head(up[e]).id)) \in Seq(DownMsgs)
    BY <2>5, WrittenType, Zenon DEF LinkTypeInv
  <2>7. down' \in Seq(DownMsgs)  BY <1>7, <2>6, Zenon DEF ReadResult, LinkTypeInv, TypeOK
  <2>8. chan' \in [Commands -> Results]
    BY <1>7, <2>4, Zenon DEF ReadResult, LinkTypeInv, TypeOK
  <2>9. seen' \subseteq Nat  BY <1>7, <2>4, Zenon DEF ReadResult, LinkTypeInv, TypeOK
  <2> QED BY <1>7, <2>3, <2>7, <2>8, <2>9, Zenon DEF ReadResult, LinkTypeInv, TypeOK
<1>8. CASE Disconnect(e)
  <2>1. up' \in [Epochs -> Seq(UpMsgs)]
    BY <1>0, <1>8, Zenon DEF Disconnect, LinkTypeInv, TypeOK
  <2> QED BY <1>8, <2>1 DEF Disconnect, LinkTypeInv, TypeOK
<1> QED BY <1>1, <1>2, <1>3, <1>4, <1>5, <1>6, <1>7, <1>8, Zenon DEF HandlerStep

\* The worker keeps the types.
LEMMA WorkerTypes ==
  ASSUME LinkTypeInv, WorkerStep \/ FlushTick \/ \E c \in Commands : ExecFinish(c)
  PROVE  LinkTypeInv'
<1> USE DEF dispatch, handlers, server, worker, bounds
<1>0. <<>> \in Seq(UpMsgs)  OBVIOUS
<1>f. ASSUME NEW m \in spool PROVE ResultMsg(m) \in UpMsgs
  <2>1. m \in Spooled  BY Zenon DEF LinkTypeInv, TypeOK
  <2> QED BY <2>1, Zenon DEF Spooled, ResultMsg, UpMsgs
<1>u. up \in [Epochs -> Seq(UpMsgs)]  BY Zenon DEF LinkTypeInv, TypeOK
<1>1. CASE Dial
  <2>1. up' \in [Epochs -> Seq(UpMsgs)]  BY <1>0, <1>f, <1>u, <1>1, FlushType, Zenon DEF Dial
  <2>2. session' \in 0 .. MaxEpochs /\ dialed' \in 0 .. MaxEpochs
    BY <1>1 DEF Dial, LinkTypeInv, TypeOK
  <2> QED BY <1>1, <2>1, <2>2, Zenon DEF Dial, LinkTypeInv, TypeOK
<1>2. CASE FlushTick
  <2>1. up[session] \in Seq(UpMsgs)  BY <1>2 DEF FlushTick, LinkTypeInv, TypeOK
  <2>2. up' \in [Epochs -> Seq(UpMsgs)]  
    BY <1>f, <1>u, <1>2, <2>1, FlushType, Zenon DEF FlushTick
  <2> QED BY <1>2, <2>2, Zenon DEF FlushTick, LinkTypeInv, TypeOK
<1>3. CASE ReceiveAck
  <2>1. down' \in Seq(DownMsgs)  BY <1>3, Received, Zenon DEF ReceiveAck, LinkTypeInv, TypeOK
  <2>2. spool' \in SUBSET spool  BY <1>3, Zenon DEF ReceiveAck
  <2>3. IsFiniteSet(spool')  BY <2>2, FS_Subset, Zenon DEF LinkTypeInv
  <2> QED BY <1>3, <2>1, <2>2, <2>3, Zenon DEF ReceiveAck, LinkTypeInv, TypeOK
<1>4. CASE ReceiveCommand
  <2> DEFINE m == Head(down)
             c == m.cmd
             ack == IF c \in Durable
                    THEN <<[type |-> "ack", cmd |-> c, count |-> m.count]>> ELSE <<>>
  <2>1. down # <<>> /\ m.type = "command"  BY <1>4, Zenon DEF ReceiveCommand
  <2>2. m \in DownMsgs /\ Tail(down) \in Seq(DownMsgs)
    BY <2>1, Received, Zenon DEF LinkTypeInv, TypeOK
  <2>3. c \in Commands /\ m.count \in Nat  BY <2>1, <2>2, Zenon DEF DownMsgs
  <2>4. [type |-> "ack", cmd |-> c, count |-> m.count] \in UpMsgs  BY <2>3, Zenon DEF UpMsgs
  <2>5. ack \in Seq(UpMsgs)  BY <1>0, <2>4, Single, Zenon
  <2>6. cached[c] \in Results  BY <2>3, Zenon DEF LinkTypeInv, TypeOK
  <2>7. CASE SendResult(c, cached[c], ack) /\ UNCHANGED <<running, execs>>
    <3>1. /\ spool' \subseteq Spooled /\ IsFiniteSet(spool') /\ nextMsg' \in Nat
          /\ up' \in [Epochs -> Seq(UpMsgs)]
      <4> HIDE DEF ack, c
      <4> QED BY <2>3, <2>5, <2>6, <2>7, SendResultType, Zenon
    <3> QED BY <1>4, <2>2, <2>7, <3>1, Zenon DEF ReceiveCommand, LinkTypeInv, TypeOK
  <2>8. CASE /\ up' = [up EXCEPT ![session] = @ \o ack]
             /\ UNCHANGED <<running, execs, spool, nextMsg>>
    <3>1. up' \in [Epochs -> Seq(UpMsgs)]
      <4> HIDE DEF ack
      <4> QED BY <2>5, <2>8, UpAppended, Zenon
    <3> QED BY <1>4, <2>2, <2>8, <3>1, Zenon DEF ReceiveCommand, LinkTypeInv, TypeOK
  <2>9. CASE /\ execs' = [execs EXCEPT ![c] = @ + 1]
             /\ running' = [running EXCEPT ![c] = @ \cup {<<execs[c] + 1, attempt[c]>>}]
             /\ up' = [up EXCEPT ![session] = @ \o ack]
             /\ UNCHANGED <<spool, nextMsg>>
    <3>1. up' \in [Epochs -> Seq(UpMsgs)]
      <4> HIDE DEF ack
      <4> QED BY <2>5, <2>9, UpAppended, Zenon
    <3>2. <<execs[c] + 1, attempt[c]>> \in Nat \X Nat
      <4> HIDE DEF c
      <4>1. execs[c] \in Nat /\ attempt[c] \in 1 .. MaxAttempts
        BY <2>3, Zenon DEF LinkTypeInv, TypeOK
      <4> QED BY <4>1
    <3>3. execs' \in [Commands -> Nat] /\ running' \in [Commands -> SUBSET (Nat \X Nat)]
      <4> HIDE DEF c
      <4> QED BY <2>3, <2>9, <3>2, Zenon DEF LinkTypeInv, TypeOK
    <3> QED BY <1>4, <2>2, <2>9, <3>1, <3>3, Zenon DEF ReceiveCommand, LinkTypeInv, TypeOK
  <2> QED BY <1>4, <2>7, <2>8, <2>9, Zenon DEF ReceiveCommand
<1>5. ASSUME NEW c \in Commands, ExecFinish(c) PROVE LinkTypeInv'
  <2>1. PICK x \in running[c], ok \in BOOLEAN :
          /\ running' = [running EXCEPT ![c] = @ \ {x}]
          /\ cached' = IF c \in Durable
                       THEN [cached EXCEPT ![c] = [exec |-> x[1], during |-> x[2], ok |-> ok]]
                       ELSE cached
          /\ SendResult(c, [exec |-> x[1], during |-> x[2], ok |-> ok], <<>>)
          /\ UNCHANGED <<row, down, session, execs, server, bounds>>
    BY <1>5, Zenon DEF ExecFinish
  <2> DEFINE r == [exec |-> x[1], during |-> x[2], ok |-> ok]
  <2>2. x \in Nat \X Nat  BY Zenon DEF LinkTypeInv, TypeOK
  <2>3. r \in Results  BY <2>2, Zenon DEF Results
  <2>4. /\ spool' \subseteq Spooled /\ IsFiniteSet(spool') /\ nextMsg' \in Nat
        /\ up' \in [Epochs -> Seq(UpMsgs)]
    <3>1. SendResult(c, r, <<>>)  BY <2>1, Zenon
    <3> HIDE DEF r
    <3> QED BY <1>0, <2>3, <3>1, SendResultType, Zenon
  <2>5. cached' \in [Commands -> Results]  BY <2>1, <2>3, Zenon DEF LinkTypeInv, TypeOK
  <2>6. running' \in [Commands -> SUBSET (Nat \X Nat)]  BY <2>1, Zenon DEF LinkTypeInv, TypeOK
  <2> HIDE DEF r
  <2> QED BY <2>1, <2>4, <2>5, <2>6, Zenon DEF LinkTypeInv, TypeOK
<1> QED BY <1>1, <1>2, <1>3, <1>4, <1>5, Zenon DEF WorkerStep

\* Faults keep the types.
LEMMA FaultTypes ==
  ASSUME LinkTypeInv, Break \/ WorkerCrash \/ ServerRestart
  PROVE  LinkTypeInv'
<1> USE DEF dispatch, handlers, server, worker, bounds
<1>0. /\ <<>> \in Seq(UpMsgs) /\ <<>> \in Seq(DownMsgs) /\ 0 \in 0 .. MaxEpochs
      /\ NoResult \in Results
  BY NoResultType
<1>1. CASE Break  BY <1>0, <1>1, Zenon DEF Break, LinkTypeInv, TypeOK
<1>2. CASE WorkerCrash  BY <1>0, <1>2 DEF WorkerCrash, LinkTypeInv, TypeOK
<1>3. CASE ServerRestart
  <2>1. row \in [Commands -> Rows]  BY Zenon DEF LinkTypeInv, TypeOK, Rows
  <2>2. \A r \in Rows : RecoverRow(r) \in Rows
    BY Zenon DEF RecoverRow, Rows, RowStatus, Terminal
  <2>3. row' \in [Commands -> Rows]  BY <1>3, <2>1, <2>2, Zenon DEF ServerRestart
  <2>4. attempt' \in [Commands -> 1 .. MaxAttempts]
    BY <1>3 DEF ServerRestart, LinkTypeInv, TypeOK
  <2>5. caller' \in [Commands -> CallerSteps]
    BY <1>3, Zenon DEF ServerRestart, LinkTypeInv, TypeOK, CallerSteps
  <2>6. restarts' \in 0 .. MaxCrashes  BY <1>3 DEF ServerRestart, LinkTypeInv, TypeOK
  <2> QED
    BY <1>0, <1>3, <2>3, <2>4, <2>5, <2>6, Zenon DEF ServerRestart, LinkTypeInv, TypeOK, Rows
<1> QED BY <1>1, <1>2, <1>3, Zenon

\* The types hold throughout.
LEMMA LinkTypeHolds == Spec => []LinkTypeInv
<1>1. LinkTypeInv /\ [Next]_vars => LinkTypeInv'
  <2> SUFFICES ASSUME LinkTypeInv, [Next]_vars PROVE LinkTypeInv'  BY Zenon
  <2>1. CASE UNCHANGED vars
    BY <2>1, Zenon DEF LinkTypeInv, TypeOK, vars, dispatch, handlers, outside, worker, bounds
  <2> QED BY <2>1, CallerTypes, HandlerTypes, WorkerTypes, FaultTypes, Zenon DEF Next
<1> QED BY <1>1, LinkTypeInit, PTL DEF Spec

\* The records, channels, rows and messages of the link keep their types, and
\* a deploy is attempted at most MaxAttempts times (the retry loop of
\* ReconcileStack), for any number of commands and connections.
THEOREM LinkTypeCorrect == Spec => []TypeOK
<1>1. LinkTypeInv => TypeOK  BY Zenon DEF LinkTypeInv
<1> QED BY <1>1, LinkTypeHolds, PTL

-----------------------------------------------------------------------------
\* Registration.  An epoch that was not dialed has no handler, and a handler
\* of the live session that has registered is the registered one.
SessionInv ==
  /\ \A e \in Epochs : dialed < e => handler[e] = "none"
  /\ session # 0 /\ handler[session] \in {"registered", "replaying", "reading"}
       => conn = session

\* Every step keeps the registration of the live session.
LEMMA SessionStep ==
  ASSUME LinkTypeInv, SessionInv, [Next]_vars
  PROVE  SessionInv'
<1>0. /\ handler \in [Epochs -> {"none", "registered", "replaying", "reading", "closed"}]
      /\ session \in 0 .. MaxEpochs /\ dialed \in 0 .. MaxEpochs
  BY Zenon DEF LinkTypeInv, TypeOK
<1> USE DEF SessionInv
<1>1. ASSUME NEW c \in Commands, CallerStep(c) \/ GiveUp(c) \/ ExecFinish(c)
      PROVE  UNCHANGED <<session, handler, dialed, conn>>
  BY <1>1, Zenon DEF CallerStep, GiveUp, ExecFinish, LookUp, Register, LogStart, Write, TakeResult,
     LogCommandFinish, Unregister, Retry, outside, worker, bounds, handlers, server
<1>2. ASSUME NEW e \in Epochs, RegisterConn(e) PROVE SessionInv'
  <2>1. e <= dialed /\ dialed' = dialed  BY <1>2, Zenon DEF RegisterConn, bounds
  <2>2. handler' = [handler EXCEPT ![e] = "registered"] /\ conn' = e
    BY <1>2, Zenon DEF RegisterConn
  <2>3. session' = 0 \/ (session' = session /\ ~(conn # 0 /\ conn = session))
    BY <1>2, Zenon DEF RegisterConn
  <2> QED BY <1>0, <2>1, <2>2, <2>3
<1>3. ASSUME NEW e \in Epochs, CollectReplay(e) \/ StartReading(e) PROVE SessionInv'
  BY <1>0, <1>3 DEF CollectReplay, StartReading, worker, bounds
<1>4. ASSUME NEW e \in Epochs,
             (\E c \in Commands : Replay(e, c)) \/ ReadAck(e) \/ SaveAck(e) \/ ReadResult(e)
      PROVE  UNCHANGED <<session, handler, dialed, conn>>
  BY <1>4, Zenon DEF Replay, ReadAck, SaveAck, ReadResult, worker, bounds, handlers
<1>5. ASSUME NEW e \in Epochs, Disconnect(e) PROVE SessionInv'
  BY <1>0, <1>5 DEF Disconnect, worker, bounds
<1>6. CASE Dial  BY <1>0, <1>6 DEF Dial, server, handlers
<1>7. CASE FlushTick \/ ReceiveAck \/ ReceiveCommand
  <2>1. UNCHANGED <<session, handler, dialed, conn>>
    BY <1>7, Zenon DEF FlushTick, ReceiveAck, ReceiveCommand, server, worker, bounds, handlers
  <2> QED BY <2>1, Zenon
<1>8. CASE Break \/ WorkerCrash
  BY <1>8, Zenon DEF Break, WorkerCrash, server, bounds, handlers
<1>9. CASE ServerRestart  BY <1>0, <1>9 DEF ServerRestart
<1>10. CASE UNCHANGED vars  BY <1>10, Zenon DEF vars, outside, handlers, worker, bounds
<1> QED BY <1>1, <1>2, <1>3, <1>4, <1>5, <1>6, <1>7, <1>8, <1>9, <1>10, Zenon
        DEF Next, HandlerStep, WorkerStep

\* The worker's live session stays the connection that commands are sent on,
\* however the handlers of old and new connections interleave
\* (handleWebSocket), for any number of connections and crashes.
THEOREM LinkSessionStays == Spec => []LiveSessionStaysRegistered
<1>1. Init => SessionInv  BY DEF Init, SessionInv
<1>2. SessionInv => LiveSessionStaysRegistered
  BY Zenon DEF SessionInv, LiveSessionStaysRegistered
<1> QED BY <1>1, <1>2, SessionStep, LinkTypeHolds, PTL DEF Spec

-----------------------------------------------------------------------------
\* At most one execution.  As long as the worker lives, every result of a
\* durable command, wherever it is, is the one the worker has cached.
Told ==
  {m \in UpMsgs : crashes = 0 /\ m.type = "result" /\ m.cmd \in Durable
                    => m.res # NoResult /\ m.res = cached[m.cmd]}

\* The worker's side: the duplicate gate, which an execution has to pass, is
\* closed by a run in progress and then by the cached result.
GateInv(c) ==
  /\ execs[c] <= 1
  /\ running[c] = {} /\ cached[c] = NoResult => execs[c] = 0
  /\ running[c] # {} => cached[c] = NoResult
  /\ \A x, y \in running[c] : x = y /\ x[1] # 0
  /\ \A m \in spool : m.cmd = c => m.res # NoResult /\ m.res = cached[c]

\* The server's side: what the call was handed, and what the row says.
AnswerInv(c) ==
  /\ chan[c] \in {NoResult, cached[c]}
  /\ row[c].status = "success" => cached[c].ok

OnceInv ==
  /\ crashes = 0 => \A c \in Durable : GateInv(c) /\ AnswerInv(c)
  /\ up \in [Epochs -> Seq(Told)]

\* A step of a call of Dispatch.
LEMMA CallerOnce ==
  ASSUME LinkTypeInv, OnceInv, crashes = 0, NEW k \in Commands, CallerStep(k) \/ GiveUp(k)
  PROVE  OnceInv'
<1> USE DEF Goto, SetStatus, outside, worker, bounds, handlers
<1>1. UNCHANGED <<running, execs, cached, spool, up, crashes>>
  BY Zenon DEF CallerStep, GiveUp, LookUp, Register, LogStart, Write, TakeResult,
     LogCommandFinish, Unregister, Retry
<1>2. Told' = Told  BY <1>1, Zenon DEF Told
<1>3. \A c \in Durable : GateInv(c) => GateInv(c)'  BY <1>1, Zenon DEF GateInv
<1>4. row \in [Commands -> Rows] /\ chan \in [Commands -> Results] /\ ~NoResult.ok
  BY Zenon DEF LinkTypeInv, TypeOK, Rows, NoResult
<1>5. chan' = chan \/ chan' = [chan EXCEPT ![k] = NoResult]
  BY Zenon DEF CallerStep, GiveUp, LookUp, Register, LogStart, Write, TakeResult,
     LogCommandFinish, Unregister, Retry
<1>6. \A c \in Durable : row'[c].status = "success" =>
        row[c].status = "success" \/ chan[c].ok
  <2>1. CASE LogCommandFinish(k)
    BY <1>4, <2>1 DEF LogCommandFinish, Rows
  <2>2. CASE LogStart(k) \/ Write(k)
    BY <1>4, <2>2 DEF LogStart, Write, Dispatched, Rows
  <2>3. CASE LookUp(k) \/ Register(k) \/ TakeResult(k) \/ GiveUp(k) \/ Unregister(k) \/ Retry(k)
    BY <2>3, Zenon DEF LookUp, Register, TakeResult, GiveUp, Unregister, Retry
  <2> QED BY <2>1, <2>2, <2>3, Zenon DEF CallerStep
<1>7. ASSUME NEW c \in Durable, AnswerInv(c) PROVE AnswerInv(c)'
  BY <1>1, <1>4, <1>5, <1>6, <1>7, Zenon DEF AnswerInv
<1> QED BY <1>1, <1>2, <1>3, <1>7, Zenon DEF OnceInv

\* A step of a connection's handler.
LEMMA HandlerOnce ==
  ASSUME LinkTypeInv, OnceInv, crashes = 0, NEW e \in Epochs, HandlerStep(e)
  PROVE  OnceInv'
<1> USE DEF dispatch, worker, bounds, handlers
<1>1. UNCHANGED <<running, execs, cached, spool, crashes>>
  BY Zenon DEF HandlerStep, RegisterConn, CollectReplay, StartReading, Replay, ReadAck, SaveAck,
     ReadResult, Disconnect
<1>2. Told' = Told  BY <1>1, Zenon DEF Told
<1>3. \A c \in Durable : GateInv(c) => GateInv(c)'  BY <1>1, Zenon DEF GateInv
<1>4. row \in [Commands -> Rows] /\ chan \in [Commands -> Results]
  BY Zenon DEF LinkTypeInv, TypeOK, Rows
<1>5. \A c \in Commands : row'[c].status = "success" => row[c].status = "success"
  <2>1. ASSUME NEW c \in Commands, Replay(e, c)
        PROVE  \A d \in Commands : row'[d].status = "success" => row[d].status = "success"
    BY <1>4, <2>1, Zenon DEF Replay, Dispatched, Rows
  <2>2. CASE SaveAck(e)  BY <1>4, <2>2, Zenon DEF SaveAck, Rows
  <2>3. CASE \/ RegisterConn(e) \/ CollectReplay(e) \/ StartReading(e) \/ ReadAck(e)
             \/ ReadResult(e) \/ Disconnect(e)
    BY <2>3, Zenon DEF RegisterConn, CollectReplay, StartReading, ReadAck, ReadResult, Disconnect
  <2> QED BY <2>1, <2>2, <2>3, Zenon DEF HandlerStep
<1>6. up[e] \in Seq(Told) /\ <<>> \in Seq(Told)  BY DEF OnceInv
<1>7. up' \in [Epochs -> Seq(Told)]
  <2>1. CASE RegisterConn(e)  BY <1>6, <2>1, Zenon DEF RegisterConn, OnceInv
  <2>2. CASE ReadAck(e) \/ ReadResult(e)
    <3>1. up[e] # <<>> /\ up' = [up EXCEPT ![e] = Tail(@)]
      BY <2>2, Zenon DEF ReadAck, ReadResult, Reads
    <3>2. Tail(up[e]) \in Seq(Told)  BY <1>6, <3>1, Received, Zenon
    <3> QED BY <3>1, <3>2, Zenon DEF OnceInv
  <2>3. CASE Disconnect(e)  BY <1>6, <2>3, Zenon DEF Disconnect, OnceInv
  <2>4. CASE \/ CollectReplay(e) \/ StartReading(e) \/ SaveAck(e)
             \/ \E c \in Commands : Replay(e, c)
    BY <2>4, Zenon DEF CollectReplay, StartReading, SaveAck, Replay, OnceInv
  <2> QED BY <2>1, <2>2, <2>3, <2>4, Zenon DEF HandlerStep
<1>8. \A c \in Durable : AnswerInv(c) => chan'[c] \in {NoResult, cached[c]}
  <2>1. CASE ReadResult(e)
    <3>1. up[e] # <<>> /\ Head(up[e]).type = "result"  BY <2>1, Zenon DEF ReadResult, Reads
    <3>2. Head(up[e]) \in Told  BY <1>6, <3>1, Received, Zenon
    <3>3. Head(up[e]).cmd \in Durable => Head(up[e]).res = cached[Head(up[e]).cmd]
      BY <3>1, <3>2, Zenon DEF Told
    <3>4. \/ chan' = chan
          \/ chan' = [chan EXCEPT ![Head(up[e]).cmd] = Head(up[e]).res]
      BY <2>1, Zenon DEF ReadResult
    <3> QED BY <1>4, <3>3, <3>4, Zenon DEF AnswerInv
  <2>2. CASE ~ReadResult(e)
    <3>1. chan' = chan
      BY <2>2, Zenon DEF HandlerStep, RegisterConn, CollectReplay, StartReading, Replay, ReadAck,
         SaveAck, Disconnect
    <3> QED BY <3>1, Zenon DEF AnswerInv
  <2> QED BY <2>1, <2>2, Zenon
<1>9. \A c \in Durable : AnswerInv(c) => AnswerInv(c)'
  BY <1>1, <1>5, <1>8, Zenon DEF AnswerInv
<1> QED BY <1>1, <1>2, <1>3, <1>7, <1>9, Zenon DEF OnceInv

\* SendResult of the cached result, or of a fresh one that is then cached,
\* keeps to what the worker has cached.
LEMMA SendResultOnce ==
  ASSUME LinkTypeInv, NEW S, NEW c \in Commands, NEW r, NEW before \in Seq(S),
         up \in [Epochs -> Seq(S)], SendResult(c, r, before),
         ResultMsg([id |-> nextMsg, cmd |-> c, res |-> r]) \in S
  PROVE  up' \in [Epochs -> Seq(S)]
<1> DEFINE m == ResultMsg([id |-> nextMsg, cmd |-> c, res |-> r])
<1>1. \A e \in Epochs : up[e] \o before \o <<m>> \in Seq(S)
  <2> TAKE e \in Epochs
  <2>1. up[e] \o before \in Seq(S)  BY Sent, Zenon
  <2>2. <<m>> \in Seq(S)  BY Single, Zenon
  <2> QED BY <2>1, <2>2, Sent, Zenon
<1>2. up' = IF session = 0 THEN up ELSE [up EXCEPT ![session] = @ \o before \o <<m>>]
  BY Zenon DEF SendResult
<1> HIDE DEF m
<1> QED BY <1>1, <1>2, Zenon

\* Results that are told stay told when the cache only gains a result.
LEMMA ToldGrows ==
  ASSUME LinkTypeInv, OnceInv, crashes = 0, crashes' = 0,
         \A c \in Durable : cached[c] # NoResult => cached'[c] = cached[c]
  PROVE  Told \subseteq Told' /\ up \in [Epochs -> Seq(Told')]
<1>1. Told \subseteq Told'  BY Zenon DEF Told
<1>2. \A e \in Epochs : up[e] \in Seq(Told')  BY <1>1, Widened, Zenon DEF OnceInv
<1> QED BY <1>1, <1>2, Zenon DEF OnceInv

\* The end of an execution.
LEMMA FinishOnce ==
  ASSUME LinkTypeInv, OnceInv, crashes = 0, NEW k \in Commands, ExecFinish(k)
  PROVE  OnceInv'
<1> USE DEF dispatch, server, bounds
<1>1. PICK x \in running[k], ok \in BOOLEAN :
        /\ running' = [running EXCEPT ![k] = @ \ {x}]
        /\ cached' = IF k \in Durable
                     THEN [cached EXCEPT ![k] = [exec |-> x[1], during |-> x[2], ok |-> ok]]
                     ELSE cached
        /\ SendResult(k, [exec |-> x[1], during |-> x[2], ok |-> ok], <<>>)
        /\ UNCHANGED <<row, down, session, execs, server, bounds>>
  BY Zenon DEF ExecFinish
<1> DEFINE r == [exec |-> x[1], during |-> x[2], ok |-> ok]
<1>2. /\ running \in [Commands -> SUBSET (Nat \X Nat)] /\ cached \in [Commands -> Results]
      /\ execs \in [Commands -> Nat] /\ nextMsg \in Nat
  BY Zenon DEF LinkTypeInv, TypeOK
<1>3. r \in Results  BY <1>2 DEF Results
<1>4. UNCHANGED <<execs, chan, row, crashes>>  BY <1>1, Zenon
<1>5. k \in Durable => cached[k] = NoResult /\ x[1] # 0 /\ running'[k] = {}
  BY <1>1, <1>2 DEF OnceInv, GateInv
<1>6. k \in Durable => r # NoResult  BY <1>5, Zenon DEF NoResult
<1>7. \A c \in Durable : cached'[c] = IF c = k THEN r ELSE cached[c]  BY <1>1, <1>2, Zenon
<1>8. spool' = spool \cup {[id |-> nextMsg, cmd |-> k, res |-> r]}  BY <1>1, Zenon DEF SendResult
<1> HIDE DEF r
<1>9. up' \in [Epochs -> Seq(Told')]
  <2>1. Told \subseteq Told' /\ up \in [Epochs -> Seq(Told')]
    BY <1>4, <1>5, <1>7, ToldGrows, Zenon
  <2>2. ResultMsg([id |-> nextMsg, cmd |-> k, res |-> r]) \in Told'
    BY <1>2, <1>3, <1>6, <1>7, Zenon DEF ResultMsg, Told, UpMsgs
  <2>3. SendResult(k, r, <<>>) /\ <<>> \in Seq(Told')  BY <1>1 DEF r
  <2> HIDE DEF Told
  <2> QED BY <2>1, <2>2, <2>3, SendResultOnce, Zenon
<1>10. ASSUME NEW c \in Durable, GateInv(c), AnswerInv(c) PROVE GateInv(c)' /\ AnswerInv(c)'
  <2>1. CASE c # k
    <3>1. running'[c] = running[c] /\ cached'[c] = cached[c]  BY <1>1, <1>2, <1>7, <2>1, Zenon
    <3>2. \A m \in spool' : m.cmd = c => m \in spool  BY <1>8, <2>1
    <3> QED BY <1>4, <1>10, <3>1, <3>2, Zenon DEF GateInv, AnswerInv
  <2>2. CASE c = k
    <3>1. running'[c] = {} /\ cached[c] = NoResult /\ cached'[c] = r /\ r # NoResult
      BY <1>5, <1>6, <1>7, <2>2, Zenon
    <3>2. \A m \in spool : m.cmd # c  BY <1>10, <3>1, Zenon DEF GateInv
    <3>3. \A m \in spool' : m.cmd = c => m.res = r  BY <1>8, <3>2
    <3>4. chan'[c] = NoResult  BY <1>4, <1>10, <3>1, Zenon DEF AnswerInv
    <3>5. row'[c].status # "success"
      <4>1. ~cached[c].ok  BY <3>1 DEF NoResult
      <4>2. row[c].status # "success"  BY <1>10, <4>1, Zenon DEF AnswerInv
      <4> QED BY <1>4, <4>2, Zenon
    <3> QED BY <1>4, <1>10, <3>1, <3>3, <3>4, <3>5, Zenon DEF GateInv, AnswerInv
  <2> QED BY <2>1, <2>2, Zenon
<1> QED BY <1>4, <1>9, <1>10, Zenon DEF OnceInv

\* The other steps of the worker.
LEMMA WorkerOnce ==
  ASSUME LinkTypeInv, OnceInv, crashes = 0, WorkerStep \/ FlushTick \/ Break
  PROVE  OnceInv'
<1> USE DEF dispatch, server, worker, bounds
<1>1. UNCHANGED <<cached, chan, row, crashes>>
  BY Zenon DEF WorkerStep, Dial, ReceiveAck, ReceiveCommand, FlushTick, Break
<1>2. Told' = Told  BY <1>1, Zenon DEF Told
<1>3. \A c \in Durable : AnswerInv(c) => AnswerInv(c)'  BY <1>1, Zenon DEF AnswerInv
<1>4. up \in [Epochs -> Seq(Told)] /\ <<>> \in Seq(Told)  BY DEF OnceInv
<1>5. CASE Dial \/ FlushTick
  <2>1. UNCHANGED <<running, execs, spool>>  BY <1>5, Zenon DEF Dial, FlushTick
  <2>2. \A c \in Durable : GateInv(c) => GateInv(c)'  BY <1>1, <2>1, Zenon DEF GateInv
  <2>3. \A m \in spool : ResultMsg(m) \in Told
    <3> TAKE m \in spool
    <3>1. m \in Spooled  BY Zenon DEF LinkTypeInv, TypeOK
    <3>2. ResultMsg(m) \in UpMsgs  BY <3>1, Zenon DEF Spooled, ResultMsg, UpMsgs
    <3>3. m.cmd \in Durable => m.res # NoResult /\ m.res = cached[m.cmd]
      BY Zenon DEF OnceInv, GateInv
    <3> QED BY <3>2, <3>3, Zenon DEF ResultMsg, Told
  <2>4. CASE Dial
    <3>1. up' \in [Epochs -> Seq(Told)]  BY <1>4, <2>3, <2>4, FlushType, Zenon DEF Dial
    <3> QED BY <1>1, <1>2, <1>3, <2>2, <3>1, Zenon DEF OnceInv
  <2>5. CASE FlushTick
    <3>1. up[session] \in Seq(Told)  BY <1>4, <2>5 DEF FlushTick, LinkTypeInv, TypeOK
    <3>2. up' \in [Epochs -> Seq(Told)]
      BY <1>4, <2>3, <2>5, <3>1, FlushType, Zenon DEF FlushTick
    <3> QED BY <1>1, <1>2, <1>3, <2>2, <3>2, Zenon DEF OnceInv
  <2> QED BY <1>5, <2>4, <2>5, Zenon
<1>6. CASE ReceiveAck \/ Break
  <2>1. UNCHANGED <<running, execs, up>> /\ spool' \subseteq spool
    BY <1>6, Zenon DEF ReceiveAck, Break
  <2>2. \A c \in Durable : GateInv(c) => GateInv(c)'  BY <1>1, <2>1, Zenon DEF GateInv
  <2> QED BY <1>1, <1>2, <1>3, <2>1, <2>2, Zenon DEF OnceInv
<1>7. CASE ReceiveCommand
  <2> DEFINE m == Head(down)
             k == m.cmd
             ack == IF k \in Durable
                    THEN <<[type |-> "ack", cmd |-> k, count |-> m.count]>> ELSE <<>>
  <2>1. down # <<>> /\ m.type = "command"  BY <1>7, Zenon DEF ReceiveCommand
  <2>2. m \in DownMsgs  BY <2>1, Received, Zenon DEF LinkTypeInv, TypeOK
  <2>3. k \in Commands /\ m.count \in Nat  BY <2>1, <2>2, Zenon DEF DownMsgs
  <2>4. [type |-> "ack", cmd |-> k, count |-> m.count] \in Told  BY <2>3, Zenon DEF UpMsgs, Told
  <2>5. ack \in Seq(Told)  BY <1>4, <2>4, Single, Zenon
  <2>6. CASE /\ k \in Durable /\ cached[k] # NoResult
             /\ SendResult(k, cached[k], ack) /\ UNCHANGED <<running, execs>>
    <3>1. ResultMsg([id |-> nextMsg, cmd |-> k, res |-> cached[k]]) \in Told
      <4> HIDE DEF k
      <4>1. cached[k] \in Results /\ nextMsg \in Nat  BY <2>3, Zenon DEF LinkTypeInv, TypeOK
      <4> QED BY <2>3, <2>6, <4>1, Zenon DEF ResultMsg, Told, UpMsgs
    <3>2. up' \in [Epochs -> Seq(Told)]
      <4> HIDE DEF k, ack
      <4> QED BY <1>4, <2>3, <2>5, <2>6, <3>1, SendResultOnce, Zenon
    <3>3. spool' = spool \cup {[id |-> nextMsg, cmd |-> k, res |-> cached[k]]}
      BY <2>6, Zenon DEF SendResult
    <3>4. \A c \in Durable : GateInv(c) => GateInv(c)'
      <4> HIDE DEF k
      <4> QED BY <1>1, <2>6, <3>3 DEF GateInv
    <3> QED BY <1>1, <1>2, <1>3, <3>2, <3>4, Zenon DEF OnceInv
  <2>7. CASE /\ up' = [up EXCEPT ![session] = @ \o ack]
             /\ UNCHANGED <<running, execs, spool, nextMsg>>
    <3>1. up' \in [Epochs -> Seq(Told)]
      <4> HIDE DEF ack
      <4>1. \A e \in Epochs : up[e] \o ack \in Seq(Told)  BY <1>4, <2>5, Sent, Zenon
      <4> QED BY <1>4, <2>7, <4>1, Zenon
    <3>2. \A c \in Durable : GateInv(c) => GateInv(c)'  BY <1>1, <2>7, Zenon DEF GateInv
    <3> QED BY <1>1, <1>2, <1>3, <3>1, <3>2, Zenon DEF OnceInv
  <2>8. CASE /\ k \in Durable => running[k] = {} /\ cached[k] = NoResult
             /\ execs' = [execs EXCEPT ![k] = @ + 1]
             /\ running' = [running EXCEPT ![k] = @ \cup {<<execs[k] + 1, attempt[k]>>}]
             /\ up' = [up EXCEPT ![session] = @ \o ack]
             /\ UNCHANGED <<spool, nextMsg>>
    <3>1. up' \in [Epochs -> Seq(Told)]
      <4> HIDE DEF ack
      <4>1. \A e \in Epochs : up[e] \o ack \in Seq(Told)  BY <1>4, <2>5, Sent, Zenon
      <4> QED BY <1>4, <2>8, <4>1, Zenon
    <3>2. ASSUME NEW c \in Durable, GateInv(c) PROVE GateInv(c)'
      <4> HIDE DEF k
      <4>1. execs \in [Commands -> Nat] /\ running \in [Commands -> SUBSET (Nat \X Nat)]
        BY Zenon DEF LinkTypeInv, TypeOK
      <4>2. CASE c # k
        <5>1. execs'[c] = execs[c] /\ running'[c] = running[c]  BY <2>8, <4>1, <4>2, Zenon
        <5> QED BY <1>1, <2>8, <3>2, <5>1, Zenon DEF GateInv
      <4>3. CASE c = k
        <5>1. execs[c] = 0 /\ cached'[c] = NoResult  BY <1>1, <2>8, <3>2, <4>3, Zenon DEF GateInv
        <5>9. running[c] = {}  BY <2>8, <4>3, Zenon
        <5>10. execs'[c] = execs[c] + 1 /\ running'[c] = running[c] \cup {<<execs[c] + 1, attempt[c]>>}
          BY <2>8, <4>1, <4>3, Zenon
        <5>2. execs'[c] = 1 /\ running'[c] = {<<1, attempt[c]>>}
          BY <5>1, <5>9, <5>10
        <5>3. \A x, y \in running'[c] : x = y /\ x[1] # 0  BY <5>2
        <5>4. running'[c] # {}  BY <5>2, Zenon
        <5>5. \A n \in spool' : n.cmd = c => n.res # NoResult /\ n.res = cached'[c]
          BY <1>1, <2>8, <3>2, Zenon DEF GateInv
        <5>6. execs'[c] = 1  BY <5>2, Zenon
        <5> QED BY <5>1, <5>3, <5>4, <5>5, <5>6 DEF GateInv
      <4> QED BY <4>2, <4>3, Zenon
    <3> QED BY <1>1, <1>2, <1>3, <3>1, <3>2, Zenon DEF OnceInv
  <2> QED BY <1>7, <2>6, <2>7, <2>8, Zenon DEF ReceiveCommand
<1> QED BY <1>5, <1>6, <1>7, Zenon DEF WorkerStep

\* A restart of the server: it forgets its calls and recovers the rows, none
\* of them to success.
LEMMA RestartOnce ==
  ASSUME LinkTypeInv, OnceInv, crashes = 0, ServerRestart
  PROVE  OnceInv'
<1>1. UNCHANGED <<running, execs, cached, spool, crashes>>  BY Zenon DEF ServerRestart
<1>2. Told' = Told  BY <1>1, Zenon DEF Told
<1>3. \A c \in Durable : GateInv(c) => GateInv(c)'  BY <1>1, Zenon DEF GateInv
<1>4. up' \in [Epochs -> Seq(Told)]  BY DEF ServerRestart
<1>5. ASSUME NEW c \in Durable, AnswerInv(c) PROVE AnswerInv(c)'
  <2>1. chan'[c] = NoResult  BY Zenon DEF ServerRestart
  <2>2. row'[c] = RecoverRow(row[c]) /\ row[c] \in Rows
    BY Zenon DEF ServerRestart, LinkTypeInv, TypeOK, Rows
  <2>3. row'[c].status = "success" => row[c].status = "success"
    BY <2>2, Zenon DEF RecoverRow, Rows
  <2> QED BY <1>1, <1>5, <2>1, <2>3, Zenon DEF AnswerInv
<1> QED BY <1>1, <1>2, <1>3, <1>4, <1>5, Zenon DEF OnceInv

\* The invariant of at most one execution holds throughout.
LEMMA OnceHolds == Spec => []OnceInv
<1>1. Init => OnceInv
  <2> SUFFICES ASSUME Init PROVE OnceInv  BY Zenon
  <2>1. \A c \in Durable : GateInv(c) /\ AnswerInv(c)
    BY DEF Init, GateInv, AnswerInv, NoResult
  <2>2. up \in [Epochs -> Seq(Told)]  BY DEF Init
  <2> QED BY <2>1, <2>2, Zenon DEF OnceInv
<1>2. LinkTypeInv /\ LinkTypeInv' /\ OnceInv /\ [Next]_vars => OnceInv'
  <2> SUFFICES ASSUME LinkTypeInv, LinkTypeInv', OnceInv, [Next]_vars PROVE OnceInv'
    BY Zenon
  <2>1. CASE crashes' # 0
    <3>1. Told' = UpMsgs  BY <2>1, Zenon DEF Told
    <3> QED BY <2>1, <3>1, Zenon DEF OnceInv, LinkTypeInv, TypeOK
  <2>2. CASE crashes' = 0
    <3>1. crashes \in Nat  BY DEF LinkTypeInv, TypeOK
    <3>2. ~WorkerCrash
      BY <2>2, <3>1 DEF WorkerCrash
    <3>3. crashes = 0
      BY <2>2, <3>2, Zenon DEF Next, CallerStep, GiveUp, ExecFinish, LookUp, Register, LogStart,
         Write, TakeResult, LogCommandFinish, Unregister, Retry, HandlerStep, RegisterConn,
         CollectReplay, StartReading, Replay, ReadAck, SaveAck, ReadResult, Disconnect,
         WorkerStep, Dial, ReceiveAck, ReceiveCommand, FlushTick, Break, ServerRestart,
         outside, bounds, vars
    <3>4. CASE UNCHANGED vars
      BY <3>4 DEF OnceInv, GateInv, AnswerInv, Told, vars, dispatch, handlers, outside,
         worker, bounds
    <3> QED
      BY <3>2, <3>3, <3>4, CallerOnce, HandlerOnce, FinishOnce, WorkerOnce, RestartOnce, Zenon DEF Next
  <2> QED BY <2>1, <2>2, Zenon
<1> QED BY <1>1, <1>2, LinkTypeHolds, PTL DEF Spec

\* As long as the worker's process lives, reconnects, replays, retries,
\* duplicated messages and restarts of the server never make it execute a durable command twice
\* (replayPendingOnReconnect and the duplicate gate).
THEOREM LinkAtMostOnce == Spec => []AtMostOnce
<1>1. OnceInv => AtMostOnce  BY Zenon DEF OnceInv, GateInv, AtMostOnce
<1> QED BY <1>1, OnceHolds, PTL

\* As long as the worker's process lives, a row that says success stands for
\* an execution that succeeded (LogCommandFinish, through the spool, the
\* deduplication and the pending map).
THEOREM LinkSuccessIsReal == Spec => []SuccessIsReal
<1>1. OnceInv => SuccessIsReal  BY Zenon DEF OnceInv, AnswerInv, SuccessIsReal
<1> QED BY <1>1, OnceHolds, PTL
=============================================================================
