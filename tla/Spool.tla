------------------------------- MODULE Spool --------------------------------
(***************************************************************************)
(* The worker's outbox on disk (worker/spool/store.go) for one message, as *)
(* the transport uses it (worker/transport/transport.go): a handler stores *)
(* and sends the message, the session's loop flushes what is pending, and  *)
(* the reader removes what the server acknowledged.  A process that dies   *)
(* keeps its files; a host that loses power keeps what has been synced, of *)
(* anything newer it keeps the old, the new or a torn file.                *)
(***************************************************************************)
EXTENDS Integers

CONSTANTS
  MaxFlushes   \* bound: flushes of the pending messages

ASSUME SpoolAssumption == MaxFlushes \in Nat

VARIABLES
  spoolFile,        \* <message>.json: "none", "msg" or "torn"
  onDisk,      \* what a power failure cannot take away: "none" or "msg"
  synced,      \* file has been synced since it was written
  writer,      \* the handler: "new", "stored", "synced" or "done"
  flusher,     \* the session's loop: "idle", "listed", "read", "written"
  wire,        \* copies of the message on their way
  delivered,   \* the server has it
  acks,        \* acknowledgements on their way
  flushes,
  sealed,      \* the token the message was encrypted with is the worker's
  struck,      \* power failed before a rewritten message was synced
  promised,    \* Enqueue has returned: the message is stored (history)
  purged       \* the worker was revoked and its spool removed

spoolVars == <<spoolFile, onDisk, synced, writer, flusher, wire, delivered, acks,
               flushes, sealed, struck, promised, purged>>

SpoolInit ==
  /\ spoolFile = "none" /\ onDisk = "none" /\ synced = TRUE /\ writer = "new"
  /\ flusher = "idle" /\ wire = 0 /\ delivered = FALSE /\ acks = 0
  /\ flushes = 0 /\ sealed = TRUE /\ struck = FALSE
  /\ promised = FALSE /\ purged = FALSE

\* writeRecordAt: a temporary file renamed into place, not yet synced.
Put == spoolFile' = "msg" /\ synced' = FALSE
\* ... and then the file and its directory are, if the file is still there.
Sync == IF spoolFile = "none" THEN UNCHANGED <<synced, onDisk>>
        ELSE synced' = TRUE /\ onDisk' = "msg"

EnqueueWrite ==
  /\ writer = "new" /\ ~purged /\ writer' = "stored" /\ Put
  /\ UNCHANGED <<onDisk, flusher, wire, delivered, acks, flushes, sealed,
                 struck, purged, promised>>

\* Mutant: Enqueue returns once the file is renamed.
EnqueueSync_Lazy ==
  /\ writer = "stored" /\ writer' = "synced" /\ promised' = TRUE
  /\ UNCHANGED <<spoolFile, onDisk, synced, flusher, wire, delivered, acks, flushes,
                 sealed, struck, purged>>

\* Enqueue fails when the file was flushed, answered and removed before.
EnqueueSync ==
  /\ writer = "stored" /\ Sync
  /\ writer' = IF spoolFile = "none" THEN "done" ELSE "synced"
  /\ promised' = (spoolFile # "none")
  /\ UNCHANGED <<spoolFile, flusher, wire, delivered, acks, flushes, sealed, struck,
                 purged>>

\* Mutant: the message is sent before it is stored.
SendFirst_Early ==
  /\ writer = "new" /\ wire <= MaxFlushes /\ wire' = wire + 1
  /\ UNCHANGED <<spoolFile, onDisk, synced, writer, flusher, delivered, acks, flushes,
                 sealed, struck, purged, promised>>

\* persistAndSend: the connection may be gone.
SendFirst ==
  /\ writer = "synced" /\ writer' = "done" /\ wire' \in {wire, wire + 1}
  /\ UNCHANGED <<spoolFile, onDisk, synced, flusher, delivered, acks, flushes,
                 sealed, struck, purged, promised>>

\* Store.Pending: a file that cannot be read or decrypted is quarantined.
ListPending ==
  /\ flusher = "idle" /\ flushes < MaxFlushes /\ spoolFile # "none"
  /\ flushes' = flushes + 1
  /\ IF spoolFile = "msg" /\ sealed
     THEN flusher' = "listed" /\ UNCHANGED <<spoolFile, onDisk, synced>>
     ELSE /\ spoolFile' = "none" /\ onDisk' = "none" /\ synced' = TRUE
          /\ UNCHANGED flusher
  /\ UNCHANGED <<writer, wire, delivered, acks, sealed, struck, purged, promised>>

\* MarkAttempt reads the record; one that is gone is sent all the same.
MarkRead ==
  /\ flusher = "listed"
  /\ flusher' = IF spoolFile = "none" THEN "synced" ELSE "read"
  /\ UNCHANGED <<spoolFile, onDisk, synced, writer, wire, delivered, acks, flushes,
                 sealed, struck, purged, promised>>

MarkWrite ==
  /\ flusher = "read" /\ flusher' = "written"
  /\ IF purged THEN UNCHANGED <<spoolFile, synced>> ELSE Put
  /\ UNCHANGED <<onDisk, writer, wire, delivered, acks, flushes, sealed,
                 struck, purged, promised>>

MarkSync ==
  /\ flusher = "written" /\ flusher' = "synced" /\ Sync
  /\ UNCHANGED <<spoolFile, writer, wire, delivered, acks, flushes, sealed, struck,
                 purged, promised>>

FlushSend ==
  /\ flusher = "synced" /\ flusher' = "idle" /\ wire' \in {wire, wire + 1}
  /\ UNCHANGED <<spoolFile, onDisk, synced, writer, delivered, acks, flushes,
                 sealed, struck, purged, promised>>

Deliver ==
  /\ wire > 0 /\ wire' = wire - 1 /\ delivered' = TRUE /\ acks' = acks + 1
  /\ UNCHANGED <<spoolFile, onDisk, synced, writer, flusher, flushes, sealed,
                 struck, purged, promised>>

\* The connection breaks under a message or an acknowledgement.
LoseOne ==
  /\ \/ wire > 0 /\ wire' = wire - 1 /\ UNCHANGED acks
     \/ acks > 0 /\ acks' = acks - 1 /\ UNCHANGED wire
  /\ UNCHANGED <<spoolFile, onDisk, synced, writer, flusher, delivered, flushes,
                 sealed, struck, purged, promised>>

\* Store.Ack removes the file; the removal is not synced.
AckPersistent ==
  /\ acks > 0 /\ acks' = acks - 1
  /\ spoolFile' = "none" /\ synced' = (spoolFile = "none" /\ synced)
  /\ UNCHANGED <<onDisk, writer, flusher, wire, delivered, flushes, sealed,
                 struck, purged, promised>>

\* The process dies, or is restarted, perhaps with another token; connections
\* are gone, and a handler that has not stored its message has lost it.
Processes == /\ writer' = IF writer = "new" THEN "new" ELSE "done"
             /\ flusher' = "idle" /\ wire' = 0 /\ acks' = 0

Restart ==
  /\ writer # "new" /\ Processes /\ sealed' \in {sealed, FALSE}
  /\ UNCHANGED <<spoolFile, onDisk, synced, delivered, flushes, struck, purged, promised>>

PowerFails ==
  /\ writer # "new" /\ Processes
  /\ struck' = (struck \/ (~synced /\ spoolFile = "msg" /\ onDisk = "msg"))
  /\ spoolFile' \in IF synced THEN {spoolFile}
               ELSE {onDisk, spoolFile} \cup (IF spoolFile = "msg" THEN {"torn"} ELSE {})
  /\ onDisk' = (IF spoolFile' = "msg" THEN "msg" ELSE "none")
  /\ synced' = TRUE
  /\ UNCHANGED <<delivered, flushes, sealed, purged, promised>>

\* Store.Purge, when the server revoked the worker.
Purge ==
  /\ ~purged /\ purged' = TRUE
  /\ spoolFile' = "none" /\ onDisk' = "none" /\ synced' = TRUE
  /\ UNCHANGED <<writer, flusher, wire, delivered, acks, flushes, sealed, struck, promised>>

SpoolNext ==
  \/ EnqueueWrite \/ EnqueueSync \/ SendFirst
  \/ ListPending \/ MarkRead \/ MarkWrite \/ MarkSync \/ FlushSend
  \/ Deliver \/ LoseOne \/ AckPersistent
  \/ Restart \/ PowerFails \/ Purge

SpoolSpec == SpoolInit /\ [][SpoolNext]_spoolVars

(***************************************************************************)
(* Properties                                                              *)
(***************************************************************************)

SpoolTypeOK ==
  /\ spoolFile \in {"none", "msg", "torn"} /\ onDisk \in {"none", "msg"}
  /\ writer \in {"new", "stored", "synced", "done"}
  /\ flusher \in {"idle", "listed", "read", "written", "synced"}
  /\ wire \in 0 .. MaxFlushes + 1 /\ acks \in 0 .. MaxFlushes + 1
  /\ flushes \in 0 .. MaxFlushes
  /\ \A flag \in {synced, delivered, sealed, struck, promised, purged} :
       flag \in BOOLEAN

\* A result that has been stored is kept until the server has it, whatever
\* crashes, power failures and lost acknowledgements come between.  What can
\* lose it: a new token, a revocation, and a power failure while MarkAttempt
\* rewrites it, since the file is synced only after it was renamed over the
\* good one.
StoredIsKept ==
  promised /\ ~struck /\ sealed /\ ~purged /\ ~delivered => spoolFile = "msg"

\* The spool implements the outbox that the server relies on (Outbox): a
\* message is delivered only once it was taken, and one that was promised is
\* dropped only when it has been delivered or an excuse is there.
Contract == INSTANCE Outbox WITH
  box <- IF writer = "new" THEN "empty"
         ELSE IF spoolFile # "msg" THEN "dropped"
         ELSE IF promised THEN "kept" ELSE "taken",
  seen <- delivered,
  excuse <- struck \/ ~sealed \/ purged
KeepsContract == Contract!OutboxSpec
=============================================================================
