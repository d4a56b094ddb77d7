------------------------------- MODULE Outbox -------------------------------
(***************************************************************************)
(* What an outbox promises about one message, to the handler that hands it *)
(* over and to the server that waits for it.  A message is taken and then  *)
(* promised; a promised message may be dropped only when the other side    *)
(* has seen it, or with an excuse.  A dropped file may come back (its      *)
(* removal was not durable), which costs a duplicate.                      *)
(***************************************************************************)
VARIABLES
  box,      \* "empty", "taken", "kept" or "dropped"
  seen,     \* the other side has the message
  excuse    \* something happened that no outbox can withstand

outboxVars == <<box, seen, excuse>>

OutboxInit == box = "empty" /\ seen = FALSE /\ excuse = FALSE

Take == box = "empty" /\ box' = "taken" /\ UNCHANGED <<seen, excuse>>

Promise == box = "taken" /\ box' = "kept" /\ UNCHANGED <<seen, excuse>>

See == box # "empty" /\ seen' = TRUE /\ UNCHANGED <<box, excuse>>

Excuse == excuse' = TRUE /\ UNCHANGED <<box, seen>>

Drop ==
  /\ box \in {"taken", "kept"} /\ box' = "dropped" /\ UNCHANGED seen
  /\ excuse => excuse'
  /\ box = "kept" => seen \/ excuse'

Resurface == box = "dropped" /\ box' \in {"taken", "kept"} /\ UNCHANGED <<seen, excuse>>

OutboxNext == Take \/ Promise \/ See \/ Excuse \/ Drop \/ Resurface

OutboxSpec == OutboxInit /\ [][OutboxNext]_outboxVars
=============================================================================
