---------------------------- MODULE WorkerAccess ----------------------------
(***************************************************************************)
(* How a worker gets in and out: its token and its record                  *)
(* (internal/worker/service.go), the register and websocket endpoints and  *)
(* DisconnectWorker (internal/worker/server.go), the token and revoke      *)
(* routes (internal/routes/worker.go) and the token expiry cron            *)
(* (cmd/serve.go).                                                         *)
(*                                                                         *)
(* Tokens meet only in Service.mu, so one token and the worker it          *)
(* registers are modelled.  A save surely writes the columns that were     *)
(* changed; whether it writes back the others as they were read is left    *)
(* open (Saved).  RevokeWorker, UpdateLastSeen and ExpireStagingTokens     *)
(* read and save without holding Service.mu.                               *)
(***************************************************************************)
EXTENDS Integers

CONSTANTS
  MaxVisits   \* bound: times the worker process registers and connects

ASSUME AccessAssumption == MaxVisits \in Nat \ {0}

Visits == 1 .. MaxVisits
NoToken == [status |-> "none", linked |-> FALSE]

VARIABLES
  token,       \* the worker_tokens row: status, and whether worker is set
  hourOver,        \* the staging token's hour is over
  worker,      \* status of the workers row ("none": no row)
  holder,      \* the visit that holds Service.mu, or 0
  visit,       \* per visit: progress through handleRegister, handleWebSocket
  seen,        \* per visit: the worker status it read and will save
  connection,  \* s.connections[worker]: a visit, or 0
  broken,      \* visits whose connection is dead
  tags,        \* s.workerTags[worker] is set
  revoker,     \* progress of the revoke route
  expirer      \* progress of ExpireStagingTokens

accessVars == <<token, hourOver, worker, holder, visit, seen, connection, broken,
                tags, revoker, expirer>>

Statuses == {"none", "ACTIVE", "REVOKED"}

AccessTypeOK ==
  /\ token \in [status : {"none", "STAGING", "ACTIVE", "REVOKED", "EXPIRED"},
                linked : BOOLEAN]
  /\ hourOver \in BOOLEAN /\ tags \in BOOLEAN /\ worker \in Statuses
  /\ holder \in 0 .. MaxVisits
  /\ visit \in [Visits -> {"away", "activating", "admitted", "registered",
                           "connecting", "creating", "recreating", "upgrading",
                           "reading", "touching", "left"}]
  /\ seen \in [Visits -> Statuses]
  /\ connection \in 0 .. MaxVisits /\ broken \subseteq Visits
  /\ revoker \in {"idle", "found", "marked", "tokens", "done"}
  /\ expirer \in {"idle", "found"}

AccessInit ==
  /\ token = NoToken /\ hourOver = FALSE /\ worker = "none" /\ holder = 0
  /\ visit = [v \in Visits |-> "away"]
  /\ seen = [v \in Visits |-> "none"]
  /\ connection = 0 /\ broken = {} /\ tags = FALSE
  /\ revoker = "idle" /\ expirer = "idle"

Goto(v, s) == visit' = [visit EXCEPT ![v] = s]
\* What a save leaves in a column that the caller set to the value it had read.
Saved(stored, asRead) == {stored, asRead}
Usable == \/ token.status = "ACTIVE"
          \/ token.status = "STAGING" /\ ~hourOver
\* The worker process begins a visit when the one before is over for it.
Alone(v) == \A u \in 1 .. v - 1 : u \in broken \/ visit[u] = "left"

IssueToken ==
  /\ token = NoToken /\ holder = 0
  /\ token' = [status |-> "STAGING", linked |-> FALSE]
  /\ UNCHANGED <<hourOver, worker, holder, visit, seen, connection, broken, tags,
                 revoker, expirer>>

HourPasses ==
  /\ ~hourOver /\ token.status # "none" /\ hourOver' = TRUE
  /\ UNCHANGED <<token, worker, holder, visit, seen, connection, broken, tags,
                 revoker, expirer>>

(***************************************************************************)
(* ActivateToken, under Service.mu: read the token, then save it.  Called  *)
(* by handleRegister (from "away") and by handleWebSocket (from            *)
(* "registered").                                                          *)
(***************************************************************************)

\* The token is read and accepted; a linked one brings its worker's status.
ActivateRead(v) ==
  /\ visit[v] \in {"away", "registered"} /\ holder = 0
  /\ Alone(v)
  /\ Usable
  /\ holder' = v
  /\ Goto(v, IF visit[v] = "away" THEN "activating" ELSE "connecting")
  /\ seen' = [seen EXCEPT ![v] = IF token.linked THEN worker ELSE "none"]
  /\ UNCHANGED <<token, hourOver, worker, connection, broken, tags, revoker,
                 expirer>>

\* The token is refused; a staging token found late is marked.
ActivateRefused(v) ==
  /\ visit[v] \in {"away", "registered"} /\ holder = 0 /\ Alone(v)
  /\ token.status # "none" /\ ~Usable
  /\ token' = IF token.status = "STAGING"
              THEN [token EXCEPT !.status = "EXPIRED"] ELSE token
  /\ Goto(v, "left")
  /\ UNCHANGED <<hourOver, worker, holder, seen, connection, broken, tags,
                 revoker, expirer>>

\* registerRemoteWorker, when the token had no worker: the workers row exists
\* before the token is linked to it.
ActivateCreate(v) ==
  /\ visit[v] \in {"activating", "connecting"} /\ holder = v
  /\ seen[v] = "none"
  /\ worker' = "ACTIVE"
  /\ seen' = [seen EXCEPT ![v] = "ACTIVE"]
  /\ Goto(v, IF visit[v] = "activating" THEN "creating" ELSE "recreating")
  /\ UNCHANGED <<token, hourOver, holder, connection, broken, tags, revoker,
                 expirer>>

\* The token's save, then the endpoint's own check of the worker's status.  A
\* token that already had its worker was ACTIVE when it was read.
ActivateSave(v) ==
  /\ holder = v
  /\ LET active == [status |-> "ACTIVE", linked |-> TRUE]
     IN \/ /\ visit[v] \in {"creating", "recreating"}
           /\ token' = active
        \/ /\ visit[v] \in {"activating", "connecting"} /\ seen[v] # "none"
           /\ token' \in Saved(token, active)
  /\ holder' = 0
  /\ Goto(v, IF seen[v] = "REVOKED" THEN "left"
             ELSE IF visit[v] \in {"activating", "creating"} THEN "admitted"
             ELSE "upgrading")
  /\ UNCHANGED <<hourOver, worker, seen, connection, broken, tags, revoker,
                 expirer>>

(***************************************************************************)
(* The endpoints                                                           *)
(***************************************************************************)

\* UpdateLastSeen's choice of status.
Touched(status) == IF status = "REVOKED" THEN status ELSE "ACTIVE"

\* handleRegister after the token: the record that ActivateToken returned is
\* saved with the status it had then, UpdateLastSeen saves it again, and the
\* tags are set.
Register(v) ==
  /\ visit[v] = "admitted"
  /\ worker' \in Saved(worker, Touched(seen[v]))
  /\ tags' = TRUE
  /\ Goto(v, "registered")
  /\ UNCHANGED <<token, hourOver, holder, seen, connection, broken, revoker,
                 expirer>>

\* handleWebSocket after the token: UpdateLastSeen, the upgrade, and the new
\* connection takes the place of the old one, which is closed.
Join(v) ==
  /\ visit[v] = "upgrading"
  /\ worker' = Touched(worker)
  /\ broken' = broken \cup ({connection} \cap Visits)
  /\ connection' = v
  /\ Goto(v, "reading")
  /\ UNCHANGED <<token, hourOver, holder, seen, tags, revoker, expirer>>

\* A message arrives: UpdateLastSeen reads the record ...
Message(v) ==
  /\ visit[v] = "reading" /\ v \notin broken
  /\ seen' = [seen EXCEPT ![v] = worker]
  /\ Goto(v, "touching")
  /\ UNCHANGED <<token, hourOver, worker, holder, connection, broken, tags,
                 revoker, expirer>>

\* ... and saves it.
Touch(v) ==
  /\ visit[v] = "touching"
  /\ worker' \in Saved(worker, Touched(seen[v]))
  /\ Goto(v, "reading")
  /\ UNCHANGED <<token, hourOver, holder, seen, connection, broken, tags, revoker,
                 expirer>>

\* Mutant: the clean-up leaves the entry in s.connections.
Leave_KeepsEntry(v) ==
  /\ visit[v] = "reading" /\ v \in broken
  /\ tags' = (tags /\ connection # v)
  /\ Goto(v, "left")
  /\ UNCHANGED <<token, hourOver, worker, holder, seen, connection, broken, revoker,
                 expirer>>

\* ReadMessage fails on a closed connection or after three heartbeat
\* intervals of silence; the deferred clean-up spares a newer connection.
Leave(v) ==
  /\ visit[v] = "reading" /\ v \in broken
  /\ connection' = IF connection = v THEN 0 ELSE connection
  /\ tags' = (tags /\ connection # v)
  /\ Goto(v, "left")
  /\ UNCHANGED <<token, hourOver, worker, holder, seen, broken, revoker, expirer>>

\* The network or the worker process fails; the worker will register anew.
Break(v) ==
  /\ v \notin broken /\ visit[v] # "away"
  /\ broken' = broken \cup {v}
  /\ UNCHANGED <<token, hourOver, worker, holder, visit, seen, connection, tags,
                 revoker, expirer>>

(***************************************************************************)
(* Revocation and expiry                                                   *)
(***************************************************************************)

\* The revoke route: the worker exists and no stack is assigned to it.
RevokeBegin ==
  /\ revoker = "idle" /\ worker # "none"
  /\ revoker' = "found"
  /\ UNCHANGED <<token, hourOver, worker, holder, visit, seen, connection, broken,
                 tags, expirer>>

\* RevokeWorker marks the record ...
RevokeMark ==
  /\ revoker = "found"
  /\ worker' = "REVOKED" /\ revoker' = "marked"
  /\ UNCHANGED <<token, hourOver, holder, visit, seen, connection, broken, tags,
                 expirer>>

\* Mutant: the tokens are revoked without Service.mu.
RevokeTokens_Unlocked ==
  /\ revoker = "marked"
  /\ token' = IF token.linked THEN [token EXCEPT !.status = "REVOKED"] ELSE token
  /\ revoker' = "tokens"
  /\ UNCHANGED <<hourOver, worker, holder, visit, seen, connection, broken, tags,
                 expirer>>

\* ... and RevokeTokensForWorker, under Service.mu, the tokens linked to it.
RevokeTokens ==
  /\ revoker = "marked" /\ holder = 0
  /\ token' = IF token.linked THEN [token EXCEPT !.status = "REVOKED"] ELSE token
  /\ revoker' = "tokens"
  /\ UNCHANGED <<hourOver, worker, holder, visit, seen, connection, broken, tags,
                 expirer>>

\* DisconnectWorker.
RevokeDisconnect ==
  /\ revoker = "tokens"
  /\ broken' = broken \cup ({connection} \cap Visits)
  /\ connection' = 0 /\ tags' = FALSE
  /\ revoker' = "done"
  /\ UNCHANGED <<token, hourOver, worker, holder, visit, seen, expirer>>

\* ExpireStagingTokens: the cron reads the staging tokens ...
ExpireFind ==
  /\ expirer = "idle" /\ token.status = "STAGING"
  /\ expirer' = "found"
  /\ UNCHANGED <<token, hourOver, worker, holder, visit, seen, connection, broken,
                 tags, revoker>>

\* ... and saves the late ones, which had no worker when they were read.
ExpireSave ==
  /\ expirer = "found"
  /\ IF hourOver
     THEN \E linked \in Saved(token.linked, FALSE) :
            token' = [status |-> "EXPIRED", linked |-> linked]
     ELSE token' = token
  /\ expirer' = "idle"
  /\ UNCHANGED <<hourOver, worker, holder, visit, seen, connection, broken, tags,
                 revoker>>

AccessNext ==
  \/ IssueToken \/ HourPasses
  \/ \E v \in Visits :
       \/ ActivateRead(v) \/ ActivateRefused(v) \/ ActivateCreate(v)
       \/ ActivateSave(v)
       \/ Register(v) \/ Join(v) \/ Message(v) \/ Touch(v) \/ Leave(v)
       \/ Break(v)
  \/ RevokeBegin \/ RevokeMark \/ RevokeTokens \/ RevokeDisconnect
  \/ ExpireFind \/ ExpireSave

AccessSpec == AccessInit /\ [][AccessNext]_accessVars

(***************************************************************************)
(* Properties                                                              *)
(***************************************************************************)

\* Once the revoke route has dealt with the tokens, the worker's token stays
\* unusable for good, although the worker may have been revoked while its
\* token was not linked to it yet, a late save of UpdateLastSeen may show the
\* worker as ACTIVE again and the expiry cron may overwrite the token: no
\* later registration or connection is admitted.
RevokedCannotReturn ==
  revoker \in {"tokens", "done"} => token.status \in {"REVOKED", "EXPIRED"}

\* A connection that died does not stay in s.connections: its own handler, the
\* next connection or the revocation removes it, and a handler that ends late
\* never removes a newer connection in its place.
DeadConnectionsLeave ==
  \A v \in Visits : (connection = v /\ v \in broken) ~> connection # v

\* A revoked worker stays out, and the rows and connections have their types.
AccessSafety == AccessTypeOK /\ RevokedCannotReturn
=============================================================================
