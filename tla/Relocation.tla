----------------------------- MODULE Relocation -----------------------------
(***************************************************************************)
(* Where the containers of one stack run: transfer to another worker,      *)
(* migration to another repository, deployment and deletion.  Transfer,    *)
(* migration and deployment hold the stack's lock; the delete route takes  *)
(* none.                                                                   *)
(*                                                                         *)
(* A teardown command carries a name made from its purpose and the stack,  *)
(* so that the second one of a purpose has the name of the first.  The     *)
(* worker answers a command whose name it has finished within the last     *)
(* half hour from its cache, without executing it.                         *)
(***************************************************************************)
EXTENDS Naturals, FiniteSets

CONSTANTS Hosts,          \* the workers
          NoHost,
          MaxOperations     \* bound: locked operations and delete requests

ASSUME RelocationAssumption ==
  Hosts # {} /\ NoHost \notin Hosts /\ MaxOperations \in Nat

Purposes == {"transfer", "cleanup", "delete", "migrate"}
Answers == {"none", "done", "failed"}
Statuses == {"active", "syncing", "error", "pending"}

VARIABLES stack,      \* the stacks row, and whether its rendered files exist
          runs,       \* runs[h]: containers of the stack exist on h
          online,     \* the workers that are connected
          answered,   \* answered[h][p]: the result h has cached for purpose p
          move,       \* the operation that holds the stack's lock
          asked,      \* the row as the migrate route has read it, before the lock
          deletion,   \* the delete request under way
          known,      \* hosts whose left-over containers were reported, or which
                      \* answered a teardown from the cache
          broken,     \* a save of the row or of its log has failed
          begun    \* how many operations began

relocationVars == <<stack, runs, online, answered, move, asked, deletion, known,
                    broken, begun>>

NoMove == [kind |-> "none", at |-> "idle", from |-> NoHost, to |-> NoHost,
           before |-> "active", told |-> "none"]
NotAsked == [from |-> NoHost, deployed |-> FALSE]
NoDeletion == [at |-> "idle", from |-> NoHost, teardown |-> FALSE, raced |-> FALSE]

RelocationInit ==
  /\ stack = [exists |-> TRUE, host |-> CHOOSE h \in Hosts : TRUE, status |-> "pending",
              deployed |-> FALSE, files |-> FALSE]
  /\ runs = [h \in Hosts |-> FALSE]
  /\ online = Hosts
  /\ answered = [h \in Hosts |-> [p \in Purposes |-> "none"]]
  /\ move = NoMove /\ asked = NotAsked /\ deletion = NoDeletion
  /\ known = {} /\ broken = FALSE /\ begun = 0
-----------------------------------------------------------------------------
(***************************************************************************)
(* A durable teardown on h: its name is known there, or it is executed, or *)
(* nobody hears what became of it.                                         *)
(***************************************************************************)
Executes(h, p, result) ==
  \/ /\ answered[h][p] # "none" /\ result = answered[h][p]
     /\ UNCHANGED <<runs, answered>>
  \/ /\ answered[h][p] = "none" /\ result = "done"
     /\ runs' = [runs EXCEPT ![h] = FALSE]
     /\ answered' = [answered EXCEPT ![h][p] = "done"]
  \/ /\ answered[h][p] = "none" /\ result = "failed"
     /\ answered' = [answered EXCEPT ![h][p] = "failed"]
     /\ UNCHANGED runs

\* The server stops waiting; the worker has executed the command or has not.
Unheard(h, p, result) ==
  /\ result = "lost"
  /\ \/ Executes(h, p, "done")
     \/ UNCHANGED <<runs, answered>>

Teardown(h, p, result) == Executes(h, p, result) \/ Unheard(h, p, result)

\* A deployment carries the name of its sync log and is always executed; one
\* that fails may leave some of its containers behind.
Deployment(h, result) ==
  /\ \/ result = "done" /\ runs' = [runs EXCEPT ![h] = TRUE]
     \/ result = "failed" /\ \E some \in BOOLEAN : runs' = [runs EXCEPT ![h] = @ \/ some]
  /\ UNCHANGED answered

Forget(h, p) ==
  /\ answered[h][p] # "none"
  /\ answered' = [answered EXCEPT ![h][p] = "none"]
  /\ UNCHANGED <<stack, runs, online, move, deletion, known, broken, begun, asked>>

Disconnect(h) ==
  /\ h \in online /\ online' = online \ {h}
  /\ UNCHANGED <<stack, runs, answered, move, deletion, known, broken, begun, asked>>

Connect(h) ==
  /\ h \notin online /\ online' = online \cup {h}
  /\ UNCHANGED <<stack, runs, answered, move, deletion, known, broken, begun, asked>>
-----------------------------------------------------------------------------
(***************************************************************************)
(* The row.  A save of a row that was deleted meanwhile fails.             *)
(***************************************************************************)
SaveStatus(s) ==
  \/ stack.exists /\ stack' = [stack EXCEPT !.status = s] /\ UNCHANGED broken
  \/ broken' = TRUE /\ UNCHANGED stack

Ends == move' = NoMove
Goes(place) == move' = [move EXCEPT !.at = place]
\* An operation that begins while a delete request is under way, or the other
\* way round, races it.
Races == deletion' = IF deletion.at = "idle" THEN deletion
                     ELSE [deletion EXCEPT !.raced = TRUE]
MayMove == move = NoMove /\ begun < MaxOperations

BeginDeploy ==
  /\ MayMove /\ stack.exists /\ stack.host \in online
  /\ SaveStatus("syncing")
  /\ move' = IF stack'.status = "syncing"
             THEN [NoMove EXCEPT !.kind = "deploy", !.at = "deploy", !.from = stack.host]
             ELSE NoMove
  /\ begun' = begun + 1
  /\ Races
  /\ UNCHANGED <<runs, online, answered, known, asked>>

Deploy ==
  /\ move.kind = "deploy" /\ move.at = "deploy"
  /\ \E result \in {"done", "failed"} :
       /\ Deployment(move.from, result)
       /\ move' = [move EXCEPT !.at = "record", !.before = IF result = "done" THEN "active" ELSE "error"]
  /\ UNCHANGED <<stack, online, deletion, known, broken, begun, asked>>

RecordDeploy ==
  /\ move.kind = "deploy" /\ move.at = "record"
  /\ \/ /\ stack.exists
        /\ stack' = [stack EXCEPT !.status = move.before,
                                  !.deployed = @ \/ move.before = "active",
                                  !.files = @ \/ move.before = "active"]
        /\ UNCHANGED broken
     \/ broken' = TRUE /\ UNCHANGED stack
  /\ Ends
  /\ UNCHANGED <<runs, online, answered, deletion, known, begun, asked>>
-----------------------------------------------------------------------------
(***************************************************************************)
(* TransferStack, from the route's checks to the new row.                  *)
(***************************************************************************)
\* The route's checks, and the revision TransferStack is going to deploy.
TransferAccepted(h) == stack.exists /\ stack.host # h /\ {stack.host, h} \subseteq online
HasRevision == stack.deployed /\ stack.files

BeginTransfer(h) ==
  /\ MayMove /\ TransferAccepted(h) /\ HasRevision
  /\ SaveStatus("syncing")
  /\ move' = IF stack'.status = "syncing"
             THEN [kind |-> "transfer", at |-> "probe", from |-> stack.host, to |-> h,
                   before |-> stack.status, told |-> "none"]
             ELSE NoMove
  /\ begun' = begun + 1
  /\ Races
  /\ UNCHANGED <<runs, online, answered, known, asked>>

\* The sync log cannot be created or updated: the stack is marked broken.
LogFails ==
  /\ move.kind = "transfer"
  /\ move.at \in {"probe", "failed"}
  /\ \/ stack.exists /\ stack' = [stack EXCEPT !.status = "error"]
     \/ UNCHANGED stack
  /\ broken' = TRUE
  /\ Ends
  /\ UNCHANGED <<runs, online, answered, deletion, known, begun, asked>>

\* Mutant: the old status is not brought back.
ProbeTarget_Leaves ==
  /\ move.kind = "transfer" /\ move.at = "probe"
  /\ IF runs[move.to] THEN Ends ELSE Goes("deploy")
  /\ UNCHANGED <<stack, runs, online, answered, deletion, known, broken, begun, asked>>

\* Containers on the target stop the transfer and bring the old status back; a
\* probe that fails does not.
ProbeTarget ==
  /\ move.kind = "transfer" /\ move.at = "probe"
  /\ \/ runs[move.to] /\ SaveStatus(move.before) /\ Ends
     \/ Goes("deploy") /\ UNCHANGED <<stack, broken>>
  /\ UNCHANGED <<runs, online, answered, deletion, known, begun, asked>>

DeployTarget ==
  /\ move.kind = "transfer" /\ move.at = "deploy"
  /\ \E result \in {"done", "failed"} :
       /\ Deployment(move.to, result)
       /\ Goes(IF result = "done" THEN "teardown" ELSE "cleanup")
  /\ UNCHANGED <<stack, online, deletion, known, broken, begun, asked>>

\* A teardown that took effect clears the host's name; one that was refused,
\* lost, skipped or answered from the cache leaves it with a reason.
Noted(h, p, result) ==
  known' = IF result = "done" /\ answered[h][p] = "none" THEN known \ {h}
                                                         ELSE known \cup {h}

\* Mutant: a failed deployment is left on the target.
CleanUpTarget_Never ==
  /\ move.kind = "transfer" /\ move.at = "cleanup"
  /\ Goes("failed")
  /\ UNCHANGED <<stack, runs, online, answered, deletion, known, broken, begun, asked>>

CleanUpTarget ==
  /\ move.kind = "transfer" /\ move.at = "cleanup"
  /\ IF move.to \in online
     THEN \E result \in {"done", "failed", "lost"} :
            Teardown(move.to, "cleanup", result) /\ Noted(move.to, "cleanup", result)
     ELSE known' = known \cup {move.to} /\ UNCHANGED <<runs, answered>>
  /\ Goes("failed")
  /\ UNCHANGED <<stack, online, deletion, broken, begun, asked>>

TransferFails ==
  /\ move.kind = "transfer" /\ move.at = "failed"
  /\ SaveStatus("error")
  /\ Ends
  /\ UNCHANGED <<runs, online, answered, deletion, known, begun, asked>>

TearDownSource ==
  /\ move.kind = "transfer" /\ move.at = "teardown"
  /\ IF move.from \in online
     THEN \E result \in {"done", "failed", "lost"} :
            /\ Teardown(move.from, "transfer", result)
            /\ Noted(move.from, "transfer", result)
            /\ move' = [move EXCEPT !.at = "record", !.told = result]
     ELSE /\ known' = known \cup {move.from}
          /\ Goes("record")
          /\ UNCHANGED <<runs, answered>>
  /\ UNCHANGED <<stack, online, deletion, broken, begun, asked>>

\* The post-check's verdict becomes the status.
RecordTransfer ==
  /\ move.kind = "transfer" /\ move.at = "record"
  /\ \/ /\ stack.exists
        /\ \E s \in {"active", "error"} :
             stack' = [stack EXCEPT !.host = move.to, !.status = s]
        /\ UNCHANGED broken
     \/ broken' = TRUE /\ UNCHANGED stack
  /\ Ends
  /\ UNCHANGED <<runs, online, answered, deletion, known, begun, asked>>
-----------------------------------------------------------------------------
(***************************************************************************)
(* The migrate route: it may tear the old project down first, then points  *)
(* the row elsewhere and lets an ordinary sync deploy it.                  *)
(***************************************************************************)
AskMigrate ==
  /\ asked = NotAsked /\ stack.exists /\ begun < MaxOperations
  /\ asked' = [from |-> stack.host, deployed |-> stack.deployed]
  /\ UNCHANGED <<stack, runs, online, answered, move, deletion, known, broken, begun>>

\* The row is not read again under the lock: what is torn down is what the
\* request saw, although the check that its worker is online is made now.
BeginMigrate ==
  /\ asked # NotAsked
  /\ IF MayMove /\ stack.exists
     THEN \E teardown \in BOOLEAN :
            /\ teardown => stack.host \in online
            /\ move' = [NoMove EXCEPT !.kind = "migrate", !.from = asked.from,
                                     !.at = IF teardown /\ asked.deployed THEN "teardown"
                                                                         ELSE "repoint"]
            /\ begun' = begun + 1
            /\ Races
     ELSE UNCHANGED <<move, begun, deletion>>
  /\ asked' = NotAsked
  /\ UNCHANGED <<stack, runs, online, answered, known, broken>>

MigrateTeardown ==
  /\ move.kind = "migrate" /\ move.at = "teardown"
  /\ \/ /\ stack.files
        /\ \E result \in {"done", "failed", "lost"} :
             /\ Teardown(move.from, "migrate", result)
             /\ move' = IF result = "done"
                        THEN [move EXCEPT !.at = "repoint", !.told = "done"] ELSE NoMove
     \/ ~stack.files /\ Ends /\ UNCHANGED <<runs, answered>>
  /\ UNCHANGED <<stack, online, deletion, known, broken, begun, asked>>

Repoint ==
  /\ move.kind = "migrate" /\ move.at = "repoint"
  /\ SaveStatus("pending")
  /\ Ends
  /\ UNCHANGED <<runs, online, answered, deletion, known, begun, asked>>
-----------------------------------------------------------------------------
(***************************************************************************)
(* The delete route.  With force it goes on without the worker and without *)
(* the rendered files it would tear down.                                  *)
(***************************************************************************)
BeginDelete ==
  /\ deletion.at = "idle" /\ begun < MaxOperations /\ stack.exists
  /\ \E force \in BOOLEAN :
       /\ force \/ (stack.host \in online /\ (stack.deployed => stack.files))
       /\ LET teardown == stack.files /\ stack.host \in online
          IN  /\ deletion' = [at |-> IF teardown THEN "teardown" ELSE "children",
                              from |-> stack.host, teardown |-> teardown,
                              raced |-> move # NoMove]
              /\ known' = IF teardown THEN known ELSE known \cup {stack.host}
  /\ begun' = begun + 1
  /\ UNCHANGED <<stack, runs, online, answered, move, broken, asked>>

\* Mutant: the row goes whatever the worker answers.
DeleteTeardown_Anyway ==
  /\ deletion.at = "teardown"
  /\ \E result \in {"done", "failed", "lost"} :
       /\ Teardown(deletion.from, "delete", result)
       /\ known' = IF answered[deletion.from]["delete"] = "done"
                   THEN known \cup {deletion.from} ELSE known
  /\ deletion' = [deletion EXCEPT !.at = "children"]
  /\ UNCHANGED <<stack, online, move, broken, begun, asked>>

DeleteTeardown ==
  /\ deletion.at = "teardown"
  /\ \E result \in {"done", "failed", "lost"} :
       /\ Teardown(deletion.from, "delete", result)
       /\ known' = IF answered[deletion.from]["delete"] = "done"
                   THEN known \cup {deletion.from} ELSE known
       /\ deletion' = IF result = "done" THEN [deletion EXCEPT !.at = "children"]
                                         ELSE NoDeletion
  /\ UNCHANGED <<stack, online, move, broken, begun, asked>>

\* The rows that refer to the stack go one by one; a failure ends the request.
DeleteChildren ==
  /\ deletion.at = "children"
  /\ \/ deletion' = [deletion EXCEPT !.at = "row"] /\ stack' = [stack EXCEPT !.files = FALSE]
     \/ deletion' = NoDeletion /\ UNCHANGED stack
  /\ UNCHANGED <<runs, online, answered, move, known, broken, begun, asked>>

DeleteRow ==
  /\ deletion.at = "row"
  /\ \/ /\ stack' = [stack EXCEPT !.exists = FALSE]
        /\ deletion' = [deletion EXCEPT !.at = "deleted"]
     \/ deletion' = NoDeletion /\ UNCHANGED stack
  /\ UNCHANGED <<runs, online, answered, move, known, broken, begun, asked>>

RelocationNext ==
  \/ \E h \in Hosts : Disconnect(h) \/ Connect(h) \/ BeginTransfer(h)
  \/ \E h \in Hosts, p \in Purposes : Forget(h, p)
  \/ BeginDeploy \/ Deploy \/ RecordDeploy
  \/ LogFails \/ ProbeTarget \/ DeployTarget \/ CleanUpTarget \/ TransferFails
  \/ TearDownSource \/ RecordTransfer
  \/ AskMigrate \/ BeginMigrate \/ MigrateTeardown \/ Repoint
  \/ BeginDelete \/ DeleteTeardown \/ DeleteChildren \/ DeleteRow

RelocationSpec == RelocationInit /\ [][RelocationNext]_relocationVars
-----------------------------------------------------------------------------
RelocationTypeOK ==
  /\ stack \in [exists : BOOLEAN, host : Hosts, status : Statuses, deployed : BOOLEAN,
                files : BOOLEAN]
  /\ runs \in [Hosts -> BOOLEAN] /\ online \subseteq Hosts /\ known \subseteq Hosts
  /\ answered \in [Hosts -> [Purposes -> Answers]]
  /\ move.kind \in {"none", "deploy", "transfer", "migrate"}
  /\ move.kind = "transfer" => move.from # move.to
  /\ move.kind # "none" => move.from \in Hosts
  /\ asked \in [from : Hosts \cup {NoHost}, deployed : BOOLEAN]
  /\ deletion.at \in {"idle", "teardown", "children", "row", "deleted"}
  /\ broken \in BOOLEAN /\ begun \in 0 .. MaxOperations

\* Outside of a transfer the stack's containers are on its own worker only.  A
\* copy elsewhere was reported as possibly left behind, or is there because the
\* teardown was answered from the cache (TransferStack in reconciler.go).
StraysAreKnown ==
  \A h \in Hosts :
    /\ runs[h] /\ stack.exists /\ h # stack.host
    /\ move.kind # "transfer" /\ ~broken
    => h \in known

\* A stack that was deleted runs nowhere, unless its worker was left out by
\* force, was left behind before, or an operation that holds the stack's lock,
\* which the delete route does not take, was under way at the same time.
DeletedRunsNowhere ==
  deletion.at = "deleted" /\ ~deletion.raced =>
    \A h \in Hosts : runs[h] => h \in known \/ broken

\* A stack nobody works on does not stay on "syncing": every early return of
\* TransferStack puts another status back.
TransferSettlesStatus ==
  move = NoMove /\ ~broken => stack.status # "syncing"

\* Transfers, migrations and deletions leave nothing running that nobody knows
\* of, and no stack on "syncing".
RelocationSafety ==
  /\ RelocationTypeOK /\ StraysAreKnown
  /\ DeletedRunsNowhere /\ TransferSettlesStatus
=============================================================================
