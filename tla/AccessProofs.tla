---------------------------- MODULE AccessProofs ----------------------------
(***************************************************************************)
(* Who may do what: the theorems of WorkerAccess, Accounts and             *)
(* ServiceAccounts, for every value of their constants.                    *)
(***************************************************************************)
EXTENDS WorkerAccess, Accounts, ServiceAccounts, FiniteSetTheorems, TLAPS

(***************************************************************************)
(* That a revoked worker's token stays unusable, however often the worker  *)
(* registers and connects. The revoke route relies on the token being      *)
(* linked to the worker when it looks for tokens; between the creation of  *)
(* the workers row and the save of the token it is not. What saves it is   *)
(* Service.mu: with nobody in ActivateToken, a worker that exists has a    *)
(* linked token or a dead one.                                             *)
(***************************************************************************)

TokenStatuses == {"none", "STAGING", "ACTIVE", "REVOKED", "EXPIRED"}
Steps == {"away", "activating", "admitted", "registered", "connecting", "creating",
          "recreating", "upgrading", "reading", "touching", "left"}

AccessTyped ==
  /\ token \in [status : TokenStatuses, linked : BOOLEAN]
  /\ worker \in Statuses
  /\ visit \in [Visits -> Steps] /\ seen \in [Visits -> Statuses]

Dead == token.status \in {"REVOKED", "EXPIRED"}
LinkedOrDead == token.linked \/ Dead
WorkerExists == worker # "none"

\* The visit in ActivateToken: before the workers row was created for it,
\* after, and with a token that had its worker all along.
Activating(v) == visit[v] \in {"activating", "connecting"}
Creating(v) == visit[v] \in {"creating", "recreating"}
HolderInv(v) ==
  /\ Activating(v) \/ Creating(v)
  /\ Activating(v) /\ seen[v] = "none" => ~WorkerExists
  /\ Activating(v) /\ seen[v] # "none" => LinkedOrDead

AccessInv ==
  /\ AccessTyped
  /\ holder \in Visits => HolderInv(holder)
  /\ holder \in Visits \cup {0}
  /\ holder = 0 /\ WorkerExists => LinkedOrDead
  /\ revoker # "idle" => WorkerExists
  /\ revoker \in {"tokens", "done"} => Dead /\ holder = 0
  /\ \A v \in Visits :
       /\ visit[v] \in Steps \ {"away", "activating", "connecting", "left"} => WorkerExists
       /\ seen[v] # "none" => WorkerExists

\* Nobody in ActivateToken is no visit.
LEMMA ZeroIsNoVisit == 0 \notin Visits
  BY DEF Visits

\* The invariant holds before anybody came.
LEMMA AccessStart == AccessInit => AccessInv
  BY ZeroIsNoVisit
  DEF AccessInit, AccessInv, AccessTyped, TokenStatuses, Statuses, Steps, NoToken, WorkerExists

\* ActivateToken.
LEMMA ActivateKeeps ==
  ASSUME AccessInv, NEW v \in Visits,
         ActivateRead(v) \/ ActivateRefused(v) \/ ActivateCreate(v) \/ ActivateSave(v)
  PROVE  AccessInv'
<1> USE ZeroIsNoVisit
    DEF AccessInv, AccessTyped, HolderInv, Activating, Creating, LinkedOrDead, Dead,
        WorkerExists, Goto, TokenStatuses, Statuses, Steps
<1>1. CASE ActivateRead(v)
  BY <1>1, Zenon DEF ActivateRead, Usable
<1>2. CASE ActivateRefused(v)
  BY <1>2, Zenon DEF ActivateRefused, Usable
<1>3. CASE ActivateCreate(v)
  BY <1>3, Zenon DEF ActivateCreate
<1>4. CASE ActivateSave(v)
  <2>1. /\ token' \in {token, [status |-> "ACTIVE", linked |-> TRUE]}
        /\ token' = token => LinkedOrDead
    BY <1>4 DEF ActivateSave, Saved
  <2>2. revoker \notin {"tokens", "done"} /\ WorkerExists
    BY <1>4, Zenon DEF ActivateSave
  <2>3. \E s \in {"left", "admitted", "upgrading"} : visit' = [visit EXCEPT ![v] = s]
    BY <1>4, Zenon DEF ActivateSave
  <2>4. holder' = 0 /\ UNCHANGED <<worker, seen, revoker>>
    BY <1>4, Zenon DEF ActivateSave
  <2>5. AccessTyped'
    <3>1. token' \in [status : TokenStatuses, linked : BOOLEAN]
      <4>1. CASE token' = token
        BY <4>1, Zenon
      <4>2. CASE token' = [status |-> "ACTIVE", linked |-> TRUE]
        BY <4>2, Zenon
      <4> QED
        BY <2>1, <4>1, <4>2, Zenon
    <3>2. visit' \in [Visits -> Steps]
      BY <2>3, Zenon
    <3> QED
      BY <2>4, <3>1, <3>2, Zenon
  <2>6. LinkedOrDead' /\ WorkerExists'
    <3>1. CASE token' = token
      BY <2>1, <2>2, <2>4, <3>1, Zenon
    <3>2. CASE token' = [status |-> "ACTIVE", linked |-> TRUE]
      BY <2>2, <2>4, <3>2, Zenon
    <3> QED
      BY <2>1, <3>1, <3>2, Zenon
  <2>7. revoker' \notin {"tokens", "done"}
    BY <2>2, <2>4, Zenon
  <2> QED
    BY <2>4, <2>5, <2>6, <2>7, Zenon
<1> QED
  BY <1>1, <1>2, <1>3, <1>4, Zenon

\* The endpoints after ActivateToken never touch the token.
LEMMA EndpointsKeep ==
  ASSUME AccessInv, NEW v \in Visits,
         \/ Register(v) \/ Join(v) \/ Message(v) \/ Touch(v) \/ Leave(v) \/ Break(v)
  PROVE  AccessInv'
<1> USE ZeroIsNoVisit
    DEF AccessInv, AccessTyped, HolderInv, Activating, Creating, LinkedOrDead, Dead,
        WorkerExists, Goto, Statuses, Steps
<1>1. CASE Register(v) \/ Touch(v)
  BY <1>1 DEF Register, Touch, Saved, Touched
<1>2. CASE Join(v)
  BY <1>2, Zenon DEF Join, Touched
<1>3. CASE Message(v)
  BY <1>3, Zenon DEF Message
<1>4. CASE Leave(v) \/ Break(v)
  BY <1>4 DEF Leave, Break
<1> QED
  BY <1>1, <1>2, <1>3, <1>4, Zenon

\* The routes, the cron and the clock.
LEMMA OthersKeep ==
  ASSUME AccessInv,
         \/ IssueToken \/ HourPasses \/ RevokeBegin \/ RevokeMark \/ RevokeTokens
         \/ RevokeDisconnect \/ ExpireFind \/ ExpireSave \/ UNCHANGED accessVars
  PROVE  AccessInv'
<1> USE ZeroIsNoVisit
    DEF AccessInv, AccessTyped, HolderInv, Activating, Creating, LinkedOrDead, Dead,
        WorkerExists, TokenStatuses, Statuses
<1>1. CASE IssueToken
  BY <1>1, Zenon DEF IssueToken, NoToken
<1>2. CASE HourPasses \/ RevokeBegin \/ RevokeDisconnect \/ ExpireFind
  BY <1>2, Zenon DEF HourPasses, RevokeBegin, RevokeDisconnect, ExpireFind
<1>3. CASE RevokeMark
  BY <1>3, Zenon DEF RevokeMark
<1>4. CASE RevokeTokens
  BY <1>4, Zenon DEF RevokeTokens
<1>5. CASE ExpireSave
  <2>1. CASE hourOver
    <3>1. PICK linked \in Saved(token.linked, FALSE) :
            token' = [status |-> "EXPIRED", linked |-> linked]
      BY <1>5, <2>1, Zenon DEF ExpireSave
    <3>2. token.linked \in BOOLEAN
      BY Zenon
    <3>3. linked \in BOOLEAN
      BY <3>2, Zenon DEF Saved
    <3>4. Dead' /\ token' \in [status : TokenStatuses, linked : BOOLEAN]
      BY <3>1, <3>3, Zenon
    <3>5. UNCHANGED <<worker, holder, visit, seen, revoker>>
      BY <1>5, Zenon DEF ExpireSave
    <3> QED
      BY <3>4, <3>5, Zenon
  <2>2. CASE ~hourOver
    BY <1>5, <2>2, Zenon DEF ExpireSave
  <2> QED
    BY <2>1, <2>2, Zenon
<1>6. CASE UNCHANGED accessVars
  BY <1>6, Zenon DEF accessVars
<1> QED
  BY <1>1, <1>2, <1>3, <1>4, <1>5, <1>6, Zenon


\* The rows and the connections have their types after every step.
LEMMA AccessTypes ==
  ASSUME AccessTypeOK, AccessInv, [AccessNext]_accessVars, AccessInv' PROVE AccessTypeOK'
<1>1. /\ token' \in [status : {"none", "STAGING", "ACTIVE", "REVOKED", "EXPIRED"}, linked : BOOLEAN]
      /\ worker' \in Statuses /\ seen' \in [Visits -> Statuses]
      /\ visit' \in [Visits -> {"away", "activating", "admitted", "registered",
                                "connecting", "creating", "recreating", "upgrading",
                                "reading", "touching", "left"}]
  BY Zenon DEF AccessInv, AccessTyped, TokenStatuses, Steps
<1>2. holder' \in 0 .. MaxVisits
  BY AccessAssumption DEF AccessInv, Visits
<1> SUFFICES /\ hourOver' \in BOOLEAN /\ tags' \in BOOLEAN
             /\ connection' \in 0 .. MaxVisits /\ broken' \subseteq Visits
             /\ revoker' \in {"idle", "found", "marked", "tokens", "done"}
             /\ expirer' \in {"idle", "found"}
  BY <1>1, <1>2, Zenon DEF AccessTypeOK
<1>3. /\ hourOver \in BOOLEAN /\ tags \in BOOLEAN
      /\ connection \in 0 .. MaxVisits /\ broken \subseteq Visits
      /\ revoker \in {"idle", "found", "marked", "tokens", "done"}
      /\ expirer \in {"idle", "found"}
  BY Zenon DEF AccessTypeOK
<1>4. 0 \in 0 .. MaxVisits /\ Visits \subseteq 0 .. MaxVisits
  BY AccessAssumption DEF Visits
<1>5. ASSUME NEW v \in Visits, ActivateRead(v) \/ ActivateRefused(v) \/ ActivateCreate(v)
                               \/ ActivateSave(v) \/ Message(v) \/ Touch(v)
      PROVE  UNCHANGED <<hourOver, tags, connection, broken, revoker, expirer>>
  BY <1>5, Zenon DEF ActivateRead, ActivateRefused, ActivateCreate, ActivateSave, Message, Touch
<1>6. ASSUME NEW v \in Visits, Register(v) \/ Join(v) \/ Leave(v) \/ Break(v)
      PROVE  /\ tags' \in BOOLEAN /\ connection' \in 0 .. MaxVisits /\ broken' \subseteq Visits
             /\ UNCHANGED <<hourOver, revoker, expirer>>
  BY <1>3, <1>4, <1>6, Zenon DEF Register, Join, Leave, Break
<1>7. CASE IssueToken \/ HourPasses \/ RevokeBegin \/ RevokeMark \/ RevokeTokens
           \/ RevokeDisconnect \/ ExpireFind \/ ExpireSave
  BY <1>3, <1>4, <1>7, Zenon
     DEF IssueToken, HourPasses, RevokeBegin, RevokeMark, RevokeTokens, RevokeDisconnect,
         ExpireFind, ExpireSave
<1>8. CASE UNCHANGED accessVars
  BY <1>3, <1>8, Zenon DEF accessVars
<1>9. ASSUME NEW v \in Visits,
             \/ ActivateRead(v) \/ ActivateRefused(v) \/ ActivateCreate(v)
             \/ ActivateSave(v)
             \/ Register(v) \/ Join(v) \/ Message(v) \/ Touch(v) \/ Leave(v)
             \/ Break(v)
      PROVE /\ hourOver' \in BOOLEAN /\ tags' \in BOOLEAN
            /\ connection' \in 0 .. MaxVisits /\ broken' \subseteq Visits
            /\ revoker' \in {"idle", "found", "marked", "tokens", "done"}
            /\ expirer' \in {"idle", "found"}
  BY <1>3, <1>5, <1>6, <1>9, Zenon
<1> QED BY <1>7, <1>8, <1>9, Zenon DEF AccessNext

\* Once the revoke route has passed the tokens, no visit is admitted with the
\* worker's token any more: RevokeTokensForWorker, ActivateToken and
\* ExpireStagingTokens, for any number of registrations and reconnections.
THEOREM RevocationIsFinal == AccessSpec => []AccessSafety
<1>1. AccessInv /\ [AccessNext]_accessVars => AccessInv'
  BY ActivateKeeps, EndpointsKeep, OthersKeep, Zenon DEF AccessNext
<1>2. AccessInit => AccessTypeOK
  <2> SUFFICES ASSUME AccessInit PROVE AccessTypeOK
    BY Zenon
  <2>1. AccessTyped
    BY AccessStart, Zenon DEF AccessInv
  <2>2. holder \in 0 .. MaxVisits /\ connection \in 0 .. MaxVisits
    BY AccessAssumption DEF AccessInit
  <2> QED BY <2>1, <2>2, Zenon DEF AccessInit, AccessTypeOK, AccessTyped, TokenStatuses, Steps
<1>3. AccessTypeOK /\ AccessInv /\ [AccessNext]_accessVars => AccessTypeOK'
  BY <1>1, AccessTypes, Zenon
<1>4. AccessInv /\ AccessTypeOK => AccessSafety
  BY Zenon DEF AccessInv, Dead, RevokedCannotReturn, AccessSafety
<1> QED
  BY AccessStart, <1>1, <1>2, <1>3, <1>4, PTL DEF AccessSpec

(***************************************************************************)
(* Users, invitations and logins, for any number of requests. A request    *)
(* works with the row it has loaded, and PocketBase saves only the columns *)
(* it changed, so the invariant says of every request under way what its   *)
(* save can do to the row it will meet.                                    *)
(***************************************************************************)

UserRows == [role : Roles \cup {"none"}, disabled : BOOLEAN, protected : BOOLEAN]

AccountTypes ==
  /\ AccountsTypeOK /\ request \in [Requests -> Jobs]
  /\ \A e \in Emails : /\ login[e] # "none" => logins[e] < MaxLogins
                       /\ invites[e].status = "open" => invites[e].role \in Assigned

\* The columns of a row that was changed.
LEMMA ChangedType ==
  ASSUME NEW row \in UserRows, NEW change \in Edits
  PROVE  /\ Changed(row, change) \in UserRows
         /\ row.role # "none" => Changed(row, change).role # "none"
BY AccountsAssumption, Zenon DEF Changed, UserRows, Roles

\* A save writes the columns that the request changed over the row it meets.
LEMMA MergedUser ==
  ASSUME NEW u \in UserRows, NEW old \in UserRows, NEW new \in UserRows, NEW m,
         m = [c \in DOMAIN old |-> IF new[c] # old[c] THEN new[c] ELSE u[c]]
  PROVE  m \in UserRows /\ m.role = IF new.role # old.role THEN new.role ELSE u.role
<1>1. DOMAIN old = {"role", "disabled", "protected"}
  BY Zenon DEF UserRows
<1>2. m = [role |-> IF new.role # old.role THEN new.role ELSE u.role,
           disabled |-> IF new.disabled # old.disabled THEN new.disabled ELSE u.disabled,
           protected |-> IF new.protected # old.protected THEN new.protected ELSE u.protected]
  BY <1>1, Zenon
<1> QED BY <1>2, Zenon DEF UserRows

\* What a request in progress carries.
LEMMA JobFields ==
  ASSUME NEW j \in Jobs
  PROVE  /\ j.op \in {"idle", "setup", "accept", "mark", "check", "save"}
         /\ j.op # "idle" => j.email \in Emails
         /\ j.op \in {"accept", "mark"} => j.role \in Assigned
         /\ j.op \in {"check", "save"} =>
              j.change \in Edits /\ j.row \in UserRows /\ j.row.role # "none"
         /\ j.op = "check" => [j EXCEPT !.op = "save"] \in Jobs
         /\ j.op = "accept" => /\ [j EXCEPT !.op = "mark"] \in Jobs
                               /\ [j EXCEPT !.op = "mark"].email = j.email
                               /\ [j EXCEPT !.op = "mark"].op = "mark"
         /\ j.op = "check" => [j EXCEPT !.op = "save"].op = "save"
<1>1. CASE j = Idle  BY <1>1, Zenon DEF Idle
<1>2. CASE j \in [op : {"setup"}, email : Emails]  BY <1>2, Zenon
<1>3. CASE j \in [op : {"accept", "mark"}, email : Emails, role : Assigned]
  BY <1>3, Zenon DEF Jobs
<1>4. CASE j \in [op : {"check", "save"}, email : Emails, change : Edits,
                  row : [role : Roles, disabled : BOOLEAN, protected : BOOLEAN]]
  <2>1. j.row \in UserRows /\ j.row.role # "none"
    BY <1>4, Zenon DEF UserRows, Roles
  <2> QED BY <1>4, <2>1, Zenon DEF Jobs
<1> QED BY <1>1, <1>2, <1>3, <1>4, Zenon DEF Jobs

\* HighestRole is one of the roles.
LEMMA HighestIsRole ==
  ASSUME NEW roles \in SUBSET Roles, roles # {} PROVE HighestRole(roles) \in roles
<1>1. \E r \in roles : \A s \in roles : AtLeast(r, s)
  <2>1. /\ RoleRank("monitoring") = 1 /\ RoleRank("viewer") = 2
        /\ RoleRank("operator") = 3 /\ RoleRank("admin") = 4
    BY Zenon DEF RoleRank
  <2>2. CASE "admin" \in roles  BY <2>1, <2>2 DEF AtLeast, Roles
  <2>3. CASE "admin" \notin roles /\ "operator" \in roles  BY <2>1, <2>3 DEF AtLeast, Roles
  <2>4. CASE "admin" \notin roles /\ "operator" \notin roles /\ "viewer" \in roles
    BY <2>1, <2>4 DEF AtLeast, Roles
  <2>5. CASE roles = {"monitoring"}  BY <2>1, <2>5 DEF AtLeast
  <2> QED BY <2>2, <2>3, <2>4, <2>5, Zenon DEF Roles
<1> QED BY <1>1, Zenon DEF HighestRole

\* A column of a row in a table.
LEMMA ColumnOp ==
  ASSUME NEW f, NEW r \in DOMAIN f, NEW op
  PROVE  [f EXCEPT ![r].op = op] = [f EXCEPT ![r] = [f[r] EXCEPT !.op = op]]
BY Zenon

\* An invitation whose status changes keeps its role.
LEMMA ColumnStatus ==
  ASSUME NEW S, NEW f \in [S -> [status : {"none", "open", "used", "expired"}, role : Roles]],
         NEW e \in S, NEW x \in {"none", "open", "used", "expired"}, NEW g,
         g = [f EXCEPT ![e].status = x]
  PROVE  /\ g \in [S -> [status : {"none", "open", "used", "expired"}, role : Roles]]
         /\ g[e].status = x /\ g[e].role = f[e].role
         /\ \A d \in S : d # e => g[d] = f[d]
BY Zenon

\* The types hold of a database that was just created.
LEMMA AccountTypesInit == AccountsInit => AccountTypes
<1> SUFFICES ASSUME AccountsInit PROVE AccountTypes
  BY Zenon
<1>1. users \in [Emails -> UserRows]
  BY Zenon DEF AccountsInit, NoUser, UserRows
<1>2. invites \in [Emails -> [status : {"none", "open", "used", "expired"}, role : Roles]]
  BY Zenon DEF AccountsInit, Roles
<1>3. sso \in [Emails -> [role : SsoRoles \cup {"none", ""}, consumed : BOOLEAN]]
  BY Zenon DEF AccountsInit
<1>4. /\ login \in [Emails -> Roles \cup {"none"}] /\ logins \in [Emails -> 0 .. MaxLogins]
      /\ granted \in [Emails -> Nat]
  BY AccountsAssumption DEF AccountsInit
<1>5. request \in [Requests -> Jobs]
  BY Zenon DEF AccountsInit, Jobs
<1>6. \A e \in Emails : login[e] = "none" /\ invites[e].status = "none"
  BY Zenon DEF AccountsInit
<1> QED BY <1>1, <1>2, <1>3, <1>4, <1>5, <1>6, Zenon DEF AccountsInit, AccountTypes, AccountsTypeOK, UserRows

\* The rows keep their types through the setup, user management and invites.
LEMMA RequestTypes ==
  ASSUME AccountTypes, NEW r \in Requests,
         \/ \E e \in Emails : \/ SetupBegin(r, e)
                              \/ \E change \in Edits : UpdateBegin(r, e, change)
                              \/ AcceptBegin(r, e)
         \/ SetupCreate(r) \/ UpdateCheck(r) \/ UpdateSave(r)
         \/ AcceptCreate(r) \/ AcceptMark(r)
  PROVE  /\ AccountTypes' /\ UNCHANGED ssoVars
         /\ \A e \in Emails : Exists(e) => Exists(e)'
<1>1. /\ users \in [Emails -> UserRows] /\ request \in [Requests -> Jobs] /\ request[r] \in Jobs
      /\ invites \in [Emails -> [status : {"none", "open", "used", "expired"}, role : Roles]]
  BY Zenon DEF AccountTypes, AccountsTypeOK, UserRows
<1>2. Idle \in Jobs /\ [request EXCEPT ![r] = Idle] \in [Requests -> Jobs]
  BY <1>1, Zenon DEF Jobs
<1>3. UNCHANGED ssoVars
  BY Zenon DEF SetupBegin, UpdateBegin, AcceptBegin, SetupCreate, UpdateCheck, UpdateSave,
         AcceptCreate, AcceptMark
<1> DEFINE Typed == /\ users' \in [Emails -> UserRows] /\ request' \in [Requests -> Jobs]
                    /\ superusers' \subseteq Emails
                    /\ invites' \in [Emails -> [status : {"none", "open", "used", "expired"}, role : Roles]]
                    /\ \A e \in Emails :
                         /\ users[e].role # "none" => users'[e].role # "none"
                         /\ invites'[e].status = "open" => invites'[e].role \in Assigned
<1>4. SUFFICES Typed
  BY <1>3, Zenon DEF AccountTypes, AccountsTypeOK, UserRows, ssoVars, Exists
<1>5. /\ superusers \subseteq Emails
      /\ \A e \in Emails : invites[e].status = "open" => invites[e].role \in Assigned
  BY Zenon DEF AccountTypes, AccountsTypeOK
<1>6. ASSUME NEW e \in Emails, SetupBegin(r, e) PROVE Typed
  <2>1. [op |-> "setup", email |-> e] \in Jobs
    BY Zenon DEF Jobs
  <2> QED BY <1>1, <1>5, <1>6, <2>1, Zenon DEF SetupBegin, Begin
<1>7. ASSUME NEW e \in Emails, NEW change \in Edits, UpdateBegin(r, e, change) PROVE Typed
  <2>1. users[e] \in [role : Roles, disabled : BOOLEAN, protected : BOOLEAN]
    BY <1>1, <1>7, Zenon DEF UpdateBegin, Exists, UserRows
  <2>2. [op |-> "check", email |-> e, change |-> change, row |-> users[e]] \in Jobs
    BY <2>1, Zenon DEF Jobs
  <2> QED BY <1>1, <1>5, <1>7, <2>2, Zenon DEF UpdateBegin, Begin
<1>8. ASSUME NEW e \in Emails, AcceptBegin(r, e) PROVE Typed
  <2>1. CASE Exists(e)
    <3>1. invites' = [invites EXCEPT ![e].status = "used"] /\ invites[e].status = "open"
      BY <1>8, <2>1, Zenon DEF AcceptBegin
    <3> QED BY <1>1, <1>5, <1>8, <2>1, <3>1, ColumnStatus DEF AcceptBegin
  <2>2. CASE ~Exists(e)
    <3>1. [op |-> "accept", email |-> e, role |-> invites[e].role] \in Jobs
      BY <1>5, <1>8, Zenon DEF AcceptBegin, Jobs
    <3> QED BY <1>1, <1>5, <1>8, <2>2, <3>1, Zenon DEF AcceptBegin, Begin
  <2> QED BY <2>1, <2>2, Zenon
<1>9. CASE SetupCreate(r)
  <2>1. request[r].email \in Emails
    BY <1>1, <1>9, JobFields, Zenon DEF SetupCreate
  <2>2. User("admin", TRUE) \in UserRows /\ User("admin", TRUE).role = "admin"
    BY Zenon DEF User, UserRows, Roles
  <2>3. users' \in [Emails -> UserRows] /\ superusers' \subseteq Emails
    BY <1>1, <1>5, <1>9, <2>1, <2>2, Zenon DEF SetupCreate
  <2>4. \A e \in Emails : users[e].role # "none" => users'[e].role # "none"
    BY <1>1, <1>9, <2>1, <2>2, Zenon DEF SetupCreate
  <2> QED BY <1>1, <1>2, <1>5, <1>9, <2>3, <2>4, Zenon DEF SetupCreate, Done
<1>10. CASE UpdateCheck(r)
  <2>1. request' = [request EXCEPT ![r] = Idle]
        \/ request' = [request EXCEPT ![r] = [request[r] EXCEPT !.op = "save"]]
    BY <1>1, <1>10, ColumnOp, Zenon DEF UpdateCheck, Done, Now
  <2>2. [request[r] EXCEPT !.op = "save"] \in Jobs
    BY <1>1, <1>10, JobFields, Zenon DEF UpdateCheck
  <2>3. request' \in [Requests -> Jobs]
    BY <1>1, <1>2, <2>1, <2>2, Zenon
  <2> QED BY <1>1, <1>5, <1>10, <2>3, Zenon DEF UpdateCheck
<1>11. CASE UpdateSave(r)
  <2> DEFINE e == request[r].email
             old == request[r].row
             new == Changed(old, request[r].change)
             m == [c \in DOMAIN old |-> IF new[c] # old[c] THEN new[c] ELSE users[e][c]]
  <2>1. e \in Emails /\ old \in UserRows /\ old.role # "none" /\ request[r].change \in Edits
    BY <1>1, <1>11, JobFields, Zenon DEF UpdateSave
  <2>2. new \in UserRows /\ new.role # "none"
    BY <2>1, ChangedType, Zenon
  <2>3. users' = [users EXCEPT ![e] = m] /\ users[e] \in UserRows
    BY <1>1, <1>11, <2>1, Zenon DEF UpdateSave
  <2> HIDE DEF new
  <2>4. m \in UserRows /\ m.role = IF new.role # old.role THEN new.role ELSE users[e].role
    BY <2>1, <2>2, <2>3, MergedUser
  <2> HIDE DEF e, m
  <2>5. /\ users' \in [Emails -> UserRows]
        /\ \A f \in Emails : users[f].role # "none" => users'[f].role # "none"
    BY <1>1, <2>1, <2>2, <2>3, <2>4, Zenon
  <2> QED BY <1>1, <1>2, <1>5, <1>11, <2>5, Zenon DEF UpdateSave, Done
<1>12. CASE AcceptCreate(r)
  <2>1. request[r].email \in Emails /\ request[r].role \in Roles
    BY <1>1, <1>12, JobFields, AccountsAssumption, Zenon DEF AcceptCreate, Roles
  <2>2. User(request[r].role, FALSE) \in UserRows /\ User(request[r].role, FALSE).role # "none"
    BY <2>1, Zenon DEF User, UserRows, Roles
  <2>3. /\ users' \in [Emails -> UserRows]
        /\ \A e \in Emails : users[e].role # "none" => users'[e].role # "none"
    BY <1>1, <1>12, <2>1, <2>2, Zenon DEF AcceptCreate
  <2>4. request' = [request EXCEPT ![r] = Idle]
        \/ request' = [request EXCEPT ![r] = [request[r] EXCEPT !.op = "mark"]]
    BY <1>1, <1>12, ColumnOp, Zenon DEF AcceptCreate, Done, Now
  <2>5. [request[r] EXCEPT !.op = "mark"] \in Jobs
    BY <1>1, <1>12, JobFields, Zenon DEF AcceptCreate
  <2>6. request' \in [Requests -> Jobs]
    BY <1>1, <1>2, <2>4, <2>5, Zenon
  <2> QED BY <1>1, <1>5, <1>12, <2>3, <2>6, Zenon DEF AcceptCreate
<1>13. CASE AcceptMark(r)
  <2>1. request[r].email \in Emails
    BY <1>1, <1>13, JobFields, Zenon DEF AcceptMark
  <2>2. invites' = [invites EXCEPT ![request[r].email].status = "used"]
    BY <1>13, Zenon DEF AcceptMark
  <2> QED BY <1>1, <1>2, <1>5, <1>13, <2>1, <2>2, ColumnStatus DEF AcceptMark, Done
<1> QED BY <1>6, <1>7, <1>8, <1>9, <1>10, <1>11, <1>12, <1>13, Zenon

\* The rows keep their types through the steps of an address and of the mapping.
LEMMA AddressTypes ==
  ASSUME AccountTypes,
         \/ \E e \in Emails : \/ \E role \in Assigned : CreateInvite(e, role)
                              \/ InviteExpires(e) \/ LoginBegin(e) \/ LoginSave(e) \/ Elevate(e)
         \/ \E roles \in SUBSET Assigned : MapRoles(roles)
  PROVE  /\ AccountTypes' /\ UNCHANGED <<superusers, request>>
         /\ \A e \in Emails : Exists(e) => Exists(e)'
<1>1. /\ users \in [Emails -> UserRows] /\ request \in [Requests -> Jobs]
      /\ superusers \subseteq Emails /\ mapped \subseteq Roles
      /\ invites \in [Emails -> [status : {"none", "open", "used", "expired"}, role : Roles]]
      /\ sso \in [Emails -> [role : SsoRoles \cup {"none", ""}, consumed : BOOLEAN]]
      /\ login \in [Emails -> Roles \cup {"none"}]
      /\ logins \in [Emails -> 0 .. MaxLogins] /\ granted \in [Emails -> Nat]
  BY Zenon DEF AccountTypes, AccountsTypeOK, UserRows
<1>2. UNCHANGED <<superusers, request>>
  BY Zenon DEF CreateInvite, InviteExpires, LoginBegin, LoginSave, Elevate, MapRoles, ssoVars
<1>3. Assigned \subseteq Roles
  BY AccountsAssumption, Zenon DEF Roles
<1>4. ASSUME NEW e \in Emails,
             (\E role \in Assigned : CreateInvite(e, role)) \/ InviteExpires(e)
      PROVE  AccountTypes' /\ \A f \in Emails : Exists(f) => Exists(f)'
  <2>1. UNCHANGED <<users, sso, mapped, login, logins, granted>>
    BY <1>4, Zenon DEF CreateInvite, InviteExpires, ssoVars
  <2>2. /\ invites' \in [Emails -> [status : {"none", "open", "used", "expired"}, role : Roles]]
        /\ \A f \in Emails : invites'[f].status = "open" => invites'[f].role \in Assigned
    <3>1. ASSUME NEW role \in Assigned, CreateInvite(e, role)
          PROVE  <2>2
      BY <1>1, <1>3, <3>1, Zenon DEF CreateInvite, AccountTypes
    <3>2. CASE InviteExpires(e)
      <4>1. invites' = [invites EXCEPT ![e].status = "expired"] /\ invites[e].status = "open"
        BY <3>2, Zenon DEF InviteExpires
      <4>2. /\ invites' \in [Emails -> [status : {"none", "open", "used", "expired"}, role : Roles]]
            /\ invites'[e].status = "expired" /\ \A f \in Emails : f # e => invites'[f] = invites[f]
        <5>1. invites \in [Emails -> [status : {"none", "open", "used", "expired"}, role : Roles]]
          BY <1>1, Zenon
        <5> QED BY <4>1, <5>1, ColumnStatus
      <4>3. \A f \in Emails : invites[f].status = "open" => invites[f].role \in Assigned
        BY Zenon DEF AccountTypes
      <4> QED BY <4>2, <4>3, Zenon
    <3> QED BY <1>4, <3>1, <3>2, Zenon
  <2> QED BY <1>2, <2>1, <2>2, Zenon DEF AccountTypes, AccountsTypeOK, Exists
<1>5. ASSUME NEW e \in Emails, LoginBegin(e)
      PROVE  AccountTypes' /\ \A f \in Emails : Exists(f) => Exists(f)'
  <2>1. HighestRole(mapped) \in Roles
    BY <1>1, <1>5, HighestIsRole, Zenon DEF LoginBegin
  <2>2. sso' \in [Emails -> [role : SsoRoles \cup {"none", ""}, consumed : BOOLEAN]]
    BY <1>1, <1>5, Zenon DEF LoginBegin
  <2>3. /\ login' \in [Emails -> Roles \cup {"none"}]
        /\ UNCHANGED <<users, invites, mapped, logins, granted>>
    BY <1>1, <1>5, <2>1, Zenon DEF LoginBegin
  <2>4. \A f \in Emails : login'[f] # "none" => logins'[f] < MaxLogins
    BY <1>1, <1>5, <2>3, Zenon DEF LoginBegin, AccountTypes
  <2> QED BY <1>2, <2>2, <2>3, <2>4, Zenon DEF AccountTypes, AccountsTypeOK, Exists
<1>6. ASSUME NEW e \in Emails, LoginSave(e)
      PROVE  AccountTypes' /\ \A f \in Emails : Exists(f) => Exists(f)'
  <2>1. login' = [login EXCEPT ![e] = "none"] /\ UNCHANGED <<users, invites, mapped, granted>>
    BY <1>6, Zenon DEF LoginSave
  <2>2. sso' \in [Emails -> [role : SsoRoles \cup {"none", ""}, consumed : BOOLEAN]]
    <3>1. CASE login[e] \in SsoRoles
      <4>1. [role |-> login[e], consumed |-> FALSE] \in [role : SsoRoles \cup {"none", ""}, consumed : BOOLEAN]
        BY <3>1, Zenon
      <4>2. sso' = [sso EXCEPT ![e] = [role |-> login[e], consumed |-> FALSE]]
        BY <1>6, <3>1, Zenon DEF LoginSave
      <4> QED BY <1>1, <4>1, <4>2, Zenon
    <3>2. CASE login[e] \notin SsoRoles
      BY <1>1, <1>6, <3>2, Zenon DEF LoginSave
    <3> QED BY <3>1, <3>2, Zenon
  <2>3. logins[e] < MaxLogins
    BY <1>6, Zenon DEF AccountTypes, LoginSave
  <2>4. /\ logins' \in [Emails -> 0 .. MaxLogins]
        /\ \A f \in Emails : f # e => logins'[f] = logins[f]
    <3>1. logins[e] + 1 \in 0 .. MaxLogins
      <4>1. logins[e] \in 0 .. MaxLogins
        BY <1>1, Zenon
      <4> QED BY <2>3, <4>1, AccountsAssumption
    <3>2. logins' = logins \/ logins' = [logins EXCEPT ![e] = logins[e] + 1]
      BY <1>6, Zenon DEF LoginSave
    <3> QED BY <1>1, <3>1, <3>2, Zenon
  <2>5. /\ login' \in [Emails -> Roles \cup {"none"}]
        /\ \A f \in Emails : login'[f] # "none" => logins'[f] < MaxLogins
    BY <1>1, <2>1, <2>4, Zenon DEF AccountTypes
  <2> QED BY <1>2, <2>1, <2>2, <2>4, <2>5, Zenon DEF AccountTypes, AccountsTypeOK, Exists
<1>7. ASSUME NEW e \in Emails, Elevate(e)
      PROVE  AccountTypes' /\ \A f \in Emails : Exists(f) => Exists(f)'
  <2> DEFINE u == IF Exists(e) THEN [users[e] EXCEPT !.role = sso[e].role] ELSE User(sso[e].role, FALSE)
  <2>1. sso[e].role \in Roles /\ users' = [users EXCEPT ![e] = u]
    BY <1>1, <1>7, Zenon DEF Elevate, SsoRoles, Roles
  <2>2. u \in UserRows /\ u.role # "none"
    <3>1. User(sso[e].role, FALSE) \in UserRows /\ User(sso[e].role, FALSE).role = sso[e].role
      BY <2>1, Zenon DEF User, UserRows
    <3>2. /\ [users[e] EXCEPT !.role = sso[e].role] \in UserRows
          /\ [users[e] EXCEPT !.role = sso[e].role].role = sso[e].role
      <4>1. users[e] \in UserRows
        BY <1>1, Zenon
      <4> QED BY <2>1, <4>1, Zenon DEF UserRows
    <3> QED BY <2>1, <3>1, <3>2, Zenon DEF Roles
  <2> HIDE DEF u
  <2>3. users' \in [Emails -> UserRows] /\ \A f \in Emails : Exists(f) => Exists(f)'
    BY <1>1, <2>1, <2>2, Zenon DEF Exists
  <2>4. /\ sso' \in [Emails -> [role : SsoRoles \cup {"none", ""}, consumed : BOOLEAN]]
        /\ granted' \in [Emails -> Nat] /\ UNCHANGED <<invites, mapped, login, logins>>
    <3>1. sso' = [sso EXCEPT ![e] = [sso[e] EXCEPT !.consumed = TRUE]]
      BY <1>1, <1>7, Zenon DEF Elevate
    <3>2. [sso[e] EXCEPT !.consumed = TRUE] \in [role : SsoRoles \cup {"none", ""}, consumed : BOOLEAN]
      BY <1>1, Zenon
    <3>3. sso' \in [Emails -> [role : SsoRoles \cup {"none", ""}, consumed : BOOLEAN]]
      BY <1>1, <3>1, <3>2, Zenon
    <3>4. granted' \in [Emails -> Nat]
      <4>1. granted[e] + 1 \in Nat /\ granted' = [granted EXCEPT ![e] = granted[e] + 1]
        <5>1. granted[e] \in Nat
          BY <1>1, Zenon
        <5>2. granted' = [granted EXCEPT ![e] = granted[e] + 1]
          BY <1>7, Zenon DEF Elevate
        <5> QED BY <5>1, <5>2
      <4> QED BY <1>1, <4>1, Zenon
    <3> QED BY <1>7, <3>3, <3>4, Zenon DEF Elevate
  <2> QED BY <1>2, <2>3, <2>4, Zenon DEF AccountTypes, AccountsTypeOK, UserRows
<1>8. ASSUME NEW roles \in SUBSET Assigned, MapRoles(roles)
      PROVE  AccountTypes' /\ \A f \in Emails : Exists(f) => Exists(f)'
  BY <1>3, <1>8, Zenon DEF MapRoles, AccountTypes, AccountsTypeOK, Exists
<1> QED BY <1>2, <1>4, <1>5, <1>6, <1>7, <1>8, Zenon

\* Nothing happens before the setup; it leaves one superuser, and users from
\* then on.
SetupInv ==
  /\ \A a, b \in superusers : a = b
  /\ superusers # {} => \E e \in Emails : Exists(e)
  /\ superusers = {} =>
       /\ \A e \in Emails : /\ ~Exists(e) /\ login[e] = "none" /\ sso[e].role \in {"none", ""}
                            /\ invites[e].status = "none"
       /\ mapped = {} /\ \A r \in Requests : request[r].op \in {"idle", "setup"}

\* Every step keeps the setup what it was: one superuser, and nothing before it.
LEMMA SetupStep ==
  ASSUME AccountTypes, SetupInv, AccountsNext,
         AccountTypes', \A e \in Emails : Exists(e) => Exists(e)'
  PROVE  SetupInv'
<1>1. /\ request \in [Requests -> Jobs] /\ superusers \subseteq Emails
      /\ users \in [Emails -> UserRows] /\ \A e \in Emails : Exists(e)' <=> users'[e].role # "none"
  BY Zenon DEF AccountTypes, AccountsTypeOK, UserRows, Exists
<1>2. CASE superusers' = superusers /\ superusers # {}
  BY <1>1, <1>2, Zenon DEF SetupInv
<1>3. ASSUME NEW r \in Requests, SetupCreate(r), superusers' # superusers PROVE SetupInv'
  <2>1. request[r].email \in Emails
    BY <1>1, <1>3, JobFields, Zenon DEF SetupCreate
  <2>2. /\ \A e \in Emails : ~Exists(e) 
        /\ users' = [users EXCEPT ![request[r].email] = User("admin", TRUE)]
        /\ superusers' = superusers \cup {request[r].email}
    BY <1>3, Zenon DEF SetupCreate
  <2>3. superusers = {}
    BY <2>2, Zenon DEF SetupInv
  <2>4. users'[request[r].email].role = "admin"
    BY <1>1, <2>1, <2>2, Zenon DEF User
  <2> QED BY <1>1, <2>1, <2>2, <2>3, <2>4, Zenon DEF SetupInv
<1>4. CASE superusers = {} /\ superusers' = {}
  <2>1. \A e \in Emails : /\ ~Exists(e) /\ login[e] = "none" /\ sso[e].role \in {"none", ""}
                          /\ invites[e].status = "none"
    BY <1>4, Zenon DEF SetupInv
  <2>2. mapped = {} /\ \A r \in Requests : request[r].op \in {"idle", "setup"}
    BY <1>4, Zenon DEF SetupInv
  <2>3. ASSUME NEW r \in Requests, NEW e \in Emails,
               \/ SetupBegin(r, e)
               \/ \E change \in Edits : UpdateBegin(r, e, change)
               \/ AcceptBegin(r, e)
        PROVE  SetupInv'
    <3>1. SetupBegin(r, e)
      BY <1>4, <2>1, <2>3, Zenon DEF UpdateBegin, AcceptBegin, Administered
    <3>2. \A s \in Requests : request'[s].op \in {"idle", "setup"}
      BY <1>1, <2>2, <3>1, Zenon DEF SetupBegin, Begin
    <3> QED BY <1>4, <2>1, <2>2, <3>1, <3>2, Zenon DEF SetupInv, SetupBegin, ssoVars, Exists
  <2>4. ASSUME NEW r \in Requests, SetupCreate(r) \/ UpdateCheck(r) \/ UpdateSave(r)
                                   \/ AcceptCreate(r) \/ AcceptMark(r)
        PROVE  SetupInv'
    <3>1. SetupCreate(r)
      BY <2>2, <2>4, Zenon DEF UpdateCheck, UpdateSave, AcceptCreate, AcceptMark
    <3>2. FALSE
      BY <1>4, <2>1, <3>1, Zenon DEF SetupCreate
    <3> QED BY <3>2, Zenon
  <2>5. ASSUME NEW e \in Emails,
               \/ \E role \in Assigned : CreateInvite(e, role)
               \/ InviteExpires(e)
               \/ LoginBegin(e) \/ LoginSave(e) \/ Elevate(e)
        PROVE  FALSE
    BY <1>4, <2>1, <2>2, <2>5, Zenon
       DEF CreateInvite, Administered, InviteExpires, LoginBegin, LoginSave, Elevate
  <2>6. ASSUME NEW roles \in SUBSET Assigned, MapRoles(roles) PROVE FALSE
    BY <1>4, <2>6, Zenon DEF MapRoles, Administered
  <2> QED BY <2>3, <2>4, <2>5, <2>6, Zenon DEF AccountsNext
<1>5. superusers' = superusers \/ \E r \in Requests : SetupCreate(r)
  BY Zenon DEF AccountsNext, SetupBegin, UpdateBegin, AcceptBegin, UpdateCheck, UpdateSave, AcceptCreate,
         AcceptMark, CreateInvite, InviteExpires, LoginBegin, LoginSave, Elevate, MapRoles
<1> QED BY <1>2, <1>3, <1>4, <1>5, Zenon

\* A used invite belongs to an account, and so does one that is about to be
\* marked.
MarkedHasAccount ==
  \A r \in Requests : request[r].op = "mark" => Exists(request[r].email)

\* Every step keeps an account behind every used invite.
LEMMA InviteStep ==
  ASSUME AccountTypes, UsedInviteHasAccount, MarkedHasAccount, AccountsNext,
         AccountTypes', \A e \in Emails : Exists(e) => Exists(e)'
  PROVE  UsedInviteHasAccount' /\ MarkedHasAccount'
<1>1. /\ request \in [Requests -> Jobs] /\ users \in [Emails -> UserRows]
      /\ invites \in [Emails -> [status : {"none", "open", "used", "expired"}, role : Roles]]
  BY Zenon DEF AccountTypes, AccountsTypeOK, UserRows
<1>2. \A r \in Requests : request[r].op = "mark" => users'[request[r].email].role # "none"
  BY <1>1, JobFields, Zenon DEF MarkedHasAccount, Exists
<1>3. ASSUME NEW r \in Requests, NEW j, request' = [request EXCEPT ![r] = j],
             j.op = "mark" => users'[j.email].role # "none"
      PROVE  MarkedHasAccount'
  BY <1>1, <1>2, <1>3, Zenon DEF MarkedHasAccount, Exists
<1>4. ASSUME UNCHANGED invites PROVE UsedInviteHasAccount'
  BY <1>4, Zenon DEF UsedInviteHasAccount
<1>5. ASSUME UNCHANGED request PROVE MarkedHasAccount'
  BY <1>2, <1>5, Zenon DEF MarkedHasAccount, Exists
<1>6. ASSUME NEW e \in Emails, NEW x \in {"used", "expired"},
             invites' = [invites EXCEPT ![e].status = x], x = "used" => users'[e].role # "none"
      PROVE  UsedInviteHasAccount'
  <2>1. invites'[e].status = x /\ \A f \in Emails : f # e => invites'[f] = invites[f]
    BY <1>1, <1>6, ColumnStatus
  <2> QED BY <1>6, <2>1, Zenon DEF UsedInviteHasAccount, Exists
<1>7. ASSUME NEW r \in Requests, NEW e \in Emails,
             \/ SetupBegin(r, e)
             \/ \E change \in Edits : UpdateBegin(r, e, change)
      PROVE  UsedInviteHasAccount' /\ MarkedHasAccount'
  <2>1. UNCHANGED invites
    BY <1>7, Zenon DEF SetupBegin, UpdateBegin
  <2>2. CASE SetupBegin(r, e)
    <3>1. request' = [request EXCEPT ![r] = [op |-> "setup", email |-> e]]
      BY <2>2, Zenon DEF SetupBegin, Begin
    <3>2. [op |-> "setup", email |-> e].op # "mark"
      BY Zenon
    <3> QED BY <1>3, <1>4, <2>1, <3>1, <3>2, Zenon
  <2>3. ASSUME NEW change \in Edits, UpdateBegin(r, e, change)
        PROVE  UsedInviteHasAccount' /\ MarkedHasAccount'
    <3> DEFINE j == [op |-> "check", email |-> e, change |-> change, row |-> users[e]]
    <3>1. request' = [request EXCEPT ![r] = j]
      BY <2>3, Zenon DEF UpdateBegin, Begin
    <3>2. j.op # "mark"
      BY Zenon
    <3> HIDE DEF j
    <3> QED BY <1>3, <1>4, <2>1, <3>1, <3>2, Zenon
  <2> QED BY <1>7, <2>2, <2>3, Zenon
<1>8. ASSUME NEW r \in Requests, NEW e \in Emails, AcceptBegin(r, e)
      PROVE  UsedInviteHasAccount' /\ MarkedHasAccount'
  <2>1. CASE Exists(e)
    <3>1. users'[e].role # "none"
      BY <2>1, Zenon DEF Exists
    <3>2. UNCHANGED request /\ invites' = [invites EXCEPT ![e].status = "used"]
      BY <1>8, <2>1, Zenon DEF AcceptBegin
    <3> QED BY <1>5, <1>6, <3>1, <3>2, Zenon
  <2>2. CASE ~Exists(e)
    <3>1. UNCHANGED invites
      BY <1>8, <2>2, Zenon DEF AcceptBegin
    <3> DEFINE j == [op |-> "accept", email |-> e, role |-> invites[e].role]
    <3>2. request' = [request EXCEPT ![r] = j] /\ j.op # "mark"
      BY <1>8, <2>2, Zenon DEF AcceptBegin, Begin
    <3> HIDE DEF j
    <3> QED BY <1>3, <1>4, <3>1, <3>2, Zenon
  <2> QED BY <2>1, <2>2, Zenon
<1>9. ASSUME NEW r \in Requests, SetupCreate(r) \/ UpdateSave(r) \/ UpdateCheck(r)
      PROVE  UsedInviteHasAccount' /\ MarkedHasAccount'
  <2>1. UNCHANGED invites
    BY <1>9, Zenon DEF SetupCreate, UpdateSave, UpdateCheck
  <2>2. \/ request' = [request EXCEPT ![r] = Idle]
        \/ request[r].op = "check" /\ request' = [request EXCEPT ![r] = [request[r] EXCEPT !.op = "save"]]
    BY <1>1, <1>9, ColumnOp, Zenon DEF SetupCreate, UpdateSave, UpdateCheck, Done, Now
  <2>3. request[r].op = "check" => [request[r] EXCEPT !.op = "save"].op = "save"
    BY <1>1, JobFields
  <2>4. Idle.op = "idle"
    BY Zenon DEF Idle
  <2> QED BY <1>3, <1>4, <2>1, <2>2, <2>3, <2>4, Zenon
<1>10. ASSUME NEW r \in Requests, AcceptCreate(r)
       PROVE  UsedInviteHasAccount' /\ MarkedHasAccount'
  <2>1. UNCHANGED invites /\ request[r].email \in Emails /\ request[r].role # "none"
    BY <1>1, <1>10, JobFields, AccountsAssumption, Zenon DEF AcceptCreate
  <2>2. CASE Exists(request[r].email)
    BY <1>3, <1>4, <1>10, <2>1, <2>2, Zenon DEF AcceptCreate, Done, Idle
  <2>3. CASE ~Exists(request[r].email)
    <3>1. users'[request[r].email].role # "none"
      BY <1>1, <1>10, <2>1, <2>3 DEF AcceptCreate, User
    <3>2. request' = [request EXCEPT ![r] = [request[r] EXCEPT !.op = "mark"]]
      BY <1>1, <1>10, <2>3, ColumnOp, Zenon DEF AcceptCreate, Now
    <3>3. [request[r] EXCEPT !.op = "mark"].email = request[r].email
      BY <1>1, <1>10, JobFields DEF AcceptCreate
    <3> QED BY <1>3, <1>4, <2>1, <3>1, <3>2, <3>3, Zenon
  <2> QED BY <2>2, <2>3, Zenon
<1>11. ASSUME NEW r \in Requests, AcceptMark(r)
       PROVE  UsedInviteHasAccount' /\ MarkedHasAccount'
  <2>1. request[r].email \in Emails /\ users'[request[r].email].role # "none"
    BY <1>1, <1>2, <1>11, JobFields, Zenon DEF AcceptMark
  <2>2. /\ invites' = [invites EXCEPT ![request[r].email].status = "used"]
        /\ request' = [request EXCEPT ![r] = Idle]
    BY <1>11, Zenon DEF AcceptMark, Done
  <2>3. Idle.op = "idle"
    BY Zenon DEF Idle
  <2> QED BY <1>3, <1>6, <2>1, <2>2, <2>3, Zenon
<1>12. ASSUME NEW e \in Emails, NEW role \in Assigned, CreateInvite(e, role)
       PROVE  UsedInviteHasAccount' /\ MarkedHasAccount'
  <2>1. UNCHANGED request /\ invites' = [invites EXCEPT ![e] = [status |-> "open", role |-> role]]
    BY <1>12, Zenon DEF CreateInvite
  <2>2. UsedInviteHasAccount'
    BY <1>1, <2>1, Zenon DEF UsedInviteHasAccount
  <2> QED BY <1>5, <2>1, <2>2, Zenon
<1>13. ASSUME NEW e \in Emails, InviteExpires(e)
       PROVE  UsedInviteHasAccount' /\ MarkedHasAccount'
  BY <1>5, <1>6, <1>13, Zenon DEF InviteExpires
<1>14. ASSUME NEW e \in Emails, LoginBegin(e) \/ LoginSave(e) \/ Elevate(e)
       PROVE  UNCHANGED <<invites, request>>
  BY <1>14, Zenon DEF LoginBegin, LoginSave, Elevate
<1>15. ASSUME NEW roles \in SUBSET Assigned, MapRoles(roles) PROVE UNCHANGED <<invites, request>>
  BY <1>15, Zenon DEF MapRoles
<1> QED
  BY <1>4, <1>5, <1>7, <1>8, <1>9, <1>10, <1>11, <1>12, <1>13, <1>14, <1>15, Zenon DEF AccountsNext

\* What may still be handed out was earned by a login.
EarnedInv ==
  \A e \in Emails : /\ granted[e] <= logins[e]
                    /\ sso[e].role \notin {"none", ""} /\ ~sso[e].consumed => granted[e] < logins[e]

\* Every step grants only what a login has earned.
LEMMA EarnedStep ==
  ASSUME AccountTypes, EarnedInv, AccountsNext PROVE EarnedInv'
<1>1. /\ logins \in [Emails -> 0 .. MaxLogins] /\ granted \in [Emails -> Nat]
      /\ sso \in [Emails -> [role : SsoRoles \cup {"none", ""}, consumed : BOOLEAN]]
  BY Zenon DEF AccountTypes, AccountsTypeOK
<1>2. CASE UNCHANGED <<sso, logins, granted>>
  BY <1>2, Zenon DEF EarnedInv
<1>3. ASSUME NEW e \in Emails, LoginBegin(e) PROVE EarnedInv'
  <2>1. CASE sso[e].role = "none"
    <3>1. UNCHANGED <<logins, granted>> /\ sso' = [sso EXCEPT ![e] = [sso[e] EXCEPT !.role = ""]]
      BY <1>1, <1>3, <2>1, Zenon DEF LoginBegin
    <3>2. sso'[e].role = "" /\ \A f \in Emails : f # e => sso'[f] = sso[f]
      BY <1>1, <3>1, Zenon
    <3> QED BY <3>1, <3>2, Zenon DEF EarnedInv
  <2>2. CASE sso[e].role # "none"
    BY <1>2, <1>3, <2>2, Zenon DEF LoginBegin
  <2> QED BY <2>1, <2>2, Zenon
<1>4. ASSUME NEW e \in Emails, LoginSave(e) PROVE EarnedInv'
  <2>1. CASE login[e] \in SsoRoles
    <3>1. granted' = granted /\ logins' = [logins EXCEPT ![e] = logins[e] + 1]
          /\ sso' = [sso EXCEPT ![e] = [role |-> login[e], consumed |-> FALSE]]
      BY <1>4, <2>1, Zenon DEF LoginSave
    <3>2. \A f \in Emails : f # e => logins'[f] = logins[f] /\ sso'[f] = sso[f]
      BY <1>1, <3>1, Zenon
    <3>3. logins[e] \in Nat /\ granted[e] \in Nat /\ granted[e] <= logins[e]
      <4>1. logins[e] \in 0 .. MaxLogins /\ granted[e] \in Nat /\ granted[e] <= logins[e]
        BY <1>1, Zenon DEF EarnedInv
      <4> QED BY <4>1
    <3>6. logins'[e] = logins[e] + 1
      BY <1>1, <3>1, Zenon
    <3>4. granted'[e] < logins'[e]
      BY <3>1, <3>3, <3>6
    <3>5. granted'[e] <= logins'[e]
      BY <3>1, <3>3, <3>4
    <3> QED BY <3>1, <3>2, <3>4, <3>5, Zenon DEF EarnedInv
  <2>2. CASE login[e] \notin SsoRoles
    BY <1>2, <1>4, <2>2, Zenon DEF LoginSave
  <2> QED BY <2>1, <2>2, Zenon
<1>5. ASSUME NEW e \in Emails, Elevate(e) PROVE EarnedInv'
  <2>1. logins' = logins /\ granted' = [granted EXCEPT ![e] = granted[e] + 1]
        /\ sso' = [sso EXCEPT ![e] = [sso[e] EXCEPT !.consumed = TRUE]]
    BY <1>1, <1>5, Zenon DEF Elevate
  <2>2. \A f \in Emails : f # e => granted'[f] = granted[f] /\ sso'[f] = sso[f]
    BY <1>1, <2>1, Zenon
  <2>6. sso[e] \in [role : SsoRoles \cup {"none", ""}, consumed : BOOLEAN]
    BY <1>1, Zenon
  <2>7. logins[e] \in Nat /\ granted[e] \in Nat
    <3>1. logins[e] \in 0 .. MaxLogins /\ granted[e] \in Nat
      BY <1>1, Zenon
    <3> QED BY <3>1
  <2>8. granted'[e] = granted[e] + 1 /\ sso'[e] = [sso[e] EXCEPT !.consumed = TRUE]
    BY <1>1, <2>1, Zenon
  <2>3. granted'[e] = granted[e] + 1 /\ logins[e] \in Nat /\ granted[e] \in Nat /\ sso'[e].consumed
    BY <2>6, <2>7, <2>8, Zenon
  <2>4. granted[e] < logins[e]
    BY <1>5, Zenon DEF Elevate, EarnedInv
  <2>5. granted'[e] <= logins'[e]
    BY <2>1, <2>3, <2>4
  <2> QED BY <2>1, <2>2, <2>3, <2>5, Zenon DEF EarnedInv
<1>6. \/ UNCHANGED <<sso, logins, granted>>
      \/ \E e \in Emails : LoginBegin(e) \/ LoginSave(e) \/ Elevate(e)
  BY Zenon DEF AccountsNext, SetupBegin, UpdateBegin, AcceptBegin, SetupCreate, UpdateCheck, UpdateSave,
         AcceptCreate, AcceptMark, CreateInvite, InviteExpires, MapRoles, ssoVars
<1> QED BY <1>2, <1>3, <1>4, <1>5, <1>6, Zenon

\* However requests interleave: one setup, no invite spent for nothing, one
\* elevation per login, and roles that the columns accept (the setup, user,
\* invite and single sign-on routes).
THEOREM AccountsCorrect == AccountsSpec => []AccountsSafety
<1> DEFINE Inv == AccountTypes /\ SetupInv /\ UsedInviteHasAccount /\ MarkedHasAccount /\ EarnedInv
<1>1. AccountsInit => Inv
  <2> SUFFICES ASSUME AccountsInit PROVE Inv
    BY Zenon
  <2>1. \A e \in Emails : /\ users[e].role = "none" /\ login[e] = "none" /\ sso[e].role = "none"
                          /\ invites[e].status = "none" /\ granted[e] = 0 /\ logins[e] = 0
    BY Zenon DEF AccountsInit, NoUser
  <2>2. \A r \in Requests : request[r].op = "idle"
    BY Zenon DEF AccountsInit, Idle
  <2>3. SetupInv /\ UsedInviteHasAccount /\ MarkedHasAccount
    BY <2>1, <2>2, Zenon DEF AccountsInit, SetupInv, UsedInviteHasAccount, MarkedHasAccount, Exists
  <2>4. EarnedInv
    <3>1. \A e \in Emails : granted[e] <= logins[e]
      BY <2>1
    <3> QED BY <2>1, <3>1, Zenon DEF EarnedInv
  <2> QED BY <2>3, <2>4, AccountTypesInit, Zenon
<1>2. Inv /\ AccountsNext => Inv'
  <2> SUFFICES ASSUME Inv, AccountsNext PROVE Inv'
    BY Zenon
  <2>1. AccountTypes' /\ \A e \in Emails : Exists(e) => Exists(e)'
    BY RequestTypes, AddressTypes, Zenon DEF AccountsNext
  <2> QED BY <2>1, SetupStep, InviteStep, EarnedStep, Zenon
<1>3. Inv /\ UNCHANGED accountsVars => Inv'
  BY Zenon DEF accountsVars, AccountTypes, AccountsTypeOK, SetupInv, UsedInviteHasAccount,
         MarkedHasAccount, EarnedInv, Exists, Jobs
<1>4. Inv => AccountsSafety
  <2> SUFFICES ASSUME Inv PROVE AccountsSafety
    BY Zenon
  <2>1. Cardinality(superusers) <= 1
    <3>1. superusers = {} \/ \E a : superusers = {a}
      <4>1. CASE superusers # {}
        <5>1. PICK a \in superusers : TRUE
          BY <4>1, Zenon
        <5>2. superusers = {a}
          BY <5>1, Zenon DEF SetupInv
        <5> QED BY <5>2, Zenon
      <4> QED BY <4>1, Zenon
    <3> QED BY <3>1, FS_EmptySet, FS_Singleton
  <2>2. SetupIsExclusive
    BY <2>1, Zenon DEF SetupInv, SetupIsExclusive
  <2>3. ElevationsAreEarned
    BY Zenon DEF EarnedInv, ElevationsAreEarned
  <2> QED BY <2>2, <2>3, Zenon DEF AccountTypes, AccountsSafety
<1> HIDE DEF Inv
<1> QED BY <1>1, <1>2, <1>3, <1>4, PTL DEF AccountsSpec

(***************************************************************************)
(* The keys of a service account, for any number of requests. A rotation   *)
(* holds a key that no row has yet, so that the invariant speaks of the    *)
(* keys in the hands of the requests: each is fresh, no two requests have  *)
(* the same one, and no pending save can bring a dead key back.            *)
(***************************************************************************)

KeyJobs == {NoJob} \cup [op : {"save"}, row : Rows, new : Rows]

\* A request that will save a key of its own.
Issues(j) == j.new.key \notin {0, j.row.key}

\* What a pending save can do to the row: an issued key is fresh, neither the
\* account's nor a dead one; another save either disables the account or can
\* only take the key's validity away; and none enables it.
JobOK(j, row, keys, gone) ==
  /\ j.new.key \in 0 .. keys
  /\ j.new.enabled => j.row.enabled
  /\ row.enabled => j.row.enabled
  /\ Issues(j) => j.new.key \notin gone \cup {row.key}
  /\ ~Issues(j) => \/ ~j.new.enabled
                   \/ /\ j.new.key = j.row.key /\ j.new.expiry = j.row.expiry
                      /\ j.row.revoked => j.new.revoked

KeyInv ==
  /\ ServiceAccountsTypeOK /\ DeadKeysStayDead
  /\ keyJob \in [KeyRequests -> KeyJobs]
  /\ issued \in 1 .. MaxKeys /\ account.key \in 0 .. issued /\ dead \subseteq 1 .. issued
  /\ \A r \in KeyRequests : keyJob[r] # NoJob => JobOK(keyJob[r], account, issued, dead)
  /\ \A r, s \in KeyRequests :
       /\ r # s /\ keyJob[r] # NoJob /\ keyJob[s] # NoJob
       /\ Issues(keyJob[r]) /\ Issues(keyJob[s])
       => keyJob[r].new.key # keyJob[s].new.key

\* The columns of a row, and of a row that was changed.
LEMMA RowType ==
  ASSUME NEW row \in Rows
  PROVE  /\ row.enabled \in BOOLEAN /\ row.key \in 0 .. MaxKeys /\ row.revoked \in BOOLEAN
         /\ row.expiry \in {"never", "set", "past"} /\ row.used \in BOOLEAN
         /\ DOMAIN row = {"enabled", "key", "revoked", "expiry", "used"}
BY Zenon DEF Rows

\* A save writes the columns that the request changed over the row it meets.
LEMMA MergedRow ==
  ASSUME NEW a \in Rows, NEW old \in Rows, NEW new \in Rows, NEW m,
         m = [c \in DOMAIN old |-> IF new[c] # old[c] THEN new[c] ELSE a[c]]
  PROVE  /\ m \in Rows
         /\ m.enabled = IF new.enabled # old.enabled THEN new.enabled ELSE a.enabled
         /\ m.key = IF new.key # old.key THEN new.key ELSE a.key
         /\ m.revoked = IF new.revoked # old.revoked THEN new.revoked ELSE a.revoked
         /\ m.expiry = IF new.expiry # old.expiry THEN new.expiry ELSE a.expiry
<1>1. DOMAIN old = {"enabled", "key", "revoked", "expiry", "used"}
  BY RowType, Zenon
<1>2. m = [enabled |-> IF new.enabled # old.enabled THEN new.enabled ELSE a.enabled,
           key |-> IF new.key # old.key THEN new.key ELSE a.key,
           revoked |-> IF new.revoked # old.revoked THEN new.revoked ELSE a.revoked,
           expiry |-> IF new.expiry # old.expiry THEN new.expiry ELSE a.expiry,
           used |-> IF new.used # old.used THEN new.used ELSE a.used]
  BY <1>1, Zenon
<1> QED BY <1>2 DEF Rows

\* What a request in progress carries.
LEMMA JobType ==
  ASSUME NEW j \in KeyJobs, j # NoJob PROVE j.row \in Rows /\ j.new \in Rows
BY Zenon DEF KeyJobs

\* A job is not idle, and its fields are what it was made of.
LEMMA NewJob ==
  ASSUME NEW row \in Rows, NEW new \in Rows
  PROVE  LET j == [op |-> "save", row |-> row, new |-> new]
         IN j \in KeyJobs /\ j # NoJob /\ j.row = row /\ j.new = new
BY Zenon DEF KeyJobs, NoJob

\* The invariant holds of an account with its first key.
LEMMA KeyInvInit == ServiceAccountsInit => KeyInv
<1> SUFFICES ASSUME ServiceAccountsInit PROVE KeyInv
  BY Zenon
<1>1. issued \in 1 .. MaxKeys /\ issued = 1
  BY ServiceAccountsAssumption DEF ServiceAccountsInit
<1>2. account \in Rows /\ account.key = 1
  BY <1>1 DEF ServiceAccountsInit, Rows
<1>3. keyJob \in [KeyRequests -> KeyJobs] /\ \A r \in KeyRequests : keyJob[r] = NoJob
  BY Zenon DEF ServiceAccountsInit, KeyJobs
<1>4. ServiceAccountsTypeOK
  BY <1>1, <1>2, <1>3 DEF ServiceAccountsInit, ServiceAccountsTypeOK
<1> QED BY <1>1, <1>2, <1>3, <1>4 DEF ServiceAccountsInit, KeyInv, DeadKeysStayDead

\* A request reads the row and decides what to save.
LEMMA AskStep ==
  ASSUME KeyInv, NEW r \in KeyRequests, NEW new \in Rows, Ask(r, new), dead' = dead,
         issued' \in 1 .. MaxKeys, new.enabled => account.enabled,
         \/ new.key = issued + 1 /\ issued' = issued + 1
         \/ /\ new.key \in {0, account.key} /\ issued' = issued
            /\ \/ ~new.enabled
               \/ /\ new.key = account.key /\ new.expiry = account.expiry
                  /\ account.revoked => new.revoked
  PROVE  KeyInv'
<1> DEFINE j == [op |-> "save", row |-> account, new |-> new]
<1>1. /\ account \in Rows /\ account' = account /\ keyJob' = [keyJob EXCEPT ![r] = j]
      /\ keyJob \in [KeyRequests -> KeyJobs] /\ issued \in Nat /\ issued' \in Nat
      /\ issued <= issued'
  BY ServiceAccountsAssumption DEF KeyInv, ServiceAccountsTypeOK, Ask
<1>2. j \in KeyJobs /\ j # NoJob /\ j.row = account /\ j.new = new
  BY <1>1, NewJob, Zenon
<1> HIDE DEF j
<1>3. /\ keyJob' \in [KeyRequests -> KeyJobs] /\ keyJob'[r] = j
      /\ \A s \in KeyRequests : s # r => keyJob'[s] = keyJob[s]
  BY <1>1, <1>2, Zenon
<1>4. account'.key \in 0 .. issued' /\ dead' \subseteq 1 .. issued' /\ DeadKeysStayDead'
  BY <1>1 DEF KeyInv, DeadKeysStayDead, Accepts
<1>5. ServiceAccountsTypeOK'
  BY <1>1, <1>3 DEF KeyInv, ServiceAccountsTypeOK, KeyJobs
<1>6. ASSUME NEW s \in KeyRequests, s # r, keyJob[s] # NoJob
      PROVE  JobOK(keyJob'[s], account', issued', dead') /\ keyJob[s].new.key \in 0 .. issued
  <2>1. JobOK(keyJob[s], account, issued, dead)
    BY <1>6, Zenon DEF KeyInv
  <2> QED BY <1>1, <1>3, <1>6, <2>1 DEF JobOK, Issues
<1>7. JobOK(j, account', issued', dead')
  <2>1. new.key \in 0 .. issued'
    BY <1>1 DEF KeyInv
  <2>2. Issues(j) => new.key \notin dead' \cup {account'.key}
    BY <1>1, <1>2 DEF KeyInv, Issues
  <2>3. ~Issues(j) => \/ ~new.enabled
                      \/ /\ new.key = account.key /\ new.expiry = account.expiry
                         /\ account.revoked => new.revoked
    BY <1>1, <1>2 DEF KeyInv, Issues
  <2> QED BY <1>1, <1>2, <2>1, <2>2, <2>3, Zenon DEF JobOK, Issues
<1>8. ASSUME NEW s \in KeyRequests, s # r, keyJob[s] # NoJob, Issues(keyJob[s]), Issues(j)
      PROVE  keyJob[s].new.key # j.new.key
  BY <1>1, <1>2, <1>6, <1>8 DEF KeyInv, Issues
<1>9. \A s \in KeyRequests : keyJob'[s] # NoJob => JobOK(keyJob'[s], account', issued', dead')
  <2> TAKE s \in KeyRequests
  <2>1. CASE s = r
    BY <1>3, <1>7, <2>1, Zenon DEF JobOK, Issues
  <2>2. CASE s # r
    BY <1>3, <1>6, <2>2, Zenon
  <2> QED BY <2>1, <2>2, Zenon
<1>10. \A s, t \in KeyRequests :
         /\ s # t /\ keyJob'[s] # NoJob /\ keyJob'[t] # NoJob
         /\ Issues(keyJob'[s]) /\ Issues(keyJob'[t])
         => keyJob'[s].new.key # keyJob'[t].new.key
  BY <1>3, <1>8 DEF KeyInv
<1> QED BY <1>3, <1>4, <1>5, <1>9, <1>10, Zenon DEF KeyInv, Issues

\* A request saves: the row after it, and what the step can have done to it.
LEMMA SaveStep ==
  ASSUME KeyInv, NEW r \in KeyRequests, SaveRow(r),
         dead' = dead \cup {k \in Keys : Accepts(account, k) /\ ~Accepts(account', k)}
  PROVE  KeyInv' /\ DisabledStaysDisabled
<1> DEFINE j == keyJob[r]
           old == j.row
           new == j.new
<1>1. /\ j # NoJob /\ j \in KeyJobs /\ account \in Rows /\ issued' = issued /\ issued \in Nat
      /\ keyJob' = [keyJob EXCEPT ![r] = NoJob] /\ keyJob \in [KeyRequests -> KeyJobs]
      /\ account' = [c \in DOMAIN old |-> IF new[c] # old[c] THEN new[c] ELSE account[c]]
  BY DEF KeyInv, ServiceAccountsTypeOK, SaveRow
<1>2. old \in Rows /\ new \in Rows /\ JobOK(j, account, issued, dead)
  BY <1>1, JobType, Zenon DEF KeyInv
<1>3. /\ account' \in Rows
      /\ account'.enabled = IF new.enabled # old.enabled THEN new.enabled ELSE account.enabled
      /\ account'.key = IF new.key # old.key THEN new.key ELSE account.key
      /\ account'.revoked = IF new.revoked # old.revoked THEN new.revoked ELSE account.revoked
      /\ account'.expiry = IF new.expiry # old.expiry THEN new.expiry ELSE account.expiry
  BY <1>1, <1>2, MergedRow
<1>4. /\ old.enabled \in BOOLEAN /\ new.enabled \in BOOLEAN /\ account.enabled \in BOOLEAN
      /\ old.revoked \in BOOLEAN /\ new.revoked \in BOOLEAN /\ account.revoked \in BOOLEAN
  BY <1>1, <1>2, RowType, Zenon
<1>5. /\ keyJob' \in [KeyRequests -> KeyJobs] /\ keyJob'[r] = NoJob
      /\ \A s \in KeyRequests : s # r => keyJob'[s] = keyJob[s]
  BY <1>1, Zenon DEF KeyJobs
<1> HIDE DEF j
<1>6. account'.enabled => account.enabled
  BY <1>2, <1>3, <1>4, Zenon DEF JobOK
<1>7. account'.key \in 0 .. issued
  BY <1>2, <1>3, Zenon DEF JobOK, KeyInv
<1>8. dead' \subseteq dead \cup ({account.key} \cap Keys)
  BY Zenon DEF Accepts
<1>9. dead' \subseteq 1 .. issued /\ dead' \subseteq Keys
  <2>1. account.key \in Keys => account.key \in 1 .. issued
    BY <1>1 DEF KeyInv, Keys
  <2> QED BY <1>8, <2>1, Zenon DEF KeyInv, ServiceAccountsTypeOK
<1>10. \A k : Accepts(account', k) => Accepts(account, k) \/ (Issues(j) /\ k = new.key)
  <2>1. CASE Issues(j)
    BY <2>1, <1>3, Zenon DEF Accepts, Issues
  <2>2. CASE ~Issues(j) /\ ~new.enabled
    BY <1>2, <1>3, <1>4, <2>2, Zenon DEF Accepts, JobOK
  <2>3. CASE /\ new.key = old.key /\ new.expiry = old.expiry /\ new.enabled
             /\ old.revoked => new.revoked
    BY <1>2, <1>3, <1>4, <2>3, Zenon DEF Accepts, JobOK
  <2> QED BY <1>2, <2>1, <2>2, <2>3, Zenon DEF JobOK
<1>11. DeadKeysStayDead'
  <2> SUFFICES ASSUME NEW k \in dead', Accepts(account', k) PROVE FALSE
    BY Zenon DEF DeadKeysStayDead, Accepts
  <2>1. k \in dead
    BY Zenon
  <2>2. ~Accepts(account, k)
    BY <2>1, Zenon DEF KeyInv, DeadKeysStayDead
  <2> QED BY <1>2, <1>10, <2>1, <2>2, Zenon DEF JobOK
<1>12. ServiceAccountsTypeOK'
  BY <1>1, <1>3, <1>5, <1>9, Zenon DEF KeyInv, ServiceAccountsTypeOK, KeyJobs
<1>13. ASSUME NEW s \in KeyRequests, keyJob'[s] # NoJob PROVE JobOK(keyJob'[s], account', issued', dead')
  <2>1. s # r /\ keyJob'[s] = keyJob[s] /\ JobOK(keyJob[s], account, issued, dead)
    BY <1>5, <1>13, Zenon DEF KeyInv
  <2>2. Issues(keyJob[s]) => keyJob[s].new.key \notin dead' \cup {account'.key}
    <3> SUFFICES ASSUME Issues(keyJob[s]) PROVE keyJob[s].new.key \notin dead' \cup {account'.key}
      BY Zenon
    <3>1. keyJob[s].new.key \notin dead \cup {account.key}
      BY <2>1, Zenon DEF JobOK
    <3>2. Issues(j) => keyJob[s].new.key # new.key
      BY <1>1, <2>1, <1>13, Zenon DEF KeyInv, j
    <3>3. account'.key \in {account.key, new.key}
      BY <1>3, Zenon
    <3>4. account'.key = account.key \/ account'.key = 0 \/ (Issues(j) /\ account'.key = new.key)
      BY <1>3, Zenon DEF Issues
    <3> QED BY <1>8, <3>1, <3>2, <3>4, Zenon DEF Issues
  <2> QED BY <1>1, <1>6, <2>1, <2>2, Zenon DEF JobOK, Issues
<1>14. \A s, t \in KeyRequests :
         /\ s # t /\ keyJob'[s] # NoJob /\ keyJob'[t] # NoJob
         /\ Issues(keyJob'[s]) /\ Issues(keyJob'[t])
         => keyJob'[s].new.key # keyJob'[t].new.key
  BY <1>5, Zenon DEF KeyInv
<1>15. KeyInv'
  BY <1>1, <1>5, <1>7, <1>9, <1>11, <1>12, <1>13, <1>14, Zenon DEF KeyInv, Issues
<1> QED BY <1>6, <1>15, Zenon DEF DisabledStaysDisabled

\* The clock only takes validity away.
LEMMA ClockStep ==
  ASSUME KeyInv, KeyExpires \/ UseForgotten,
         dead' = dead \cup {k \in Keys : Accepts(account, k) /\ ~Accepts(account', k)}
  PROVE  KeyInv' /\ DisabledStaysDisabled
<1>1. /\ account \in Rows /\ issued \in Nat /\ UNCHANGED <<issued, keyJob>>
      /\ keyJob \in [KeyRequests -> KeyJobs]
  BY DEF KeyInv, ServiceAccountsTypeOK, KeyExpires, UseForgotten
<1>2. /\ account' \in Rows /\ account'.enabled = account.enabled /\ account'.key = account.key
      /\ account'.revoked = account.revoked /\ account'.expiry \in {account.expiry, "past"}
  BY <1>1, Zenon DEF KeyExpires, UseForgotten, Rows
<1>3. dead' \subseteq dead \cup ({account.key} \cap Keys)
  BY Zenon DEF Accepts
<1>4. dead' \subseteq 1 .. issued /\ dead' \subseteq Keys
  <2>1. account.key \in Keys => account.key \in 1 .. issued
    BY <1>1 DEF KeyInv, Keys
  <2> QED BY <1>3, <2>1, Zenon DEF KeyInv, ServiceAccountsTypeOK
<1>5. DeadKeysStayDead'
  <2> SUFFICES ASSUME NEW k \in dead', Accepts(account', k) PROVE FALSE
    BY Zenon DEF DeadKeysStayDead, Accepts
  <2>1. k \in dead
    BY Zenon
  <2> QED BY <1>2, <2>1, Zenon DEF KeyInv, DeadKeysStayDead, Accepts
<1>6. ServiceAccountsTypeOK'
  BY <1>1, <1>2, <1>4, Zenon DEF KeyInv, ServiceAccountsTypeOK
<1>7. ASSUME NEW r \in KeyRequests, keyJob'[r] # NoJob
      PROVE  JobOK(keyJob'[r], account', issued', dead')
  <2>1. JobOK(keyJob[r], account, issued, dead) /\ keyJob'[r] = keyJob[r]
    BY <1>1, <1>7, Zenon DEF KeyInv
  <2> QED BY <1>1, <1>2, <1>3, <2>1, Zenon DEF JobOK, Issues
<1> QED
  BY <1>1, <1>2, <1>4, <1>5, <1>6, <1>7, Zenon DEF KeyInv, Issues, DisabledStaysDisabled

\* The requests that read the row.
LEMMA ReadStep ==
  ASSUME KeyInv, NEW r \in KeyRequests, dead' = dead,
         \/ \E enabled \in BOOLEAN : UpdateAccount(r, enabled)
         \/ \E expiry \in {"never", "set"} : IssueKey(r, expiry)
         \/ RevokeKey(r)
         \/ \E k \in Keys : UseKey(r, k)
  PROVE  KeyInv'
<1>1. account \in Rows /\ issued \in 1 .. MaxKeys /\ issued \in Nat
  BY DEF KeyInv, ServiceAccountsTypeOK
<1> DEFINE off == [enabled |-> FALSE, key |-> 0, revoked |-> TRUE, expiry |-> "never", used |-> FALSE]
<1>2. off \in Rows /\ off.key = 0 /\ ~off.enabled
  BY ServiceAccountsAssumption DEF Rows
<1>3. ASSUME NEW enabled \in BOOLEAN, UpdateAccount(r, enabled) PROVE KeyInv'
  <2>1. CASE enabled
    BY <1>1, <1>3, <2>1, AskStep, Zenon DEF UpdateAccount
  <2>2. CASE ~enabled
    <3>1. Ask(r, off) /\ issued' = issued
      BY <1>3, <2>2, Zenon DEF UpdateAccount
    <3> HIDE DEF off
    <3> QED BY <1>1, <1>2, <3>1, AskStep, Zenon
  <2> QED BY <2>1, <2>2, Zenon
<1>4. ASSUME NEW expiry \in {"never", "set"}, IssueKey(r, expiry) PROVE KeyInv'
  <2> DEFINE new == [account EXCEPT !.key = issued + 1, !.revoked = FALSE,
                                    !.expiry = expiry, !.used = FALSE]
  <2>1. issued' = issued + 1 /\ issued' \in 1 .. MaxKeys /\ Ask(r, new)
    BY <1>1, <1>4, ServiceAccountsAssumption DEF IssueKey
  <2>2. new \in Rows /\ new.key = issued + 1 /\ new.enabled = account.enabled
    <3>1. issued + 1 \in 0 .. MaxKeys
      BY <1>1, <2>1
    <3>2. ASSUME NEW k \in 0 .. MaxKeys
          PROVE  LET row == [account EXCEPT !.key = k, !.revoked = FALSE, !.expiry = expiry,
                                            !.used = FALSE]
                 IN row \in Rows /\ row.key = k /\ row.enabled = account.enabled
      BY <1>1, <1>4, Zenon DEF Rows
    <3> QED BY <3>1, <3>2, Zenon
  <2> HIDE DEF new
  <2> QED BY <2>1, <2>2, AskStep, Zenon
<1>5. CASE RevokeKey(r)
  <2> DEFINE new == [account EXCEPT !.revoked = TRUE]
  <2>1. /\ new \in Rows /\ new.key = account.key /\ new.enabled = account.enabled
        /\ new.expiry = account.expiry /\ new.revoked
    BY <1>1, Zenon DEF Rows
  <2>2. Ask(r, new) /\ issued' = issued
    BY <1>5, Zenon DEF RevokeKey
  <2> HIDE DEF new
  <2> QED BY <1>1, <2>1, <2>2, AskStep, Zenon
<1>6. ASSUME NEW k \in Keys, UseKey(r, k) PROVE KeyInv'
  <2> DEFINE new == [account EXCEPT !.used = TRUE]
  <2>1. /\ new \in Rows /\ new.key = account.key /\ new.enabled = account.enabled
        /\ new.expiry = account.expiry /\ new.revoked = account.revoked
    BY <1>1, Zenon DEF Rows
  <2>2. Ask(r, new) /\ issued' = issued
    BY <1>6, Zenon DEF UseKey
  <2> HIDE DEF new
  <2> QED BY <1>1, <2>1, <2>2, AskStep, Zenon
<1> QED BY <1>3, <1>4, <1>5, <1>6, Zenon

\* A key that was replaced, revoked, disabled or has expired is never accepted
\* again, and a disabled account is never enabled, for any number of requests
\* that read the row and save it later (the service account routes).
THEOREM ServiceAccountsCorrect == ServiceAccountsSpec => ServiceAccountsSafety
<1> DEFINE Good == /\ ServiceAccountsTypeOK' /\ DeadKeysStayDead' /\ DisabledStaysDisabled
<1>1. ASSUME KeyInv, ServiceAccountsNext PROVE KeyInv' /\ DisabledStaysDisabled
  <2>1. dead' = dead \cup {k \in Keys : Accepts(account, k) /\ ~Accepts(account', k)}
    BY <1>1, Zenon DEF ServiceAccountsNext
  <2>2. ASSUME NEW r \in KeyRequests,
               \/ \E enabled \in BOOLEAN : UpdateAccount(r, enabled)
               \/ \E expiry \in {"never", "set"} : IssueKey(r, expiry)
               \/ RevokeKey(r)
               \/ \E k \in Keys : UseKey(r, k)
        PROVE  KeyInv' /\ DisabledStaysDisabled
    <3>1. account' = account
      BY <2>2, Zenon DEF UpdateAccount, IssueKey, RevokeKey, UseKey, Ask
    <3>2. dead' = dead
      BY <2>1, <3>1, Zenon
    <3> QED BY <1>1, <2>2, <3>1, <3>2, ReadStep, Zenon DEF DisabledStaysDisabled
  <2>3. ASSUME NEW r \in KeyRequests, SaveRow(r) PROVE KeyInv' /\ DisabledStaysDisabled
    BY <1>1, <2>1, <2>3, SaveStep, Zenon
  <2>4. CASE KeyExpires \/ UseForgotten
    BY <1>1, <2>1, <2>4, ClockStep, Zenon
  <2> QED BY <1>1, <2>2, <2>3, <2>4, Zenon DEF ServiceAccountsNext
<1>2. KeyInv /\ UNCHANGED keyVars => KeyInv'
  BY DEF keyVars, KeyInv, ServiceAccountsTypeOK, DeadKeysStayDead, JobOK, Issues, Accepts
<1>3. KeyInv /\ [ServiceAccountsNext]_keyVars => KeyInv'
  BY <1>1, <1>2, Zenon
<1>4. KeyInv /\ [ServiceAccountsNext]_keyVars => [Good]_keyVars
  BY <1>1, Zenon DEF KeyInv
<1> QED BY <1>3, <1>4, KeyInvInit, PTL DEF ServiceAccountsSpec, ServiceAccountsSafety
=============================================================================
