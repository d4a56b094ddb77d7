------------------------------ MODULE Accounts ------------------------------
(***************************************************************************)
(* Who may use wireops: the first-run setup (internal/routes/setup.go,     *)
(* internal/setup/service.go), user management and invites                 *)
(* (internal/routes/users.go and the users hooks of                        *)
(* internal/hooks/pb_hooks.go), and single sign-on: the login hook         *)
(* (HandleSSOAuthRequest) and the elevate route (internal/routes/auth.go). *)
(*                                                                         *)
(* Requests run concurrently.  A request that reads, checks and saves does *)
(* so in separate steps; a transaction is one step.  Save writes the       *)
(* columns the request changed and refuses a second row with one e-mail.   *)
(***************************************************************************)
EXTENDS Integers, FiniteSets

CONSTANTS
  Emails,      \* the addresses that occur
  SsoEmails,   \* those the identity provider knows
  Requests,    \* concurrent requests
  Assigned,    \* bound: the roles that invites and group mappings assign
  Edits,       \* bound: the changes that user management requests ask for
  MaxLogins    \* bound: single sign-on logins per address

ASSUME AccountsAssumption ==
  /\ SsoEmails \subseteq Emails
  /\ Assigned \subseteq {"monitoring", "viewer", "operator", "admin"}
  /\ Edits \subseteq [via : {"route", "api"}, disabled : {"keep", "on", "off"},
                       role : {"keep", "monitoring", "viewer", "operator", "admin"},
                       protected : {"keep", "off"}]
  /\ \A edit \in Edits : edit.via = "route" => edit.protected = "keep"
  /\ MaxLogins \in Nat

Roles == {"monitoring", "viewer", "operator", "admin"}
RoleRank(role) == CASE role = "monitoring" -> 1 [] role = "viewer" -> 2
                    [] role = "operator" -> 3 [] role = "admin" -> 4
                    [] OTHER -> 0
AtLeast(role, minimum) == RoleRank(role) >= RoleRank(minimum)
HighestRole(roles) == CHOOSE r \in roles : \A s \in roles : AtLeast(r, s)

VARIABLES
  users,       \* the users row of each address; role "none": no row
  superusers,  \* the addresses with a _superusers row
  invites,     \* per address: "none", "open", "used" or "expired", and the role
  sso,         \* per address: the sso_users row (role "", consumed) or "none"
  mapped,      \* sso_group_roles: the roles mapped to the groups in use
  login,       \* per address: the role a login has resolved and not yet saved
  logins,      \* per address: logins whose reset was saved
  granted,     \* per address: tokens the elevate route has handed out
  request      \* what each request is doing

accountsVars == <<users, superusers, invites, sso, mapped, login, logins,
                  granted, request>>
ssoVars == <<sso, mapped, login, logins, granted>>

\* The values that the role column of sso_users accepts.
SsoRoles == {"viewer", "operator", "admin"}
NoUser == [role |-> "none", disabled |-> FALSE, protected |-> FALSE]
User(role, protected) ==
  [role |-> role, disabled |-> FALSE, protected |-> protected]
Idle == [op |-> "idle"]
Exists(e) == users[e].role # "none"
ActiveAdmins == {e \in Emails : users[e].role = "admin" /\ ~users[e].disabled}

AccountsInit ==
  /\ users = [e \in Emails |-> NoUser] /\ superusers = {}
  /\ invites = [e \in Emails |-> [status |-> "none", role |-> "viewer"]]
  /\ sso = [e \in Emails |-> [role |-> "none", consumed |-> FALSE]]
  /\ mapped = {} /\ login = [e \in Emails |-> "none"]
  /\ logins = [e \in Emails |-> 0] /\ granted = [e \in Emails |-> 0]
  /\ request = [r \in Requests |-> Idle]

Begin(r, job) == request[r] = Idle /\ request' = [request EXCEPT ![r] = job]
Now(r, op) == request' = [request EXCEPT ![r].op = op]
Done(r) == request' = [request EXCEPT ![r] = Idle]
\* Every management route requires an admin or the superuser.
Administered == superusers # {}

(***************************************************************************)
(* First-run setup                                                         *)
(***************************************************************************)

\* handleSetupCreate: currentSetupStatus counts the users.
SetupBegin(r, e) ==
  /\ \A f \in Emails : ~Exists(f)
  /\ Begin(r, [op |-> "setup", email |-> e])
  /\ UNCHANGED <<users, superusers, invites>> /\ UNCHANGED ssoVars

\* Mutant: the transaction trusts the status the route has checked.
SetupCreate_Trusting(r) ==
  /\ request[r].op = "setup"
  /\ LET e == request[r].email
     IN /\ ~Exists(e)
        /\ users' = [users EXCEPT ![e] = User("admin", TRUE)]
        /\ superusers' = superusers \cup {e}
  /\ Done(r)
  /\ UNCHANGED invites /\ UNCHANGED ssoVars

\* CreateInitialAdmin: under bootstrapMu and in one transaction, count again,
\* then create the protected admin and the superuser with its address.
SetupCreate(r) ==
  /\ request[r].op = "setup"
  /\ LET e == request[r].email
     IN IF \E f \in Emails : Exists(f)
        THEN UNCHANGED <<users, superusers>>
        ELSE /\ users' = [users EXCEPT ![e] = User("admin", TRUE)]
             /\ superusers' = superusers \cup {e}
  /\ Done(r)
  /\ UNCHANGED invites /\ UNCHANGED ssoVars

(***************************************************************************)
(* User management                                                         *)
(***************************************************************************)

\* The row with the columns that a request changes.
Changed(row, change) ==
  [role |-> IF change.role = "keep" THEN row.role ELSE change.role,
   disabled |-> IF change.disabled = "keep" THEN row.disabled
                ELSE change.disabled = "on",
   protected |-> row.protected /\ change.protected = "keep"]

\* handleUpdateUser and the record API load the row ...
UpdateBegin(r, e, change) ==
  /\ Administered /\ Exists(e)
  /\ Begin(r, [op |-> "check", email |-> e, change |-> change,
               row |-> users[e]])
  /\ UNCHANGED <<users, superusers, invites>> /\ UNCHANGED ssoVars

\* The guards of handleUpdateUser, in its order.
RouteRefuses(row, change) ==
  LET new == Changed(row, change)
  IN \/ /\ change.role # "keep" /\ change.role # "admin"
        /\ \/ row.protected
           \/ row.role = "admin" /\ Cardinality(ActiveAdmins) <= 1
     \/ /\ change.disabled = "on"
        /\ \/ row.protected
           \/ new.role = "admin" /\ Cardinality(ActiveAdmins) <= 1

\* The guards of the users update hook, on the row as it would be saved.
HookRefuses(row, change) ==
  LET new == Changed(row, change)
      demoted == new.role # row.role /\ new.role # "admin"
      disabled == new.disabled /\ ~row.disabled
  IN \/ new.protected /\ (demoted \/ disabled)
     \/ /\ row.role = "admin" /\ ~row.disabled /\ (demoted \/ disabled)
        /\ Cardinality(ActiveAdmins) <= 1

\* ... check the request against the users there are now ...
UpdateCheck(r) ==
  /\ request[r].op = "check"
  /\ LET row == request[r].row
         change == request[r].change
     IN IF \/ change.via = "route" /\ RouteRefuses(row, change)
           \/ change.via = "api" /\ HookRefuses(row, change)
        THEN Done(r) ELSE Now(r, "save")
  /\ UNCHANGED <<users, superusers, invites>> /\ UNCHANGED ssoVars

\* ... and save what differs from the row that was loaded.
UpdateSave(r) ==
  /\ request[r].op = "save"
  /\ LET e == request[r].email
         old == request[r].row
         new == Changed(old, request[r].change)
     IN users' = [users EXCEPT ![e] =
          [c \in DOMAIN old |-> IF new[c] # old[c] THEN new[c] ELSE users[e][c]]]
  /\ Done(r)
  /\ UNCHANGED <<superusers, invites>> /\ UNCHANGED ssoVars

(***************************************************************************)
(* Invites                                                                 *)
(***************************************************************************)

\* handleCreateInvite; a mail that cannot be sent takes the invite back, which
\* is as if nothing was asked for.
CreateInvite(e, role) ==
  /\ Administered /\ ~Exists(e) /\ invites[e].status \in {"none", "expired"}
  /\ invites' = [invites EXCEPT ![e] = [status |-> "open", role |-> role]]
  /\ UNCHANGED <<users, superusers, request>> /\ UNCHANGED ssoVars

InviteExpires(e) ==
  /\ invites[e].status = "open"
  /\ invites' = [invites EXCEPT ![e].status = "expired"]
  /\ UNCHANGED <<users, superusers, request>> /\ UNCHANGED ssoVars

\* handleAcceptInvite reads the invite; an address that has a user already
\* only has its invite marked.
AcceptBegin(r, e) ==
  /\ invites[e].status = "open"
  /\ IF Exists(e)
     THEN /\ request[r] = Idle /\ UNCHANGED request
          /\ invites' = [invites EXCEPT ![e].status = "used"]
     ELSE /\ Begin(r, [op |-> "accept", email |-> e, role |-> invites[e].role])
          /\ UNCHANGED invites
  /\ UNCHANGED <<users, superusers>> /\ UNCHANGED ssoVars

\* Mutant: the invite is marked before the account is saved.
AcceptCreate_MarksFirst(r) ==
  /\ request[r].op = "accept"
  /\ invites' = [invites EXCEPT ![request[r].email].status = "used"]
  /\ Done(r)
  /\ UNCHANGED <<users, superusers>> /\ UNCHANGED ssoVars

\* The account is saved, unless the address was taken meanwhile ...
AcceptCreate(r) ==
  /\ request[r].op = "accept"
  /\ LET e == request[r].email
     IN IF Exists(e)
        THEN Done(r) /\ UNCHANGED users
        ELSE /\ users' = [users EXCEPT ![e] = User(request[r].role, FALSE)]
             /\ Now(r, "mark")
  /\ UNCHANGED <<superusers, invites>> /\ UNCHANGED ssoVars

\* ... and the invite is marked.
AcceptMark(r) ==
  /\ request[r].op = "mark"
  /\ LET e == request[r].email
     IN invites' = [invites EXCEPT ![e].status = "used"]
  /\ Done(r)
  /\ UNCHANGED <<users, superusers>> /\ UNCHANGED ssoVars

(***************************************************************************)
(* Single sign-on                                                          *)
(***************************************************************************)

\* The sso_group_roles routes.
MapRoles(roles) ==
  /\ Administered /\ mapped' = roles
  /\ UNCHANGED <<users, superusers, invites, sso, login, logins, granted,
                 request>>

\* HandleSSOAuthRequest: the groups resolve to a role, and e.Next() creates
\* the row of a new address and answers the client.
LoginBegin(e) ==
  /\ e \in SsoEmails /\ login[e] = "none" /\ logins[e] < MaxLogins
  /\ mapped # {}
  /\ login' = [login EXCEPT ![e] = HighestRole(mapped)]
  /\ sso' = IF sso[e].role = "none" THEN [sso EXCEPT ![e].role = ""] ELSE sso
  /\ UNCHANGED <<users, superusers, invites, mapped, logins, granted, request>>

\* After the answer: the role and the reset of elevate_consumed are saved.  A
\* save that fails is only logged.
LoginSave(e) ==
  /\ login[e] # "none"
  /\ IF login[e] \in SsoRoles
     THEN /\ sso' = [sso EXCEPT ![e] = [role |-> login[e], consumed |-> FALSE]]
          /\ logins' = [logins EXCEPT ![e] = @ + 1]
     ELSE UNCHANGED <<sso, logins>>
  /\ login' = [login EXCEPT ![e] = "none"]
  /\ UNCHANGED <<users, superusers, invites, mapped, granted, request>>

\* Mutant: the claim does not mark the row.
Elevate_Unclaimed(e) ==
  /\ sso[e].role \notin {"none", ""} /\ ~sso[e].consumed
  /\ users' = [users EXCEPT ![e] =
       IF Exists(e) THEN [@ EXCEPT !.role = sso[e].role]
       ELSE User(sso[e].role, FALSE)]
  /\ granted' = [granted EXCEPT ![e] = IF @ > MaxLogins THEN @ ELSE @ + 1]
  /\ UNCHANGED <<superusers, invites, sso, mapped, login, logins, request>>

\* The elevate route's transaction: the user is created, or takes the role of
\* the sso row; the row is claimed; a token of the user is handed out.
Elevate(e) ==
  /\ sso[e].role \notin {"none", ""} /\ ~sso[e].consumed
  /\ users' = [users EXCEPT ![e] =
       IF Exists(e) THEN [@ EXCEPT !.role = sso[e].role]
       ELSE User(sso[e].role, FALSE)]
  /\ sso' = [sso EXCEPT ![e].consumed = TRUE]
  /\ granted' = [granted EXCEPT ![e] = @ + 1]
  /\ UNCHANGED <<superusers, invites, mapped, login, logins, request>>

AccountsNext ==
  \/ \E r \in Requests, e \in Emails :
       \/ SetupBegin(r, e)
       \/ \E change \in Edits : UpdateBegin(r, e, change)
       \/ AcceptBegin(r, e)
  \/ \E r \in Requests :
       \/ SetupCreate(r) \/ UpdateCheck(r) \/ UpdateSave(r)
       \/ AcceptCreate(r) \/ AcceptMark(r)
  \/ \E e \in Emails :
       \/ \E role \in Assigned : CreateInvite(e, role)
       \/ InviteExpires(e)
       \/ LoginBegin(e) \/ LoginSave(e) \/ Elevate(e)
  \/ \E roles \in SUBSET Assigned : MapRoles(roles)

AccountsSpec == AccountsInit /\ [][AccountsNext]_accountsVars

(***************************************************************************)
(* Properties                                                              *)
(***************************************************************************)

Jobs ==
  {Idle} \cup [op : {"setup"}, email : Emails]
  \cup [op : {"accept", "mark"}, email : Emails, role : Assigned]
  \cup [op : {"check", "save"}, email : Emails,
        change : Edits,
        row : [role : Roles, disabled : BOOLEAN, protected : BOOLEAN]]

\* Each row holds one of the roles its column accepts, and a login never
\* leaves a role in sso_users that only the other collections know.
AccountsTypeOK ==
  /\ users \in [Emails -> [role : Roles \cup {"none"}, disabled : BOOLEAN,
                           protected : BOOLEAN]]
  /\ superusers \subseteq Emails
  /\ invites \in [Emails -> [status : {"none", "open", "used", "expired"},
                             role : Roles]]
  /\ sso \in [Emails -> [role : SsoRoles \cup {"none", ""},
                         consumed : BOOLEAN]]
  /\ mapped \subseteq Roles
  /\ login \in [Emails -> Roles \cup {"none"}]
  /\ logins \in [Emails -> 0 .. MaxLogins] /\ granted \in [Emails -> Nat]
  /\ \A r \in Requests : request[r] \in Jobs

\* However many setup requests pass the status check together, the setup
\* creates one superuser, and no user exists without it.
SetupIsExclusive ==
  /\ Cardinality(superusers) <= 1
  /\ (\E e \in Emails : Exists(e)) => superusers # {}

\* An invite that is marked used belongs to an address that has an account:
\* neither a save that fails nor a race of two acceptances, or of an
\* acceptance and a single sign-on login, uses up an invite for nothing.
UsedInviteHasAccount ==
  \A e \in Emails : invites[e].status = "used" => Exists(e)

\* The elevate route hands out at most one token per login, although the
\* login hook resets elevate_consumed only after the client has its answer.
ElevationsAreEarned ==
  \A e \in Emails : granted[e] <= logins[e]

\* The accounts are right in every state: one setup, no invite
\* spent for nothing, one elevation per login (setup.go, invite and SSO routes,
\* the elevate route), however requests interleave.
AccountsSafety ==
  AccountsTypeOK /\ SetupIsExclusive /\ UsedInviteHasAccount /\ ElevationsAreEarned
=============================================================================
