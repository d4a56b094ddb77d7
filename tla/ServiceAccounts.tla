-------------------------- MODULE ServiceAccounts --------------------------
(***************************************************************************)
(* A service account and its API key (internal/routes/service_accounts.go, *)
(* internal/auth/apikey.go).  The account's row holds its only key.  Every *)
(* request reads the row, and later saves the columns that it changed.     *)
(***************************************************************************)
EXTENDS Integers

CONSTANTS
  KeyRequests,  \* concurrent requests
  MaxKeys       \* bound: keys generated over time

ASSUME ServiceAccountsAssumption == MaxKeys \in Nat \ {0}

Keys == 1 .. MaxKeys

VARIABLES
  account,   \* the row: enabled, key (0: key_hash is ""), revoked, expiry
  issued,    \* how many keys were generated
  keyJob,    \* what each request read (row) and will save (new)
  dead       \* the keys that were accepted once and then no more (history)

keyVars == <<account, issued, keyJob, dead>>

\* expiry: "never", "set" or "past"
Rows == [enabled : BOOLEAN, key : 0 .. MaxKeys, revoked : BOOLEAN,
         expiry : {"never", "set", "past"}, used : BOOLEAN]
NoJob == [op |-> "idle"]

ServiceAccountsTypeOK ==
  /\ account \in Rows /\ issued \in 0 .. MaxKeys /\ dead \subseteq Keys
  /\ \A r \in KeyRequests : keyJob[r] \in
       {NoJob} \cup [op : {"save"}, row : Rows, new : Rows]

\* The account as the create route saves it: enabled, with its first key.
ServiceAccountsInit ==
  /\ account = [enabled |-> TRUE, key |-> 1, revoked |-> FALSE,
                expiry |-> "never", used |-> FALSE]
  /\ issued = 1
  /\ keyJob = [r \in KeyRequests |-> NoJob] /\ dead = {}

Ask(r, new) ==
  /\ keyJob[r] = NoJob
  /\ keyJob' = [keyJob EXCEPT ![r] =
       [op |-> "save", row |-> account, new |-> new]]
  /\ UNCHANGED account

\* Mutant: an account may be enabled again.
UpdateAccount_Again(r, enabled) ==
  /\ Ask(r, IF enabled THEN [account EXCEPT !.enabled = TRUE]
            ELSE [enabled |-> FALSE, key |-> 0, revoked |-> TRUE,
                  expiry |-> "never", used |-> FALSE])
  /\ UNCHANGED issued

\* PUT service-accounts/{id}: a disabled account loses its key and cannot be
\* enabled again.  Name, description and role are left out.
UpdateAccount(r, enabled) ==
  /\ ~(enabled /\ ~account.enabled)
  /\ Ask(r, IF enabled THEN account
            ELSE [enabled |-> FALSE, key |-> 0, revoked |-> TRUE,
                  expiry |-> "never", used |-> FALSE])
  /\ UNCHANGED issued

\* POST service-accounts/{id}/keys: a fresh key replaces the old one.
IssueKey(r, expiry) ==
  /\ issued < MaxKeys
  /\ issued' = issued + 1
  /\ Ask(r, [account EXCEPT !.key = issued + 1, !.revoked = FALSE,
                            !.expiry = expiry, !.used = FALSE])

\* DELETE service-accounts/{id}/keys.
RevokeKey(r) ==
  /\ Ask(r, [account EXCEPT !.revoked = TRUE])
  /\ UNCHANGED issued

\* authenticateAPIKey.
Accepts(row, k) ==
  /\ row.key = k /\ row.enabled /\ ~row.revoked /\ row.expiry # "past"

\* APIKeyMiddleware lets the request in and, at most every five minutes, notes
\* when the key was used.
UseKey(r, k) ==
  /\ Accepts(account, k) /\ ~account.used
  /\ Ask(r, [account EXCEPT !.used = TRUE])
  /\ UNCHANGED issued

\* Mutant: a save writes back every column of the row it read.
SaveRow_Whole(r) ==
  /\ keyJob[r] # NoJob
  /\ account' = keyJob[r].new
  /\ keyJob' = [keyJob EXCEPT ![r] = NoJob]
  /\ UNCHANGED issued

\* The request's save.
SaveRow(r) ==
  /\ keyJob[r] # NoJob
  /\ LET old == keyJob[r].row
         new == keyJob[r].new
     IN account' = [c \in DOMAIN old |->
                      IF new[c] # old[c] THEN new[c] ELSE account[c]]
  /\ keyJob' = [keyJob EXCEPT ![r] = NoJob]
  /\ UNCHANGED issued

\* The clock: a key expires, or five minutes pass since it was noted as used.
KeyExpires ==
  /\ account.expiry = "set" /\ account' = [account EXCEPT !.expiry = "past"]
  /\ UNCHANGED <<issued, keyJob>>

UseForgotten ==
  /\ account.used /\ account' = [account EXCEPT !.used = FALSE]
  /\ UNCHANGED <<issued, keyJob>>

ServiceAccountsNext ==
  /\ \/ \E r \in KeyRequests :
          \/ \E enabled \in BOOLEAN : UpdateAccount(r, enabled)
          \/ \E expiry \in {"never", "set"} : IssueKey(r, expiry)
          \/ RevokeKey(r)
          \/ \E k \in Keys : UseKey(r, k)
          \/ SaveRow(r)
     \/ KeyExpires \/ UseForgotten
  /\ dead' = dead \cup {k \in Keys : Accepts(account, k) /\ ~Accepts(account', k)}

ServiceAccountsSpec == ServiceAccountsInit /\ [][ServiceAccountsNext]_keyVars

\* A key that was replaced, revoked or disabled, or has expired, is never
\* accepted again, although requests that read the row before that save it
\* later.
DeadKeysStayDead ==
  \A k \in dead : ~Accepts(account, k)

\* A disabled account stays disabled, as the update route promises ("disabled
\* service accounts cannot be re-enabled"), whatever an update that read it
\* before saves.
DisabledStaysDisabled ==
  account'.enabled => account.enabled

\* A key that died, and an account that was disabled, never come back, whatever
\* requests that read the row before save (the key and account routes).
ServiceAccountsSafety ==
  [][/\ ServiceAccountsTypeOK' /\ DeadKeysStayDead'
     /\ DisabledStaysDisabled]_keyVars
=============================================================================
