----------------------------- MODULE EnvSecrets -----------------------------
(***************************************************************************)
(* The secrets the server keeps at rest: environment variables of stacks   *)
(* and globals, webhook secrets and the token of the Vault integration;    *)
(* the record hooks that seal them under SECRET_KEY and mask them in       *)
(* answers, the routes that edit them in bulk and copy them, the pass that *)
(* resolves them for a deployment, and the canary that ties a data         *)
(* directory to its key across restarts.                                   *)
(*                                                                         *)
(* A stored value is the sequence of its layers: <<"p1">> is plain text,   *)
(* Seal puts the key in front and Decrypt takes it off.  Everything is     *)
(* about one variable name; what a row is meant to hold is kept beside it  *)
(* as `meant', and whether an edit that still took it for plain text was   *)
(* saved over a secret as `raced'.  A request reads its rows first and     *)
(* saves later; a save writes only the columns that differ from what the   *)
(* request read.                                                           *)
(***************************************************************************)
EXTENDS Naturals, Sequences, FiniteSets

CONSTANTS
  SecretKeys,   \* the values SECRET_KEY may have at a start
  NoSecretKey,        \* no server is running; no canary is stored
  Texts,        \* what a user may type
  WebhookTokens,       \* the Vault tokens a user may type
  UsedOwners,   \* the kinds of rows in use
  EnvRequests,  \* the requests that may overlap
  Plans,        \* what each of them may ask for, and how many rows there are
  MaxRows,      \* bound: rows of the data directory, in any plan
  EnvForms,        \* the edits a client may send, see EnvForm
  LegacyOwners  \* where a data directory older than the canary keeps a secret

VARIABLES
  plan,         \* the plan of this behaviour
  serverKey,    \* SECRET_KEY of the running server, or NoSecretKey
  canary,       \* the key of the stored canary, or NoSecretKey
  envRows,      \* the rows that hold values
  bound,        \* the stack is bound to the global variable
  vault,        \* the Vault integration's row
  envJobs       \* the requests in progress

envSecretsVars == <<plan, serverKey, canary, envRows, bound, vault, envJobs>>

Blank == <<"">>
Mask == <<"mask">>
Reference == <<"reference">>
External == <<"external">>
Unreadable == <<>>

\* "stack" and "copy" are stack_env_vars rows of two stacks, "global" is a
\* global_env_vars row, "webhook" the webhook_secret of a stack.
Owners == {"stack", "copy", "global", "webhook"}
Locals == {"stack", "copy"}

RowIds == 1 .. MaxRows
NoRow == [owner |-> "none", secret |-> FALSE, provider |-> "",
          value |-> Blank, meant |-> Blank, raced |-> FALSE]
Present(id) == envRows[id] # NoRow
RowsOf(owner) == {id \in RowIds : envRows[id].owner = owner}

\* What a client sends: <<"kept">> leaves the value out, <<"shown">> returns
\* what the server showed it.
EnvForm(value, secret, provider) ==
  [value |-> <<value>>, secret |-> secret, provider |-> provider]

EnvResting == [op |-> "none"]
Quiet(r) == envJobs[r] = EnvResting
End(r) == envJobs' = [envJobs EXCEPT ![r] = EnvResting]
Starts(r, job) ==
  /\ Quiet(r)
  /\ job.op \in plan.asks[r]
  /\ envJobs' = [envJobs EXCEPT ![r] = job]

-----------------------------------------------------------------------------
(* Sealing *)

Seal(key, value) == <<key>> \o value

Decrypt(key, value) ==
  IF Len(value) > 1 /\ value[1] = key THEN Tail(value) ELSE Unreadable

IsEncrypted(value) == Decrypt(serverKey, value) # Unreadable

encryptField(value) ==
  IF value \in {Blank, Mask} \/ IsEncrypted(value)
  THEN value
  ELSE Seal(serverKey, value)

isInternalSecretProvider(provider) == provider \in {"", "internal"}

isInternalSecret(row) == row.secret /\ isInternalSecretProvider(row.provider)

\* What the reveal route answers an administrator.
revealEnvVar(row) ==
  IF isInternalSecret(row) THEN Decrypt(serverKey, row.value) ELSE Unreadable

\* What an answer of the API shows of a row.
Shown(row) ==
  IF row.owner = "webhook" THEN IF row.value = Blank THEN Blank ELSE Mask
  ELSE IF isInternalSecret(row) THEN Blank ELSE row.value

preserveMaskedSecretValue(original, value) ==
  IF value \in {Blank, Mask} /\ original.secret /\ original.value # Blank
  THEN original.value
  ELSE value

\* Mutant: a secret may be made public again.
preventEnvSecretDowngrade_Off(original, row) == TRUE

preventEnvSecretDowngrade(original, row) == original.secret => row.secret

preventEnvSecretProviderChange(original, row) ==
  original.secret =>
    \/ row.provider = original.provider
    \/ {row.provider, original.provider} \subseteq {"", "internal"}

ValidateReference(row) ==
  row.secret /\ ~isInternalSecretProvider(row.provider) => row.value = Reference

\* Mutant: only a new row is sealed.
prepareEnvSecretRecord_NewOnly(original, row) ==
  [row EXCEPT
     !.provider = IF row.secret /\ @ = "" THEN "internal" ELSE @,
     !.value = IF isInternalSecret(row) /\ ~original.secret /\ original.value = Blank
               THEN encryptField(@)
               ELSE preserveMaskedSecretValue(original, @)]

prepareEnvSecretRecord(original, row) ==
  [row EXCEPT
     !.provider = IF row.secret /\ @ = "" THEN "internal" ELSE @,
     !.value = IF isInternalSecret(row)
               THEN encryptField(preserveMaskedSecretValue(original, @))
               ELSE @]

\* The hooks' verdict on saving row over original (NoRow on a create).
HooksAccept(original, row) ==
  /\ preventEnvSecretDowngrade(original, row)
  /\ preventEnvSecretProviderChange(original, row)
  /\ ValidateReference(row)

-----------------------------------------------------------------------------
(* Saving a row: the columns that differ from what the request read *)

Column(original, saved, current, field) ==
  IF saved[field] = original[field] THEN current[field] ELSE saved[field]

Saved(original, row, current) ==
  LET saved == prepareEnvSecretRecord(original, row)
  IN  [owner |-> current.owner,
       secret |-> Column(original, saved, current, "secret"),
       provider |-> Column(original, saved, current, "provider"),
       value |-> Column(original, saved, current, "value"),
       meant |-> IF saved.value = original.value
                 THEN current.meant
                 ELSE row.meant,
       raced |-> current.raced \/ original.secret # current.secret]

UpdateRow(id, original, row) ==
  envRows' = IF HooksAccept(original, row) /\ Present(id)
             THEN [envRows EXCEPT ![id] = Saved(original, row, @)]
             ELSE envRows

\* A new row gets an id no request has read.
FreshId(id) ==
  /\ id <= plan.rows
  /\ ~Present(id)
  /\ \A r \in EnvRequests :
       envJobs[r].op \in {"patch", "bulk", "copy"} => envJobs[r].id # id

CreateRow(row) ==
  IF HooksAccept(NoRow, row)
  THEN \E id \in RowIds :
         /\ FreshId(id)
         /\ \A other \in 1 .. id - 1 : ~FreshId(other)
         /\ envRows' = [envRows EXCEPT ![id] = prepareEnvSecretRecord(NoRow, row)]
  ELSE envRows' = envRows

\* What the client means by the value of its form, over the row it read.
Meant(original, form) ==
  IF ~isInternalSecretProvider(form.provider) /\ form.secret THEN External
  ELSE IF form.value \in {<<"kept">>, <<"shown">>}
            \/ (form.value = Blank /\ original.secret)
       THEN original.meant
       ELSE form.value

AppliedForm(original, owner, form) ==
  [owner |-> owner, secret |-> form.secret, provider |-> form.provider,
   value |-> CASE form.value = <<"kept">> -> original.value
               [] form.value = <<"shown">> -> Shown(original)
               [] OTHER -> form.value,
   meant |-> Meant(original, form), raced |-> FALSE]

-----------------------------------------------------------------------------
(* Single rows, through the records API *)

Serving == serverKey # NoSecretKey

Fits(owner, form) ==
  owner = "webhook" => form.secret /\ isInternalSecretProvider(form.provider)

CreateVar(owner, form) ==
  /\ Serving
  /\ owner \in {"global", "webhook"} => RowsOf(owner) = {}
  /\ Fits(owner, form)
  /\ form.value \notin {<<"kept">>, <<"shown">>}
  /\ CreateRow(AppliedForm(NoRow, owner, form))
  /\ UNCHANGED <<plan, serverKey, canary, bound, vault, envJobs>>

BeginPatch(r, id, form) ==
  /\ Serving
  /\ Present(id)
  /\ Fits(envRows[id].owner, form)
  /\ Starts(r, [op |-> "patch", id |-> id, original |-> envRows[id], form |-> form])
  /\ UNCHANGED <<plan, serverKey, canary, envRows, bound, vault>>

SavePatch(r) ==
  /\ envJobs[r].op = "patch"
  /\ LET job == envJobs[r]
     IN  UpdateRow(job.id, job.original,
                   AppliedForm(job.original, job.original.owner, job.form))
  /\ End(r)
  /\ UNCHANGED <<plan, serverKey, canary, bound, vault>>

DeleteVar(id) ==
  /\ Serving
  /\ Present(id)
  /\ envRows[id].owner = "global" => ~bound
  /\ envRows' = [envRows EXCEPT ![id] = NoRow]
  /\ UNCHANGED <<plan, serverKey, canary, bound, vault, envJobs>>

Bind ==
  /\ Serving
  /\ RowsOf("global") # {}
  /\ bound' = ~bound
  /\ UNCHANGED <<plan, serverKey, canary, envRows, vault, envJobs>>

-----------------------------------------------------------------------------
(* Bulk edit and copy: read outside the transaction, saved inside it *)

\* The row a map by key keeps: any of several rows of one key.
Keyed(owner) == IF RowsOf(owner) = {} THEN {0} ELSE RowsOf(owner)
RowAt(id) == IF id = 0 THEN NoRow ELSE envRows[id]

\* A form that keeps the value stands for a "replace" without the variable.
BeginBulk(r, form) ==
  /\ Serving
  /\ form.value # <<"shown">>
  /\ \E id \in Keyed("stack") :
       Starts(r, [op |-> "bulk", id |-> id, original |-> RowAt(id), form |-> form])
  /\ UNCHANGED <<plan, serverKey, canary, envRows, bound, vault>>

\* Mutant: a row that was no secret is carried over, too.
BulkValue_AnyRow(original, form) ==
  IF original # NoRow /\ form.value = Blank /\ form.secret
  THEN original.value
  ELSE form.value

\* A blank value for a secret that stays one means "unchanged".
BulkValue(original, form) ==
  IF /\ original # NoRow /\ form.value = Blank
     /\ form.secret /\ isInternalSecret(original)
  THEN original.value
  ELSE form.value

SaveBulk(r) ==
  /\ envJobs[r].op = "bulk"
  /\ LET job == envJobs[r]
         row == [AppliedForm(job.original, "stack", job.form)
                   EXCEPT !.value = BulkValue(job.original, job.form)]
     IN  IF job.form.value = <<"kept">>
         THEN envRows' = [id \in RowIds |->
                            IF id = job.id THEN NoRow ELSE envRows[id]]
         ELSE IF job.id = 0 THEN CreateRow(row)
         ELSE UpdateRow(job.id, job.original, row)
  /\ End(r)
  /\ UNCHANGED <<plan, serverKey, canary, bound, vault>>

BeginCopy(r, overwrite) ==
  /\ Serving
  /\ \E from \in Keyed("stack"), to \in Keyed("copy") :
       Starts(r, [op |-> "copy", source |-> RowAt(from), id |-> to,
                  original |-> RowAt(to), overwrite |-> overwrite])
  /\ UNCHANGED <<plan, serverKey, canary, envRows, bound, vault>>

CopiedValue(source) ==
  IF isInternalSecret(source) /\ IsEncrypted(source.value)
  THEN Seal(serverKey, Decrypt(serverKey, source.value))
  ELSE source.value

SaveCopy(r) ==
  /\ envJobs[r].op = "copy"
  /\ LET job == envJobs[r]
         source == job.source
         row == [source EXCEPT !.owner = "copy", !.raced = FALSE,
                                !.value = CopiedValue(source)]
         skipped == \/ source = NoRow
                    \/ job.id # 0 /\ ~job.overwrite
                    \/ isInternalSecret(source) /\ ~IsEncrypted(source.value)
     IN  IF skipped THEN envRows' = envRows
         ELSE IF job.id = 0 THEN CreateRow(row)
         ELSE UpdateRow(job.id, job.original, row)
  /\ End(r)
  /\ UNCHANGED <<plan, serverKey, canary, bound, vault>>

-----------------------------------------------------------------------------
(* The Vault integration: Store.Save and Store.Load *)

NoVault == [enabled |-> FALSE, token |-> Blank, meant |-> Blank]

BeginVault(r, enabled, token) ==
  /\ Serving
  /\ Starts(r, [op |-> "vault", enabled |-> enabled, token |-> token, original |-> vault])
  /\ UNCHANGED <<plan, serverKey, canary, envRows, bound, vault>>

\* Mutant: the mask is taken for a new token.
StoredToken_MaskTyped(job) ==
  IF job.token = Blank THEN Blank ELSE Seal(serverKey, job.token)

\* A masked token is carried over as it is stored; any other is sealed.
StoredToken(job) ==
  CASE job.token = Mask -> job.original.token
    [] job.token = Blank -> Blank
    [] OTHER -> Seal(serverKey, job.token)

SaveVault(r) ==
  /\ envJobs[r].op = "vault"
  /\ LET job == envJobs[r]
     IN  vault' = IF job.token = Mask /\ job.original.token = Blank THEN vault
                  ELSE [enabled |-> job.enabled, token |-> StoredToken(job),
                        meant |-> IF job.token = Mask THEN job.original.meant
                                  ELSE job.token]
  /\ End(r)
  /\ UNCHANGED <<plan, serverKey, canary, envRows, bound>>

LoadToken ==
  IF vault.token = Blank THEN Blank ELSE Decrypt(serverKey, vault.token)

BuildVaultClient == vault.enabled /\ LoadToken \notin {Blank, Unreadable}

\* No enabled backend is missing for the rows a deployment uses.
checkSecretBackends(rows) ==
  \A row \in rows :
    row.secret /\ ~isInternalSecretProvider(row.provider) => vault.enabled

-----------------------------------------------------------------------------
(* Resolving the environment of a deployment *)

\* What a provider may answer; Unreadable is an error.
Resolve(row) ==
  IF ~row.secret THEN {row.value}
  ELSE IF isInternalSecretProvider(row.provider)
       THEN {Decrypt(serverKey, row.value)}
  ELSE {Unreadable}
         \cup (IF row.value = Reference /\ BuildVaultClient THEN {External} ELSE {})

GlobalRows == IF bound THEN {envRows[id] : id \in RowsOf("global")} ELSE {}
LocalRows == {envRows[id] : id \in RowsOf("stack")}

\* The pass begins with the check of the backends and the global rows.
LoadGlobals(r) ==
  /\ Serving
  /\ checkSecretBackends(GlobalRows \cup LocalRows)
  /\ \/ /\ GlobalRows = {}
        /\ Starts(r, [op |-> "load", got |-> Unreadable, meant |-> Unreadable])
     \/ \E row \in GlobalRows : \E got \in Resolve(row) \ {Unreadable} :
          Starts(r, [op |-> "load", got |-> got, meant |-> row.meant])
  /\ UNCHANGED <<plan, serverKey, canary, envRows, bound, vault>>

\* Local rows override; one that cannot be resolved fails the pass.
LoadLocals(r) ==
  /\ envJobs[r].op = "load"
  /\ \/ /\ LocalRows = {}
        /\ envJobs' = [envJobs EXCEPT ![r].op = "deploy"]
     \/ \E row \in LocalRows : \E got \in Resolve(row) :
          envJobs' = [envJobs EXCEPT ![r] =
            IF got = Unreadable THEN EnvResting
            ELSE [op |-> "deploy", got |-> got, meant |-> row.meant]]
  /\ UNCHANGED <<plan, serverKey, canary, envRows, bound, vault>>

Deployed(r) ==
  /\ envJobs[r].op = "deploy"
  /\ End(r)
  /\ UNCHANGED <<plan, serverKey, canary, envRows, bound, vault>>

-----------------------------------------------------------------------------
(* Starting and stopping *)

\* secretBearingFields names stack_env_vars and not the other two.
hasExistingEncryptedData ==
  \E id \in RowIds : envRows[id].owner \in Locals /\ envRows[id].value # Blank

\* Mutant: the key is stored, never compared.
VerifyOrSeedSecretKeyCanary_Seeds(key) ==
  canary' = IF canary = NoSecretKey THEN key ELSE canary

VerifyOrSeedSecretKeyCanary(key) ==
  /\ IF canary = NoSecretKey THEN ~hasExistingEncryptedData ELSE canary = key
  /\ canary' = key

Boot(key) ==
  /\ ~Serving
  /\ VerifyOrSeedSecretKeyCanary(key)
  /\ serverKey' = key
  /\ UNCHANGED <<plan, envRows, bound, vault, envJobs>>

Stop ==
  /\ Serving
  /\ serverKey' = NoSecretKey
  /\ envJobs' = [r \in EnvRequests |-> EnvResting]
  /\ UNCHANGED <<plan, canary, envRows, bound, vault>>

-----------------------------------------------------------------------------
EnvSecretsInit ==
  /\ plan \in Plans
  /\ serverKey = NoSecretKey
  /\ canary = NoSecretKey
  /\ \/ envRows = [id \in RowIds |-> NoRow]
     \/ \E owner \in LegacyOwners, key \in SecretKeys, text \in Texts :
          envRows = [id \in RowIds |->
            IF id = 1
            THEN [owner |-> owner, secret |-> TRUE, provider |-> "internal",
                  value |-> Seal(key, <<text>>), meant |-> <<text>>,
                  raced |-> FALSE]
            ELSE NoRow]
  /\ bound = FALSE
  /\ vault = NoVault
  /\ envJobs = [r \in EnvRequests |-> EnvResting]

EnvSecretsNext ==
  \/ \E key \in SecretKeys : Boot(key)
  \/ Stop
  \/ Bind
  \/ \E owner \in UsedOwners, form \in EnvForms : CreateVar(owner, form)
  \/ \E id \in RowIds : DeleteVar(id)
  \/ \E r \in EnvRequests :
       \/ \E id \in RowIds, form \in EnvForms : BeginPatch(r, id, form)
       \/ \E form \in EnvForms : BeginBulk(r, form)
       \/ \E overwrite \in BOOLEAN : BeginCopy(r, overwrite)
       \/ \E enabled \in BOOLEAN, token \in {Blank, Mask} \cup {<<t>> : t \in WebhookTokens} :
            BeginVault(r, enabled, token)
       \/ SavePatch(r)
       \/ SaveBulk(r)
       \/ SaveCopy(r)
       \/ SaveVault(r)
       \/ LoadGlobals(r)
       \/ LoadLocals(r)
       \/ Deployed(r)

EnvSecretsSpec == EnvSecretsInit /\ [][EnvSecretsNext]_envSecretsVars

-----------------------------------------------------------------------------
PlainValues ==
  {Blank, Mask, Reference, External} \cup {<<t>> : t \in Texts \cup WebhookTokens}
IsStored(value) ==
  \/ value \in PlainValues
  \/ Head(value) \in SecretKeys /\ Tail(value) \in PlainValues

\* Every variable has the shape the data directory and the requests have.
EnvSecretsTypeOK ==
  /\ plan \in Plans
  /\ serverKey \in SecretKeys \cup {NoSecretKey}
  /\ canary \in SecretKeys \cup {NoSecretKey}
  /\ \A id \in RowIds :
       /\ envRows[id].owner \in Owners \cup {"none"}
       /\ IsStored(envRows[id].value)
       /\ envRows[id].provider \in {"", "internal", "vault"}
  /\ IsStored(vault.token)

\* A deployment, and an administrator who reveals a secret, gets the text
\* the variable is meant to hold or an error: never a sealed value, a mask or
\* a value sealed twice, whatever masked forms, bulk edits, copies and
\* restarts came before (putResolved, revealEnvVar, encryptField,
\* preserveMaskedSecretValue, copyStackEnvVars).
DeployedIsMeant ==
  /\ \A r \in EnvRequests :
       envJobs[r].op = "deploy" => envJobs[r].got = envJobs[r].meant
  /\ Serving => \A id \in RowIds :
       revealEnvVar(envRows[id]) \in {Unreadable, envRows[id].meant}

\* While a server runs, everything sealed in its data directory opens with
\* its SECRET_KEY (VerifyOrSeedSecretKeyCanary): the canary "confirms the
\* running SECRET_KEY matches the one that encrypted every other secret in
\* this DATA_DIR".
KeyOpensEverySecret ==
  Serving =>
    \A value \in {envRows[id].value : id \in RowIds} \cup {vault.token} :
      Len(value) > 1 => value[1] = serverKey

\* A row that is a secret stays one as long as it exists, although its edits
\* overlap and each only knows the row it read (preventEnvSecretDowngrade,
\* runBulkUpsertEnvVars, copyStackEnvVars).
SecretStaysSecret ==
  \A id \in RowIds : envRows[id].secret =>
    envRows'[id].secret \/ envRows'[id] = NoRow

\* The Vault token that Store.Load hands out is the one its last save meant,
\* however often the masked form was sent back (Store.Save, Store.Load).
TokenIsMeant ==
  Serving /\ vault.token # Blank => LoadToken = vault.meant

\* The data directory holds a secret of the internal provider in the clear
\* only where an edit that had read it as plain text was saved after the one
\* that made it a secret (prepareEnvSecretRecord decides by the flag it read).
ClearOnlyIfRaced ==
  \A id \in RowIds :
    isInternalSecret(envRows[id]) =>
      \/ Len(envRows[id].value) > 1
      \/ envRows[id].value \in {Blank, Mask}
      \/ envRows[id].raced

\* Secrets survive everything that is done to them: what is read back is what
\* was meant, it opens with the server's key, it is not stored in the clear
\* without a race, and a secret row stays one.
EnvSecretsSafety ==
  [][envSecretsVars' # envSecretsVars =>
       /\ EnvSecretsTypeOK' /\ DeployedIsMeant' /\ KeyOpensEverySecret'
       /\ TokenIsMeant' /\ ClearOnlyIfRaced'
       /\ SecretStaysSecret]_envSecretsVars
=============================================================================
