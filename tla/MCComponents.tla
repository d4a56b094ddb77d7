---------------------------- MODULE MCComponents ----------------------------
(***************************************************************************)
(* Small instances of components that share no state: what they promise    *)
(* whatever is fair.  A behaviour is a behaviour of one of them, so that   *)
(* their states add up instead of multiplying; each property is checked in *)
(* the states of the component it is about.                                *)
(***************************************************************************)
EXTENDS Accounts, ServiceAccounts, Backups, OAuthRefresh,
        Workspaces,
        EnvSecrets, Schedules, References,
        Relocation, Schema, Executor, Spool, TLC

CONSTANTS r1, r2, s1, s2,  \* requests
          k1, k2           \* archives

\* The component this behaviour is about.
VARIABLE part

Edit(via, role, disabled, protected) ==
  [via |-> via, role |-> role, disabled |-> disabled, protected |-> protected]
MCEdits == {Edit("route", "viewer", "keep", "keep"), Edit("api", "admin", "on", "off")}

MCSettings == {[on |-> TRUE, encrypt |-> TRUE, kms |-> TRUE],
               [on |-> TRUE, encrypt |-> FALSE, kms |-> FALSE],
               [on |-> FALSE, encrypt |-> TRUE, kms |-> FALSE]}

\* Requests are alike, and so are archives.
Symmetry == Permutations({r1, r2}) \cup Permutations({k1, k2})

MCFirst == <<"url1", "main">>
MCSources == {MCFirst, <<"url1", "dev">>}

MCEnvForms ==
  {EnvForm("kept", TRUE, "internal"), EnvForm("shown", TRUE, ""),
   EnvForm("p1", FALSE, ""),
   EnvForm("p2", TRUE, "internal"), EnvForm("", TRUE, ""),
   EnvForm("reference", TRUE, "vault")}
MCPlans ==
  {[rows |-> 2, asks |-> (s1 :> {"patch", "bulk", "copy", "load"}) @@ (s2 :> {})],
   [rows |-> 1, asks |-> (s1 :> {"patch", "vault", "load"}) @@ (s2 :> {})],
   [rows |-> 1, asks |-> (s1 :> {"patch", "bulk"}) @@ (s2 :> {"patch", "load"})]}

parts == <<accountsVars, keyVars, backupVars, oauthVars, workspaceVars,
           envSecretsVars, scheduleVars, referenceVars, relocationVars,
           schemaVars, executorVars, spoolVars>>
allVars == <<part, parts>>

\* The steps of component p leave the variables of the others alone.
Apart(p) ==
  /\ p # "accounts" => UNCHANGED accountsVars
  /\ p # "keys" => UNCHANGED keyVars
  /\ p # "backups" => UNCHANGED backupVars
  /\ p # "oauth" => UNCHANGED oauthVars
  /\ p # "workspaces" => UNCHANGED workspaceVars
  /\ p # "secrets" => UNCHANGED envSecretsVars
  /\ p # "schedules" => UNCHANGED scheduleVars
  /\ p # "references" => UNCHANGED referenceVars
  /\ p # "relocation" => UNCHANGED relocationVars
  /\ p # "schema" => UNCHANGED schemaVars
  /\ p # "executor" => UNCHANGED executorVars
  /\ p # "spool" => UNCHANGED spoolVars

MCInit ==
  /\ part \in {"accounts", "keys", "backups", "oauth", "workspaces",
               "secrets", "schedules", "references", "relocation",
               "schema", "executor", "spool"}
  /\ AccountsInit /\ ServiceAccountsInit /\ BackupsInit /\ OAuthInit
  /\ WorkspacesInit /\ EnvSecretsInit /\ SchedulesInit /\ ReferencesInit
  /\ RelocationInit /\ SchemaInit /\ ExecutorInit /\ SpoolInit
  \* What the others chose does not matter.
  /\ part # "backups" => config = CHOOSE c \in Settings : TRUE
  /\ part # "oauth" => rotates
  /\ part # "secrets" => /\ plan = CHOOSE p \in Plans : TRUE
                         /\ envRows = [id \in RowIds |-> NoRow]
  /\ part # "references" => family = "policy"

MCNext ==
  /\ UNCHANGED part
  /\ \/ part = "accounts" /\ AccountsNext /\ Apart("accounts")
     \/ part = "keys" /\ ServiceAccountsNext /\ Apart("keys")
     \/ part = "backups" /\ BackupsNext /\ Apart("backups")
     \/ part = "oauth" /\ OAuthNext /\ Apart("oauth")
     \/ part = "workspaces" /\ WorkspacesNext /\ Apart("workspaces")
     \/ part = "secrets" /\ EnvSecretsNext /\ Apart("secrets")
     \/ part = "schedules" /\ SchedulesNext /\ Apart("schedules")
     \/ part = "references" /\ ReferencesNext /\ Apart("references")
     \/ part = "relocation" /\ RelocationNext /\ Apart("relocation")
     \/ part = "schema" /\ SchemaNext /\ Apart("schema")
     \/ part = "executor" /\ ExecutorNext /\ Apart("executor")
     \/ part = "spool" /\ SpoolNext /\ Apart("spool")

MCSpec == MCInit /\ [][MCNext]_allVars
=============================================================================
