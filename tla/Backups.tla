------------------------------ MODULE Backups -------------------------------
(***************************************************************************)
(* Backups of the server (internal/backup, routes/backup_routes.go and the *)
(* OnBackupCreate hook): archives on the local disk, mirrored to remote    *)
(* storage when it is enabled, by requests that run concurrently with each *)
(* other and with PocketBase's own cron backups.                           *)
(***************************************************************************)
EXTENDS Integers, FiniteSets

CONSTANTS
  BackupKeys,       \* names of archives
  Callers,    \* concurrent requests
  Cron,       \* the cron job
  MaxCount,   \* BACKUP_MAX_COUNT
  Settings    \* bound: the settings of the s3 integration

ASSUME BackupsAssumption ==
  /\ MaxCount \in Nat \ {0} /\ Cron \notin Callers
  /\ IsFiniteSet(BackupKeys) /\ IsFiniteSet(Callers)
  /\ Settings \subseteq [on : BOOLEAN, encrypt : BOOLEAN, kms : BOOLEAN]

NoKey == "none"
Ops == {"create", "upload", "delete", "restore", "sync"}
Forms == {"plain", "secret", "kms"}     \* how a remote object was encrypted
Nobody == [op |-> "none", key |-> NoKey, pc |-> "idle"]

VARIABLES
  local,      \* what is on disk under each key: "none", "archive", "garbage"
  remote,     \* the remote object's encryption, or "none"
  config,     \* the s3 integration: [on, encrypt, kms]
  requests,   \* each caller's operation and step
  capacityMu, \* its holder, or Cron when it is free (Cron never takes it)
  pendingRestoreKeys,
  activeBackup,  \* PocketBase's StoreKeyActiveBackup
  outOfBand   \* a cron backup or a change of configuration happened (history)

backupVars == <<local, remote, config, requests, capacityMu, pendingRestoreKeys,
                activeBackup, outOfBand>>

Free == Cron
Held(k) == local[k] # "none"
Listed == {k \in BackupKeys : Held(k) \/ (config.on /\ remote[k] # "none")}

BackupsInit ==
  /\ local = [k \in BackupKeys |-> "none"] /\ remote = [k \in BackupKeys |-> "none"]
  /\ config \in Settings
  /\ requests = [c \in Callers \cup {Cron} |-> Nobody]
  /\ capacityMu = Free /\ pendingRestoreKeys = [k \in BackupKeys |-> 0]
  /\ activeBackup = NoKey /\ outOfBand = FALSE

At(c, op, pc) == requests[c].op = op /\ requests[c].pc = pc
KeyOf(c) == requests[c].key
Go(c, pc) == requests' = [requests EXCEPT ![c].pc = pc]
Finish(c) == requests' = [requests EXCEPT ![c] = Nobody]
Unlock(c) == capacityMu' = IF capacityMu = c THEN Free ELSE capacityMu

FirstStep == [create |-> "lock", upload |-> "lock", delete |-> "guard",
              restore |-> "reserve", sync |-> "exists"]

Request(c, op, k) ==
  /\ requests[c] = Nobody
  /\ requests' = [requests EXCEPT ![c] = [op |-> op, key |-> k, pc |-> FirstStep[op]]]
  /\ UNCHANGED <<local, remote, config, capacityMu, pendingRestoreKeys,
                 activeBackup, outOfBand>>

\* PocketBase's cron calls CreateBackup itself, under a fresh name.
CronBackup(k) ==
  /\ requests[Cron] = Nobody /\ ~Held(k) /\ remote[k] = "none"
  /\ requests' = [requests EXCEPT ![Cron] = [op |-> "create", key |-> k, pc |-> "write"]]
  /\ outOfBand' = TRUE
  /\ UNCHANGED <<local, remote, config, capacityMu, pendingRestoreKeys, activeBackup>>

\* Mutant: the capacity is checked without holding capacityMu.
Lock_Skipped(c) ==
  /\ requests[c].pc = "lock"
  /\ Go(c, IF requests[c].op = "delete" THEN "local" ELSE "check")
  /\ UNCHANGED <<local, remote, config, capacityMu, pendingRestoreKeys,
                 activeBackup, outOfBand>>

Lock(c) ==
  /\ requests[c].pc = "lock" /\ capacityMu = Free
  /\ capacityMu' = c
  /\ Go(c, IF requests[c].op = "delete" THEN "local" ELSE "check")
  /\ UNCHANGED <<local, remote, config, pendingRestoreKeys, activeBackup, outOfBand>>

\* Create and Upload: room for one more, and the name is new.  The remote
\* storage may fail to list its objects.
CheckCapacity(c) ==
  /\ requests[c].pc = "check"
  /\ IF Cardinality(Listed) < MaxCount /\ KeyOf(c) \notin Listed
     THEN \/ Go(c, "write") /\ UNCHANGED capacityMu
          \/ config.on /\ Finish(c) /\ Unlock(c)
     ELSE Finish(c) /\ Unlock(c)
  /\ UNCHANGED <<local, remote, config, pendingRestoreKeys, activeBackup, outOfBand>>

\* app.CreateBackup refuses to run beside another backup or restore; Upload
\* writes the operator's archive.
Write(c) ==
  /\ requests[c].pc = "write"
  /\ IF requests[c].op = "create" /\ activeBackup # NoKey
     THEN Finish(c) /\ Unlock(c) /\ UNCHANGED <<local, activeBackup>>
     ELSE /\ local' = [local EXCEPT ![KeyOf(c)] = "archive"]
          /\ activeBackup' = IF requests[c].op = "create" THEN KeyOf(c)
                             ELSE activeBackup
          /\ Go(c, "mirror") /\ UNCHANGED capacityMu
  /\ UNCHANGED <<remote, config, pendingRestoreKeys, outOfBand>>

\* EncryptedPut's metadata, or none when encrypt_content is off.
Form == CASE ~config.encrypt -> "plain"
          [] config.encrypt /\ config.kms -> "kms"
          [] OTHER -> "secret"

\* MirrorLocalBackupToRemote, from the hook or from Upload; its failure leaves
\* the local copy.
Mirror(c) ==
  /\ requests[c].pc = "mirror"
  /\ remote' \in {remote} \cup
       IF config.on /\ Held(KeyOf(c)) THEN {[remote EXCEPT ![KeyOf(c)] = Form]} ELSE {}
  /\ activeBackup' = IF requests[c].op = "create" THEN NoKey ELSE activeBackup
  /\ Finish(c) /\ Unlock(c)
  /\ UNCHANGED <<local, config, pendingRestoreKeys, outOfBand>>

\* Delete's look at the backups in use, before it takes capacityMu.
DeleteGuard(c) ==
  /\ At(c, "delete", "guard")
  /\ IF activeBackup = KeyOf(c) \/ pendingRestoreKeys[KeyOf(c)] > 0
     THEN Finish(c) ELSE Go(c, "lock")
  /\ UNCHANGED <<local, remote, config, capacityMu, pendingRestoreKeys,
                 activeBackup, outOfBand>>

DeleteLocal(c) ==
  /\ At(c, "delete", "local")
  /\ \/ local' = [local EXCEPT ![KeyOf(c)] = "none"]
        /\ Go(c, "remote") /\ UNCHANGED capacityMu
     \/ UNCHANGED local /\ Finish(c) /\ Unlock(c)
  /\ UNCHANGED <<remote, config, pendingRestoreKeys, activeBackup, outOfBand>>

DeleteRemote(c) ==
  /\ At(c, "delete", "remote")
  /\ remote' \in {remote} \cup
       IF config.on THEN {[remote EXCEPT ![KeyOf(c)] = "none"]} ELSE {}
  /\ Finish(c) /\ Unlock(c)
  /\ UNCHANGED <<local, config, pendingRestoreKeys, activeBackup, outOfBand>>

\* The canary check, and the reservation of the key.
Reserve(c) ==
  /\ At(c, "restore", "reserve")
  /\ \/ /\ pendingRestoreKeys' = [pendingRestoreKeys EXCEPT ![KeyOf(c)] = @ + 1]
        /\ Go(c, "exists")
     \/ Finish(c) /\ UNCHANGED pendingRestoreKeys
  /\ UNCHANGED <<local, remote, config, capacityMu, activeBackup, outOfBand>>

\* releasePendingRestoreKey, of a restore; a sync has reserved nothing.
Released(c) ==
  IF requests[c].op = "restore"
  THEN [pendingRestoreKeys EXCEPT ![KeyOf(c)] = @ - 1] ELSE pendingRestoreKeys

\* Mutant: a synchronisation that finds nothing releases, too.
FindLocal_Releases(c) ==
  /\ requests[c].pc = "exists"
  /\ IF Held(KeyOf(c))
     THEN /\ IF requests[c].op = "restore" THEN Go(c, "committed") ELSE Finish(c)
          /\ UNCHANGED pendingRestoreKeys
     ELSE IF config.on THEN Go(c, "fetch") /\ UNCHANGED pendingRestoreKeys
     ELSE /\ Finish(c)
          /\ pendingRestoreKeys' = [pendingRestoreKeys EXCEPT ![KeyOf(c)] = @ - 1]
  /\ UNCHANGED <<local, remote, config, capacityMu, activeBackup, outOfBand>>

\* Restore and SyncLocal look for the local copy.
FindLocal(c) ==
  /\ requests[c].pc = "exists"
  /\ IF Held(KeyOf(c))
     THEN /\ IF requests[c].op = "restore" THEN Go(c, "committed") ELSE Finish(c)
          /\ UNCHANGED pendingRestoreKeys
     ELSE IF config.on THEN Go(c, "fetch") /\ UNCHANGED pendingRestoreKeys
     ELSE Finish(c) /\ pendingRestoreKeys' = Released(c)
  /\ UNCHANGED <<local, remote, config, capacityMu, activeBackup, outOfBand>>

\* Mutant: the current settings say how to decrypt.
Decrypts_BySetting(form) ==
  IF form = Form THEN {"archive"}
  ELSE IF Form = "plain" THEN {"garbage"} ELSE {}

\* EncryptedGet: what its metadata say; an object of the KMS needs the KMS.
Decrypts(form) == IF form = "kms" /\ ~config.kms THEN {} ELSE {"archive"}

\* Mutant: a restore whose download fails keeps its reservation.
Fetch_Reserved(c) ==
  /\ requests[c].pc = "fetch"
  /\ \/ /\ config.on /\ remote[KeyOf(c)] # "none"
        /\ \E content \in Decrypts(remote[KeyOf(c)]) :
             local' = [local EXCEPT ![KeyOf(c)] = content]
        /\ IF requests[c].op = "restore" THEN Go(c, "committed") ELSE Finish(c)
     \/ Finish(c) /\ UNCHANGED local
  /\ UNCHANGED <<remote, config, capacityMu, pendingRestoreKeys, activeBackup,
                 outOfBand>>

\* downloadRemoteToLocal.
Fetch(c) ==
  /\ requests[c].pc = "fetch"
  /\ \/ /\ config.on /\ remote[KeyOf(c)] # "none"
        /\ \E content \in Decrypts(remote[KeyOf(c)]) :
             local' = [local EXCEPT ![KeyOf(c)] = content]
        /\ IF requests[c].op = "restore" THEN Go(c, "committed") ELSE Finish(c)
        /\ UNCHANGED pendingRestoreKeys
     \/ Finish(c) /\ pendingRestoreKeys' = Released(c) /\ UNCHANGED local
  /\ UNCHANGED <<remote, config, capacityMu, activeBackup, outOfBand>>

\* The process is replaced: PocketBase restarts it after a restore.
Restarted ==
  /\ requests' = [c \in Callers \cup {Cron} |-> Nobody]
  /\ capacityMu' = Free /\ pendingRestoreKeys' = [k \in BackupKeys |-> 0]
  /\ activeBackup' = NoKey

\* The goroutine of Restore, a second later: app.RestoreBackup.
RunRestore(c) ==
  /\ At(c, "restore", "committed")
  /\ \/ /\ activeBackup = NoKey /\ local[KeyOf(c)] = "archive"
        /\ Restarted /\ config' \in Settings /\ outOfBand' = TRUE
     \/ /\ Finish(c) /\ pendingRestoreKeys' = Released(c)
        /\ UNCHANGED <<config, capacityMu, activeBackup, outOfBand>>
  /\ UNCHANGED <<local, remote>>

\* An administrator changes the s3 integration.
Configure(cfg) ==
  /\ cfg # config /\ config' = cfg /\ outOfBand' = TRUE
  /\ UNCHANGED <<local, remote, requests, capacityMu, pendingRestoreKeys, activeBackup>>

BackupsNext ==
  \/ \E c \in Callers, op \in Ops, k \in BackupKeys : Request(c, op, k)
  \/ \E k \in BackupKeys : CronBackup(k)
  \/ \E c \in Callers :
       \/ Lock(c) \/ CheckCapacity(c)
       \/ DeleteGuard(c) \/ DeleteLocal(c) \/ DeleteRemote(c)
       \/ Reserve(c) \/ FindLocal(c) \/ Fetch(c) \/ RunRestore(c)
  \/ \E c \in Callers \cup {Cron} : Write(c) \/ Mirror(c)
  \/ \E cfg \in Settings : Configure(cfg)

BackupsSpec == BackupsInit /\ [][BackupsNext]_backupVars

(***************************************************************************)
(* Properties                                                              *)
(***************************************************************************)

BackupsTypeOK ==
  /\ local \in [BackupKeys -> {"none", "archive", "garbage"}]
  /\ remote \in [BackupKeys -> Forms \cup {"none"}]
  /\ config \in Settings /\ outOfBand \in BOOLEAN
  /\ requests \in [Callers \cup {Cron} ->
       [op : Ops, key : BackupKeys, pc : {"lock", "check", "write", "mirror", "guard",
          "local", "remote", "reserve", "exists", "fetch", "committed"}]
       \cup {Nobody}]
  /\ capacityMu \in Callers \cup {Free}
  /\ pendingRestoreKeys \in [BackupKeys -> 0 .. Cardinality(Callers)]
  /\ activeBackup \in BackupKeys \cup {NoKey}

\* Requests that create, upload, delete, fetch and restore at the same time
\* never leave more archives than BACKUP_MAX_COUNT, the purpose of capacityMu;
\* cron backups and a switch of the remote storage are not held to it.
CapacityHolds ==
  ~outOfBand => Cardinality(Listed) <= MaxCount

\* The count of reservations of a key is the number of restores that are on
\* it: none is dropped while another restore needs it, and none is left
\* behind, after which the key could not be deleted any more.
ReservationsAreCounted ==
  \A k \in BackupKeys :
    pendingRestoreKeys[k] =
      Cardinality({c \in Callers : /\ requests[c].op = "restore" /\ KeyOf(c) = k
                                   /\ requests[c].pc # "reserve"})

\* What is on disk is always an archive that can be restored, whatever the
\* settings were when its mirror was written and are when it is fetched.
CopiesAreArchives == \A k \in BackupKeys : local[k] # "garbage"

\* The archives are accounted for: within their capacity, reserved by exactly
\* the restores that are on them, and readable.
BackupsSafety ==
  BackupsTypeOK /\ CapacityHolds /\ ReservationsAreCounted /\ CopiesAreArchives
=============================================================================
